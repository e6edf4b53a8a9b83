-------------------------- MODULE VisibilityProofs --------------------------
(***************************************************************************)
(* Proofs about Visibility, for any keys, rows, rules, references, pushes, *)
(* lost sockets and failed requests: a subscriber has the rows that the    *)
(* rule allows, when writers know the rows they write.                     *)
(***************************************************************************)
EXTENDS Visibility, ChangeLogProofs, SequenceTheorems, TLAPS

-----------------------------------------------------------------------------
(***************************************************************************)
(* The rows of the shard after n batches of a history, and those of them   *)
(* that are shown by the reference m.                                      *)
(***************************************************************************)
Rows == Todos \cup {NoRow}
Contents == [Keys -> Rows]
Referenced == Members \cup {NoRow}

Updates == [key : Keys, type : {"insert", "update", "delete"}, value : Rows,
            previousValue : Rows]
Batches == Updates \cup {NoUpdate}

Of(h, n, k) == {i \in 1..n : h[i] # NoUpdate /\ h[i].key = k}
After(h, n) ==
  [k \in Keys |-> IF Of(h, n, k) = {} THEN NoRow ELSE h[Max(Of(h, n, k))].value]

Visible(a, row, m) ==
  LET decision == Decide(a.read, References(m)) IN
  row # NoRow /\ decision.allow /\ Matches(row, decision.predicate)

ShownRow(a, row, m) == IF Visible(a, row, m) THEN row ELSE NoRow
Shown(a, h, n, m) == [k \in Keys |-> ShownRow(a, After(h, n)[k], m)]

\* The author of the batch n knew the row.
Known(h, n) == h[n] # NoUpdate => h[n].previousValue = After(h, n - 1)[h[n].key]

\* The history is that of the table.
HistoryOk(h, t) ==
  /\ h \in Seq(Batches) /\ t = After(h, Len(h))
  /\ \A i \in DOMAIN h : Known(h, i)

LEMMA NotNone ==
  ASSUME NEW v \in Updates
  PROVE  v # NoUpdate
<1>1. v.type \in {"insert", "update", "delete"}
  BY DEF Updates
<1>2. NoUpdate.type = "none"
  BY DEF NoUpdate
<1> QED
  BY <1>1, <1>2

LEMMA LastIs ==
  ASSUME NEW h, NEW n \in Nat, NEW k, Of(h, n, k) # {}
  PROVE  /\ Max(Of(h, n, k)) \in Of(h, n, k)
         /\ \A i \in Of(h, n, k) : i <= Max(Of(h, n, k))
<1>1. Of(h, n, k) \in SUBSET Nat /\ \A i \in Of(h, n, k) : i <= n
  BY DEF Of
<1> QED
  BY <1>1, MaxIsGreatest

LEMMA AfterNone ==
  ASSUME NEW h
  PROVE  After(h, 0) = [k \in Keys |-> NoRow]
BY DEF After, Of

LEMMA AfterNext ==
  ASSUME NEW h, NEW n \in Nat, n # 0, h[n] # NoUpdate, h[n].key \in Keys
  PROVE  After(h, n) = [After(h, n - 1) EXCEPT ![h[n].key] = h[n].value]
<1> DEFINE new == [After(h, n - 1) EXCEPT ![h[n].key] = h[n].value]
<1>0. n - 1 \in Nat /\ n \in 1..n /\ 1..n = (1..(n - 1)) \cup {n}
  OBVIOUS
<1>1. ASSUME NEW k \in Keys
      PROVE  After(h, n)[k] = new[k]
  <2>1. CASE k = h[n].key
    <3>1. n \in Of(h, n, k)
      BY <1>0, <2>1 DEF Of
    <3>2. Max(Of(h, n, k)) \in Of(h, n, k) /\ n <= Max(Of(h, n, k))
      BY <3>1, LastIs
    <3>3. Max(Of(h, n, k)) = n
      BY <3>2 DEF Of
    <3> QED
      BY <2>1, <3>1, <3>3 DEF After
  <2>2. CASE k # h[n].key
    <3>1. Of(h, n, k) = Of(h, n - 1, k)
      BY <1>0, <2>2 DEF Of
    <3> QED
      BY <2>2, <3>1 DEF After
  <2> QED
    BY <2>1, <2>2
<1>2. DOMAIN After(h, n) = Keys /\ DOMAIN new = Keys
  BY DEF After
<1> QED
  BY <1>1, <1>2 DEF After

\* A batch without a todo leaves the rows.
LEMMA AfterNothing ==
  ASSUME NEW h, NEW n \in Nat, n # 0, h[n] = NoUpdate
  PROVE  After(h, n) = After(h, n - 1)
<1>1. 1..n = (1..(n - 1)) \cup {n}
  OBVIOUS
<1>2. \A k : Of(h, n, k) = Of(h, n - 1, k)
  BY <1>1 DEF Of
<1> QED
  BY <1>2 DEF After

\* The batches up to n decide the rows.
LEMMA AfterSame ==
  ASSUME NEW h, NEW g, NEW n \in Nat, \A i \in 1..n : h[i] = g[i]
  PROVE  After(h, n) = After(g, n)
<1>1. ASSUME NEW k
      PROVE  Of(h, n, k) = Of(g, n, k)
  BY DEF Of
<1>2. ASSUME NEW k \in Keys
      PROVE  After(h, n)[k] = After(g, n)[k]
  <2>1. CASE Of(h, n, k) = {}
    BY <1>1, <2>1 DEF After
  <2>2. CASE Of(h, n, k) # {}
    <3>1. Max(Of(h, n, k)) \in Of(h, n, k)
      BY <2>2, LastIs
    <3>2. Max(Of(h, n, k)) \in 1..n
      BY <3>1 DEF Of
    <3> QED
      BY <1>1, <2>2, <3>2 DEF After
  <2> QED
    BY <2>1, <2>2
<1> QED
  BY <1>2 DEF After

LEMMA AfterType ==
  ASSUME NEW h \in Seq(Batches), NEW n \in 0..Len(h)
  PROVE  After(h, n) \in Contents
<1>1. ASSUME NEW k \in Keys
      PROVE  After(h, n)[k] \in Rows
  <2>1. CASE Of(h, n, k) = {}
    BY <2>1 DEF After, Rows
  <2>2. CASE Of(h, n, k) # {}
    <3>0. n \in Nat /\ n <= Len(h)
      OBVIOUS
    <3>4. Max(Of(h, n, k)) \in Of(h, n, k)
      BY <2>2, <3>0, LastIs
    <3>1. Max(Of(h, n, k)) \in 1..n /\ h[Max(Of(h, n, k))] # NoUpdate
      BY <3>4 DEF Of
    <3>2. Max(Of(h, n, k)) \in DOMAIN h
      BY <3>0, <3>1
    <3>3. h[Max(Of(h, n, k))] \in Updates
      BY <3>1, <3>2 DEF Batches
    <3> QED
      BY <2>2, <3>3 DEF After, Updates
  <2> QED
    BY <2>1, <2>2
<1> QED
  BY <1>1 DEF After, Contents

LEMMA ShownType ==
  ASSUME NEW a, NEW h \in Seq(Batches), NEW n \in 0..Len(h), NEW m
  PROVE  Shown(a, h, n, m) \in Contents
<1>1. After(h, n) \in Contents
  BY AfterType
<1> QED
  BY <1>1 DEF Shown, ShownRow, Contents, Rows

LEMMA SameContents ==
  ASSUME NEW f \in Contents, NEW g \in Contents, \A k \in Keys : f[k] = g[k]
  PROVE  f = g
BY DEF Contents

-----------------------------------------------------------------------------
(***************************************************************************)
(* What is shown of a batch.                                               *)
(***************************************************************************)
LEMMA VisibleAs ==
  ASSUME NEW row, NEW m
  PROVE  VisibleRow(row, m) <=> Visible(access, row, m)
BY DEF VisibleRow, Visible, Decision

LEMMA RuleIs ==
  ASSUME access \in AccessRules, NEW m \in Referenced
  PROVE  /\ ~Visible(access, NoRow, m)
         /\ \A row \in Todos :
              Visible(access, row, m) <=> Permits(access.read, row, References(m))
         /\ ~Decision(m).allow => \A row : ~Visible(access, row, m)
         /\ Decision(m).allow /\ Decision(m).predicate = NoPredicate =>
              \A row \in Todos : Visible(access, row, m)
<1>1. NoRow \notin Todos
  BY VisibilityAssumption
<1>2. \A row \in Todos :
        /\ Decision(m).allow /\ Matches(row, Decision(m).predicate)
             <=> Permits(access.read, row, References(m))
        /\ Matches(row, NoPredicate)
  BY DecisionAssumption DEF Referenced, Decision
<1> QED
  BY <1>1, <1>2 DEF Visible, Decision

\* The batch n says nothing of the rows that are shown.
Silent(a, h, n, m) == Shown(a, h, n, m) = Shown(a, h, n - 1, m)

\* The update v, or none, is what is shown of the batch n.
TellsOf(a, h, n, m, v) ==
  /\ h[n] \in Updates /\ v \in Updates /\ v.key = h[n].key
  /\ v.value = Shown(a, h, n, m)[h[n].key]
Tells(a, h, n, m, v) == (v = NoUpdate /\ Silent(a, h, n, m)) \/ TellsOf(a, h, n, m, v)

\* Only the row of a batch is shown anew.
ShownMoves(a, h, n, m) ==
  LET u == h[n] IN
  /\ Shown(a, h, n, m) = [Shown(a, h, n - 1, m) EXCEPT ![u.key] = ShownRow(a, u.value, m)]
  /\ Shown(a, h, n, m)[u.key] = ShownRow(a, u.value, m)

LEMMA ShownNext ==
  ASSUME NEW a, NEW h, NEW n \in Nat, n # 0, h[n] \in Updates, NEW m
  PROVE  ShownMoves(a, h, n, m)
<1> DEFINE u == h[n]
           new == [Shown(a, h, n - 1, m) EXCEPT ![u.key] = ShownRow(a, u.value, m)]
<1>1. u # NoUpdate
  BY NotNone
<1>2. u.key \in Keys
  BY DEF Updates
<1>3. After(h, n) = [After(h, n - 1) EXCEPT ![u.key] = u.value]
  BY <1>1, <1>2, AfterNext
<1>4. \A k \in Keys : After(h, n)[k] = IF k = u.key THEN u.value ELSE After(h, n - 1)[k]
  BY <1>2, <1>3 DEF After
<1>5. \A k \in Keys : Shown(a, h, n, m)[k] = new[k]
  BY <1>2, <1>4 DEF Shown
<1>6. DOMAIN Shown(a, h, n, m) = Keys /\ DOMAIN new = Keys
  BY DEF Shown
<1>7. Shown(a, h, n, m) = new
  BY <1>5, <1>6 DEF Shown
<1>8. new[u.key] = ShownRow(a, u.value, m)
  BY <1>2 DEF Shown
<1> QED
  BY <1>7, <1>8 DEF ShownMoves

LEMMA VisibleIs ==
  ASSUME access \in AccessRules, NEW m \in Referenced, NEW h, NEW n \in Nat, n # 0,
         h[n] \in Batches, Known(h, n)
  PROVE  Tells(access, h, n, m, VisibleUpdate(h[n], m))
<1> DEFINE u == h[n]
           v == VisibleUpdate(u, m)
           before == Visible(access, u.previousValue, m)
           after == Visible(access, u.value, m)
           row == ShownRow(access, u.value, m)
<1>0. CASE u = NoUpdate
  <2>1. v = NoUpdate
    BY <1>0 DEF VisibleUpdate
  <2>2. After(h, n) = After(h, n - 1)
    BY <1>0, AfterNothing
  <2> QED
    BY <2>1, <2>2 DEF Tells, Silent, Shown
<1> SUFFICES ASSUME u # NoUpdate PROVE Tells(access, h, n, m, v)
  BY <1>0
<1>2. u \in Updates
  BY DEF Batches
<1>3. u.key \in Keys /\ u.value \in Rows /\ NoRow \in Rows
      /\ "delete" \in {"insert", "update", "delete"}
  BY <1>2 DEF Updates, Rows
<1>4. Shown(access, h, n, m) = [Shown(access, h, n - 1, m) EXCEPT ![u.key] = row]
      /\ Shown(access, h, n, m)[u.key] = row
  <2>1. ShownMoves(access, h, n, m)
    BY <1>2, ShownNext
  <2> QED
    BY <2>1 DEF ShownMoves
<1>5. Shown(access, h, n - 1, m)[u.key] = ShownRow(access, u.previousValue, m)
  BY <1>3 DEF Known, Shown
<1>6. row = (IF after THEN u.value ELSE NoRow)
  BY DEF ShownRow
<1>7. ASSUME ShownRow(access, u.previousValue, m) = row
      PROVE  Silent(access, h, n, m)
  BY <1>3, <1>4, <1>5, <1>7 DEF Shown, Silent
<1>8. ASSUME v \in Updates, v.key = u.key, v.value = row
      PROVE  Tells(access, h, n, m, v)
  BY <1>2, <1>4, <1>8 DEF Tells, TellsOf
<1>9. CASE ~Decision(m).allow
  <2>1. v = NoUpdate /\ ~before /\ ~after
    BY <1>9, RuleIs, VisibleAs DEF VisibleUpdate
  <2> QED
    BY <1>7, <2>1 DEF ShownRow, Tells
<1>10. CASE Decision(m).allow /\ Decision(m).predicate = NoPredicate
  <2>1. v = u
    BY <1>10 DEF VisibleUpdate
  <2>2. u.value # NoRow => after
    BY <1>3, <1>10, RuleIs DEF Rows
  <2> QED
    BY <1>2, <1>6, <1>8, <2>1, <2>2
<1>11. CASE Decision(m).allow /\ Decision(m).predicate # NoPredicate
  <2>1. v = IF ~before /\ ~after THEN NoUpdate
            ELSE IF ~after
                 THEN [u EXCEPT !.type = "delete", !.value = NoRow, !.previousValue = NoRow]
            ELSE IF ~before /\ u.type = "update" THEN [u EXCEPT !.type = "insert"]
            ELSE u
    BY <1>11, VisibleAs DEF VisibleUpdate
  <2> HIDE DEF v
  <2>2. CASE ~before /\ ~after
    BY <1>7, <2>1, <2>2 DEF ShownRow, Tells
  <2>3. CASE before /\ ~after
    <3>1. v = [u EXCEPT !.type = "delete", !.value = NoRow, !.previousValue = NoRow]
      BY <2>1, <2>3
    <3>2. v \in Updates /\ v.key = u.key /\ v.value = NoRow
      BY <1>2, <1>3, <3>1 DEF Updates
    <3> QED
      BY <1>6, <1>8, <2>3, <3>2
  <2>4. CASE after
    <3>1. v = [u EXCEPT !.type = "insert"] \/ v = u
      BY <2>1, <2>4
    <3>2. v \in Updates /\ v.key = u.key /\ v.value = u.value
      BY <1>2, <3>1 DEF Updates
    <3> QED
      BY <1>6, <1>8, <2>4, <3>2
  <2> QED
    BY <2>2, <2>3, <2>4
<1> QED
  BY <1>9, <1>10, <1>11

\* What nothing is said of stays as it is.
LEMMA SilentGap ==
  ASSUME NEW a, NEW h, NEW m, NEW from \in Nat, NEW to \in Nat, from <= to,
         \A n \in (from + 1)..to : Silent(a, h, n, m)
  PROVE  Shown(a, h, to, m) = Shown(a, h, from, m)
<1> DEFINE bad == {n \in from..to : Shown(a, h, n, m) # Shown(a, h, from, m)}
<1>1. SUFFICES ASSUME bad # {} PROVE FALSE
  OBVIOUS
<1>2. bad \in SUBSET Nat
  OBVIOUS
<1>3. PICK n \in bad : \A i \in bad : n <= i
  BY <1>1, <1>2, LeastNumber
<1>4. n \in from..to /\ n # from
  OBVIOUS
<1>5. n \in (from + 1)..to /\ n - 1 \in from..to /\ ~(n <= n - 1)
  BY <1>4
<1>6. Shown(a, h, n - 1, m) = Shown(a, h, from, m)
  BY <1>3, <1>5
<1> QED
  BY <1>3, <1>5, <1>6 DEF Silent

\* An update that is told brings its row to what is shown, and leaves the others,
\* of which nothing is said.
Brings(a, h, n, m, v, rows) ==
  /\ Apply(rows, v, TRUE) \in Contents
  /\ \A k \in Keys :
       \/ Apply(rows, v, TRUE)[k] = Shown(a, h, n, m)[k]
       \/ /\ Apply(rows, v, TRUE)[k] = rows[k]
          /\ Shown(a, h, n, m)[k] = Shown(a, h, n - 1, m)[k]

LEMMA ApplyIs ==
  ASSUME NEW a, NEW h, NEW n \in Nat, n # 0, NEW m, NEW v, Tells(a, h, n, m, v),
         NEW rows \in Contents
  PROVE  Brings(a, h, n, m, v, rows)
<1>1. CASE v = NoUpdate /\ Silent(a, h, n, m)
  <2>1. Apply(rows, v, TRUE) = rows
    BY <1>1 DEF Apply
  <2> QED
    BY <1>1, <2>1 DEF Brings, Silent
<1>2. CASE TellsOf(a, h, n, m, v)
  <2>1. h[n] \in Updates /\ v \in Updates /\ v.key = h[n].key /\ v # NoUpdate
        /\ v.value = Shown(a, h, n, m)[v.key]
    BY <1>2, NotNone DEF TellsOf
  <2>2. v.key \in Keys /\ v.value \in Rows
    BY <2>1 DEF Updates
  <2>3. Apply(rows, v, TRUE) = [rows EXCEPT ![v.key] = v.value]
    BY <2>1 DEF Apply
  <2>4. Shown(a, h, n, m) = [Shown(a, h, n - 1, m) EXCEPT ![v.key] = ShownRow(a, h[n].value, m)]
    BY <2>1, ShownNext DEF ShownMoves
  <2>5. \A k \in Keys : k # v.key => Shown(a, h, n, m)[k] = Shown(a, h, n - 1, m)[k]
    BY <2>4 DEF Shown
  <2>6. \A k \in Keys : Apply(rows, v, TRUE)[k] = IF k = v.key THEN v.value ELSE rows[k]
    BY <2>2, <2>3 DEF Contents
  <2>7. Apply(rows, v, TRUE) \in Contents
    BY <2>2, <2>3 DEF Contents
  <2> QED
    BY <2>1, <2>5, <2>6, <2>7 DEF Brings
<1> QED
  BY <1>1, <1>2 DEF Tells

-----------------------------------------------------------------------------
(***************************************************************************)
(* The messages on the link.                                               *)
(***************************************************************************)
Told == [type : {"updates"}, watermark : Nat, update : Batches, invalidated : BOOLEAN]
Answer == [type : {"rows"}, watermark : Nat, rows : Contents]
Missed == [type : {"changes"}, watermark : Nat, updates : Seq(Batches)]
Messages == Told \cup Answer \cup Missed

IsUpdates(msg) == msg.type = "updates"
IsRows(msg) == msg.type = "rows"
IsChanges(msg) == msg.type = "changes"
IsTold(msg) == IsUpdates(msg) /\ msg.invalidated

LEMMA KindsDiffer ==
  ASSUME NEW msg \in Messages
  PROVE  /\ msg.watermark \in Nat
         /\ ~(IsRows(msg) /\ IsUpdates(msg)) /\ ~(IsRows(msg) /\ IsChanges(msg))
         /\ ~(IsChanges(msg) /\ IsUpdates(msg))
         /\ IsRows(msg) \/ IsUpdates(msg) \/ IsChanges(msg)
         /\ IsUpdates(msg) => msg \in Told
         /\ IsRows(msg) => msg \in Answer
         /\ IsChanges(msg) => msg \in Missed
BY DEF Messages, Told, Answer, Missed, IsRows, IsUpdates, IsChanges

\* Messages are about the batches after the cursor, in their order: a broadcast
\* about a new one, an answer about all there are.
LinkOk(h, l, c) ==
  /\ l \in Seq(Messages) /\ c \in Nat /\ c <= Len(h)
  /\ \A i \in DOMAIN l : /\ l[i].watermark \in c..Len(h)
                         /\ IsUpdates(l[i]) => c < l[i].watermark
  /\ \A i, j \in DOMAIN l : i < j =>
       /\ l[i].watermark <= l[j].watermark
       /\ IsUpdates(l[j]) => l[i].watermark < l[j].watermark
  /\ \A p, q \in DOMAIN l : /\ IsRows(l[p]) /\ IsRows(l[q]) => p = q
                            /\ IsChanges(l[p]) /\ IsChanges(l[q]) => p = q

\* An answer to the request for changes does not go back behind the batch n.
Below(h, l, n) ==
  n \in 0..Len(h) /\ \A q \in DOMAIN l : IsChanges(l[q]) => n <= l[q].watermark

Carries(l, p, n) == \E i \in DOMAIN l : p < i /\ IsUpdates(l[i]) /\ l[i].watermark = n

\* The messages behind p tell of every batch after n.
Follows(a, h, l, m, p, n) ==
  \A i \in (n + 1)..Len(h) : Silent(a, h, i, m) \/ Carries(l, p, i)

\* The answer has what is shown of the batches up to its watermark.
Catches(a, h, m, msg) ==
  /\ msg.watermark - Len(msg.updates) \in Nat
  /\ \A i \in DOMAIN msg.updates :
       Tells(a, h, msg.watermark - Len(msg.updates) + i, m, msg.updates[i])

\* What the messages behind p tell is right, and after the missed changes none of
\* it is missing.
RightAt(a, h, l, m, i) ==
  /\ IsUpdates(l[i]) => Tells(a, h, l[i].watermark, m, l[i].update)
  /\ IsChanges(l[i]) => /\ Catches(a, h, m, l[i])
                        /\ Follows(a, h, l, m, i, l[i].watermark)
Right(a, h, l, m, p) == \A i \in DOMAIN l : p < i => RightAt(a, h, l, m, i)

-----------------------------------------------------------------------------
(***************************************************************************)
(* The inductive invariant.                                                *)
(***************************************************************************)
Types ==
  /\ access \in AccessRules /\ syncMode \in SyncModes /\ member \in Referenced
  /\ online \in BOOLEAN /\ asking \in BOOLEAN /\ buffered \in Seq(Told)
  /\ moved \in {"no", "told", "lost"} /\ loaded \in {"none", "asked", "loaded"}
  /\ session \in {"synchronized", "disconnected", "catching-up"}

\* One answer is under way for each request, and what is buffered is not newer
\* than the changes that were asked for.
SessionOk ==
  /\ loaded = "asked" <=> \E p \in DOMAIN link : IsRows(link[p])
  /\ ~online => link = <<>> /\ session = "disconnected"
  /\ session = "synchronized" => buffered = <<>>
  /\ asking => session = "catching-up" /\ \A q \in DOMAIN link : ~IsChanges(link[q])
  /\ \A q \in DOMAIN link : IsChanges(link[q]) =>
       /\ session = "catching-up" /\ ~asking
       /\ cursor = link[q].watermark - Len(link[q].updates)
  /\ \A b \in DOMAIN buffered : Below(history, link, buffered[b].watermark)

\* The rows v are those shown after the batch n; a synchronized session hears of
\* all that follow, and of no others.
Stands(a, h, l, m, synchronized, v, n) ==
  /\ v = Shown(a, h, n, m) /\ Below(h, l, n)
  /\ synchronized =>
       /\ Follows(a, h, l, m, 0, n)
       /\ \A i \in DOMAIN l : IsUpdates(l[i]) => n < l[i].watermark

AnswersOk(a, h, l, m) ==
  \A p \in DOMAIN l : IsRows(l[p]) =>
    /\ l[p].rows = Shown(a, h, l[p].watermark, m)
    /\ Right(a, h, l, m, p) /\ Follows(a, h, l, m, p, l[p].watermark)

ViewOk(a, h, l, m, c, synchronized, v) ==
  /\ Right(a, h, l, m, 0)
  /\ \E n \in c..Len(h) : Stands(a, h, l, m, synchronized, v, n)

\* Until the rule allows other rows, those of the subscriber are right.
RowsOk ==
  moved = "no" =>
    /\ AnswersOk(access, history, link, member)
    /\ loaded = "loaded" =>
         ViewOk(access, history, link, member, cursor, session = "synchronized", view)

\* Afterwards it is told, or will ask again.
Telling(l, b) ==
  (\E i \in DOMAIN l : IsTold(l[i])) \/ (\E i \in DOMAIN b : b[i].invalidated)
ToldOk ==
  moved = "told" /\ syncMode = "on-demand" =>
    /\ loaded = "loaded" => Telling(link, buffered)
    /\ \A p \in DOMAIN link : IsRows(link[p]) =>
         \E i \in DOMAIN link : p < i /\ IsTold(link[i])

VisibilityInv ==
  /\ Types /\ HistoryOk(history, table) /\ LinkOk(history, link, cursor)
  /\ SessionOk /\ RowsOk /\ ToldOk

-----------------------------------------------------------------------------
(***************************************************************************)
(* The history grows by a batch, or not at all.                            *)
(***************************************************************************)
Extends(h, g) ==
  /\ h \in Seq(Batches)
  /\ g = h \/ \E u \in Batches : g = Append(h, u)

LEMMA ExtendsIs ==
  ASSUME NEW h, NEW g, Extends(h, g)
  PROVE  /\ g \in Seq(Batches)
         /\ Len(h) \in Nat /\ Len(g) \in Nat
         /\ (Len(g) = Len(h) /\ g = h) \/ Len(g) = Len(h) + 1
         /\ \A i \in 1..Len(h) : g[i] = h[i]
BY DEF Extends

LEMMA ShownSame ==
  ASSUME NEW a, NEW h, NEW g, Extends(h, g), NEW n \in 0..Len(h), NEW m
  PROVE  After(g, n) = After(h, n) /\ Shown(a, g, n, m) = Shown(a, h, n, m)
<1>1. \A i \in 1..n : g[i] = h[i]
  BY ExtendsIs
<1>2. n \in Nat
  BY ExtendsIs
<1>3. After(g, n) = After(h, n)
  BY <1>1, <1>2, AfterSame
<1> QED
  BY <1>3 DEF Shown

LEMMA FactsSame ==
  ASSUME NEW a, NEW h, NEW g, Extends(h, g), NEW n \in 1..Len(h), NEW m
  PROVE  /\ Silent(a, h, n, m) => Silent(a, g, n, m)
         /\ \A v : Tells(a, h, n, m, v) => Tells(a, g, n, m, v)
<1>1. n \in 0..Len(h) /\ n - 1 \in 0..Len(h) /\ g[n] = h[n]
  BY ExtendsIs
<1>2. Shown(a, g, n, m) = Shown(a, h, n, m) /\ Shown(a, g, n - 1, m) = Shown(a, h, n - 1, m)
  BY <1>1, ShownSame
<1> QED
  BY <1>1, <1>2 DEF Silent, Tells, TellsOf

\* A batch is stored: the todo u of it, by an author who knew the row, or none.
Stored(h, t, g, s, u) ==
  /\ u \in Batches /\ g = Append(h, u)
  /\ u = NoUpdate => s = t
  /\ u # NoUpdate => u.previousValue = t[u.key] /\ s = [t EXCEPT ![u.key] = u.value]

LEMMA HistoryGrows ==
  ASSUME NEW h, NEW t, HistoryOk(h, t), NEW g, NEW s, NEW u, Stored(h, t, g, s, u)
  PROVE  /\ Extends(h, g) /\ HistoryOk(g, s)
         /\ Len(g) = Len(h) + 1 /\ g[Len(g)] = u /\ Known(g, Len(g))
<1> DEFINE n == Len(h)
<1>1. h \in Seq(Batches) /\ n \in Nat /\ t = After(h, n) /\ u \in Batches
  BY DEF HistoryOk, Stored
<1>2. Extends(h, g)
  BY <1>1 DEF Extends, Stored
<1>3. g \in Seq(Batches) /\ Len(g) = n + 1 /\ g[n + 1] = u /\ DOMAIN g = 1..(n + 1)
      /\ \A i \in 1..n : g[i] = h[i]
  BY <1>1 DEF Stored
<1>4. \A i \in 0..n : After(g, i) = After(h, i)
  BY <1>2, ShownSame
<1>5. After(g, n) = t /\ n + 1 \in Nat /\ n + 1 # 0 /\ (n + 1) - 1 = n
  BY <1>1, <1>4
<1> HIDE DEF n
<1>6. After(g, n + 1) = s
  <2>1. CASE u = NoUpdate
    <3>1. After(g, n + 1) = After(g, (n + 1) - 1)
      BY <1>3, <1>5, <2>1, AfterNothing
    <3> QED
      BY <1>5, <2>1, <3>1 DEF Stored
  <2>2. CASE u # NoUpdate
    <3>1. u.key \in Keys
      BY <1>1, <2>2 DEF Batches, Updates
    <3>2. After(g, n + 1) =
            [After(g, (n + 1) - 1) EXCEPT ![g[n + 1].key] = g[n + 1].value]
      BY <1>3, <1>5, <2>2, <3>1, AfterNext
    <3> QED
      BY <1>3, <1>5, <2>2, <3>2 DEF Stored
  <2> QED
    BY <2>1, <2>2
<1>7. Known(g, n + 1)
  BY <1>3, <1>5 DEF Known, Stored
<1>8. ASSUME NEW i \in DOMAIN g
      PROVE  Known(g, i)
  <2>1. CASE i = n + 1
    BY <1>7, <2>1
  <2>2. CASE i # n + 1
    <3>1. i \in DOMAIN h /\ i \in 1..n /\ i - 1 \in 0..n
      BY <1>1, <1>3, <2>2 DEF n
    <3> QED
      BY <1>3, <1>4, <3>1 DEF HistoryOk, Known
  <2> QED
    BY <2>1, <2>2
<1> QED
  BY <1>2, <1>3, <1>6, <1>7, <1>8 DEF HistoryOk, n

-----------------------------------------------------------------------------
(* Messages more.                                                          *)
LEMMA SeqAppends ==
  ASSUME NEW S, NEW l \in Seq(S), NEW msg \in S
  PROVE  /\ Append(l, msg) \in Seq(S) /\ Len(l) \in Nat
         /\ DOMAIN l = 1..Len(l) /\ DOMAIN Append(l, msg) = 1..(Len(l) + 1)
         /\ Append(l, msg)[Len(l) + 1] = msg
         /\ \A i \in DOMAIN l : Append(l, msg)[i] = l[i]
OBVIOUS

\* The link k is l with one message behind the others.
Becoming(l, k, msg) ==
  /\ Len(l) \in Nat /\ DOMAIN l = 1..Len(l) /\ DOMAIN k = 1..(Len(l) + 1)
  /\ k[Len(l) + 1] = msg /\ \A i \in DOMAIN l : k[i] = l[i]

LEMMA Becomes1 ==
  ASSUME NEW l \in Seq(Messages), NEW msg \in Messages
  PROVE  Append(l, msg) \in Seq(Messages) /\ Becoming(l, Append(l, msg), msg)
BY SeqAppends DEF Becoming

\* A message is about the history of its time: about its last batch, which is new,
\* or about all there are.
Heard(a, h, g, m, msg) ==
  /\ msg \in Messages /\ msg.watermark = Len(g)
  /\ IsUpdates(msg) => Len(g) = Len(h) + 1 /\ Tells(a, g, Len(g), m, msg.update)
  /\ ~IsUpdates(msg) => g = h
  /\ IsChanges(msg) => Catches(a, g, m, msg)

LEMMA LinkSame ==
  ASSUME NEW h, NEW g, Extends(h, g), NEW l, NEW c, LinkOk(h, l, c)
  PROVE  LinkOk(g, l, c)
<1>1. Len(h) \in Nat /\ Len(g) \in Nat /\ Len(h) <= Len(g)
  BY ExtendsIs
<1>2. c \in Nat /\ c <= Len(g) /\ \A n : n \in c..Len(h) => n \in c..Len(g)
  BY <1>1 DEF LinkOk
<1> QED
  BY <1>2 DEF LinkOk

LEMMA LinkAppends ==
  ASSUME NEW a, NEW h, NEW g, Extends(h, g), NEW l, NEW c, LinkOk(h, l, c),
         NEW m, NEW msg, msg \in Messages, msg.watermark = Len(g),
         IsUpdates(msg) => Len(g) = Len(h) + 1,
         \A p \in DOMAIN l : /\ ~(IsRows(msg) /\ IsRows(l[p]))
                             /\ ~(IsChanges(msg) /\ IsChanges(l[p]))
  PROVE  LinkOk(g, Append(l, msg), c)
<1> DEFINE k == Append(l, msg)
           n == Len(l)
<1>1. k \in Seq(Messages) /\ Becoming(l, k, msg)
  BY Becomes1 DEF LinkOk
<1> HIDE DEF k
<1>2. n \in Nat /\ DOMAIN l = 1..n /\ DOMAIN k = 1..(n + 1)
      /\ k[n + 1] = msg /\ \A i \in 1..n : k[i] = l[i]
  BY <1>1 DEF Becoming
<1> HIDE DEF n
<1>3. Len(h) \in Nat /\ Len(g) \in Nat /\ Len(h) <= Len(g)
  BY ExtendsIs
<1>4. LinkOk(g, l, c) /\ c \in Nat /\ c <= Len(h)
  BY LinkSame DEF LinkOk
<1>5. \A i \in DOMAIN k : (i \in DOMAIN l /\ k[i] = l[i] /\ i < n + 1) \/ (i = n + 1 /\ k[i] = msg)
  BY <1>2
<1>6. \A i \in DOMAIN l : l[i].watermark \in c..Len(h)
  BY DEF LinkOk
<1>7. ASSUME NEW i \in DOMAIN k
      PROVE  k[i].watermark \in c..Len(g) /\ (IsUpdates(k[i]) => c < k[i].watermark)
  <2>1. CASE i \in DOMAIN l /\ k[i] = l[i]
    BY <1>4, <2>1 DEF LinkOk
  <2>2. CASE i = n + 1 /\ k[i] = msg
    BY <1>3, <1>4, <2>2
  <2> QED
    BY <1>5, <2>1, <2>2
<1>8. ASSUME NEW i \in DOMAIN k, NEW j \in DOMAIN k, i < j
      PROVE  /\ k[i].watermark <= k[j].watermark
             /\ IsUpdates(k[j]) => k[i].watermark < k[j].watermark
  <2>1. i \in DOMAIN l /\ k[i] = l[i]
    BY <1>2, <1>8
  <2>2. CASE j \in DOMAIN l /\ k[j] = l[j]
    BY <1>4, <1>8, <2>1, <2>2 DEF LinkOk
  <2>3. CASE j = n + 1 /\ k[j] = msg
    BY <1>3, <1>4, <1>6, <2>1, <2>3
  <2> QED
    BY <1>5, <2>2, <2>3
<1>9. ASSUME NEW p \in DOMAIN k, NEW q \in DOMAIN k,
             \/ IsRows(k[p]) /\ IsRows(k[q])
             \/ IsChanges(k[p]) /\ IsChanges(k[q])
      PROVE  p = q
  <2>1. CASE p \in DOMAIN l /\ k[p] = l[p] /\ q \in DOMAIN l /\ k[q] = l[q]
    BY <1>9, <2>1 DEF LinkOk
  <2>2. CASE ~(p \in DOMAIN l /\ k[p] = l[p] /\ q \in DOMAIN l /\ k[q] = l[q])
    BY <1>5, <1>9, <2>2
  <2> QED
    BY <2>1, <2>2
<1>10. LinkOk(g, k, c)
  BY <1>1, <1>3, <1>4, <1>7, <1>8, <1>9 DEF LinkOk
<1> QED
  BY <1>10 DEF k

LEMMA BelowSame ==
  ASSUME NEW h, NEW g, Extends(h, g), NEW l, NEW n, Below(h, l, n)
  PROVE  Below(g, l, n)
BY ExtendsIs DEF Below

LEMMA BelowAppends ==
  ASSUME NEW h, NEW g, Extends(h, g), NEW l \in Seq(Messages), NEW msg \in Messages,
         msg.watermark = Len(g), NEW n, Below(h, l, n)
  PROVE  Below(g, Append(l, msg), n)
<1> DEFINE k == Append(l, msg)
<1>1. Becoming(l, k, msg)
  BY Becomes1
<1> HIDE DEF k
<1>2. n \in 0..Len(g) /\ n <= Len(g)
  BY ExtendsIs DEF Below
<1>3. \A i \in DOMAIN k : (i \in DOMAIN l /\ k[i] = l[i]) \/ k[i] = msg
  BY <1>1 DEF Becoming
<1>4. Below(g, k, n)
  BY <1>2, <1>3 DEF Below
<1> QED
  BY <1>4 DEF k

\* What the last step has changed is silent.
Quiet(a, h, g, m) == g = h \/ Silent(a, g, Len(g), m)

LEMMA FollowsSame ==
  ASSUME NEW a, NEW h, NEW g, Extends(h, g), NEW l, NEW m, Quiet(a, h, g, m), NEW p,
         NEW n \in Nat, Follows(a, h, l, m, p, n)
  PROVE  Follows(a, g, l, m, p, n)
<1>1. Len(h) \in Nat /\ Len(g) \in Nat /\ ((Len(g) = Len(h) /\ g = h) \/ Len(g) = Len(h) + 1)
  BY ExtendsIs
<1>2. ASSUME NEW i \in (n + 1)..Len(g)
      PROVE  Silent(a, g, i, m) \/ Carries(l, p, i)
  <2>1. CASE i \in (n + 1)..Len(h)
    <3>1. i \in 1..Len(h)
      BY <1>1, <2>1
    <3> QED
      BY <2>1, <3>1, FactsSame DEF Follows
  <2>2. CASE i \notin (n + 1)..Len(h)
    <3>1. i = Len(g) /\ g # h
      BY <1>1, <1>2, <2>2
    <3> QED
      BY <3>1 DEF Quiet
  <2> QED
    BY <2>1, <2>2
<1> QED
  BY <1>2 DEF Follows

LEMMA FollowsAppends ==
  ASSUME NEW a, NEW h, NEW g, Extends(h, g), NEW l \in Seq(Messages),
         NEW m, NEW msg, Heard(a, h, g, m, msg), NEW p \in 0..Len(l), NEW n \in Nat,
         Follows(a, h, l, m, p, n)
  PROVE  Follows(a, g, Append(l, msg), m, p, n)
<1> DEFINE k == Append(l, msg)
           last == Len(l) + 1
<1>1. Becoming(l, k, msg)
  BY Becomes1 DEF Heard
<1> HIDE DEF k
<1>2. /\ last \in DOMAIN k /\ k[last] = msg /\ p < last
      /\ \A i \in DOMAIN l : i \in DOMAIN k /\ k[i] = l[i]
  BY <1>1 DEF Becoming
<1> HIDE DEF last
<1>3. Len(h) \in Nat /\ Len(g) \in Nat /\ ((Len(g) = Len(h) /\ g = h) \/ Len(g) = Len(h) + 1)
  BY ExtendsIs
<1>4. \A i : Carries(l, p, i) => Carries(k, p, i)
  BY <1>2 DEF Carries
<1>5. ASSUME NEW i \in (n + 1)..Len(g)
      PROVE  Silent(a, g, i, m) \/ Carries(k, p, i)
  <2>1. CASE i \in (n + 1)..Len(h)
    <3>1. i \in 1..Len(h)
      BY <1>3, <2>1
    <3> QED
      BY <1>4, <2>1, <3>1, FactsSame DEF Follows
  <2>2. CASE i \notin (n + 1)..Len(h)
    <3>1. i = Len(g) /\ g # h
      BY <1>3, <1>5, <2>2
    <3>2. IsUpdates(msg) /\ msg.watermark = i
      BY <3>1 DEF Heard
    <3> QED
      BY <1>2, <3>2 DEF Carries
  <2> QED
    BY <2>1, <2>2
<1>6. Follows(a, g, k, m, p, n)
  BY <1>5 DEF Follows
<1> QED
  BY <1>6 DEF k

LEMMA CatchesSame ==
  ASSUME NEW a, NEW h, NEW g, Extends(h, g), NEW m, NEW msg \in Missed,
         msg.watermark \in 0..Len(h), Catches(a, h, m, msg)
  PROVE  Catches(a, g, m, msg)
<1> DEFINE from == msg.watermark - Len(msg.updates)
<1>1. from \in Nat /\ Len(msg.updates) \in Nat /\ DOMAIN msg.updates = 1..Len(msg.updates)
      /\ msg.watermark = from + Len(msg.updates)
  BY ExtendsIs DEF Catches, Missed
<1>2. \A i \in DOMAIN msg.updates : from + i \in 1..Len(h)
  BY <1>1, ExtendsIs
<1> QED
  BY <1>2, FactsSame DEF Catches

LEMMA RightSame ==
  ASSUME NEW a, NEW h, NEW g, Extends(h, g), NEW l, NEW c, LinkOk(h, l, c), NEW m,
         Quiet(a, h, g, m), NEW p, Right(a, h, l, m, p)
  PROVE  Right(a, g, l, m, p)
<1> SUFFICES ASSUME NEW i \in DOMAIN l, p < i
             PROVE  RightAt(a, g, l, m, i)
  BY DEF Right
<1>1. l[i].watermark \in c..Len(h) /\ (IsUpdates(l[i]) => c < l[i].watermark)
      /\ c \in Nat /\ l[i] \in Messages /\ Len(h) \in Nat
  BY ExtendsIs DEF LinkOk
<1>2. l[i].watermark \in 0..Len(h) /\ l[i].watermark \in Nat
      /\ (IsUpdates(l[i]) => l[i].watermark \in 1..Len(h))
  BY <1>1
<1>3. RightAt(a, h, l, m, i)
  BY DEF Right
<1>4. IsUpdates(l[i]) => Tells(a, g, l[i].watermark, m, l[i].update)
  BY <1>2, <1>3, FactsSame DEF RightAt
<1>5. ASSUME IsChanges(l[i])
      PROVE  Catches(a, g, m, l[i]) /\ Follows(a, g, l, m, i, l[i].watermark)
  <2>1. l[i] \in Missed /\ Catches(a, h, m, l[i]) /\ Follows(a, h, l, m, i, l[i].watermark)
    BY <1>1, <1>3, <1>5, KindsDiffer DEF RightAt
  <2> QED
    BY <1>2, <2>1, CatchesSame, FollowsSame
<1> QED
  BY <1>4, <1>5 DEF RightAt

LEMMA RightAppends ==
  ASSUME NEW a, NEW h, NEW g, Extends(h, g), NEW l, NEW c, LinkOk(h, l, c), NEW m,
         NEW msg, Heard(a, h, g, m, msg), NEW p, Right(a, h, l, m, p)
  PROVE  Right(a, g, Append(l, msg), m, p)
<1> DEFINE k == Append(l, msg)
<1>0. l \in Seq(Messages) /\ msg \in Messages
  BY DEF LinkOk, Heard
<1>1. Becoming(l, k, msg)
  BY <1>0, Becomes1
<1> SUFFICES ASSUME NEW i \in DOMAIN k, p < i
             PROVE  RightAt(a, g, k, m, i)
  BY DEF Right
<1>2. CASE i \in DOMAIN l
  <2>1. k[i] = l[i] /\ i \in 0..Len(l)
    BY <1>1, <1>2 DEF Becoming
  <2>2. l[i].watermark \in c..Len(h) /\ (IsUpdates(l[i]) => c < l[i].watermark)
        /\ c \in Nat /\ l[i] \in Messages /\ Len(h) \in Nat
    BY <1>2, ExtendsIs DEF LinkOk
  <2>3. l[i].watermark \in 0..Len(h) /\ l[i].watermark \in Nat
        /\ (IsUpdates(l[i]) => l[i].watermark \in 1..Len(h))
    BY <2>2
  <2>4. RightAt(a, h, l, m, i)
    BY <1>2 DEF Right
  <2>5. IsUpdates(l[i]) => Tells(a, g, l[i].watermark, m, l[i].update)
    BY <2>3, <2>4, FactsSame DEF RightAt
  <2>6. ASSUME IsChanges(l[i])
        PROVE  Catches(a, g, m, l[i]) /\ Follows(a, g, k, m, i, l[i].watermark)
    <3>1. l[i] \in Missed /\ Catches(a, h, m, l[i]) /\ Follows(a, h, l, m, i, l[i].watermark)
      BY <2>2, <2>4, <2>6, KindsDiffer DEF RightAt
    <3>2. Catches(a, g, m, l[i])
      BY <2>3, <3>1, CatchesSame
    <3>3. Follows(a, g, k, m, i, l[i].watermark)
      BY <1>0, <2>1, <2>3, <3>1, FollowsAppends
    <3> QED
      BY <3>2, <3>3
  <2> HIDE DEF k
  <2> QED
    BY <2>1, <2>5, <2>6 DEF RightAt
<1>3. CASE i \notin DOMAIN l
  <2>1. k[i] = msg
    BY <1>1, <1>3 DEF Becoming
  <2> HIDE DEF k
  <2>2. IsUpdates(msg) => Tells(a, g, msg.watermark, m, msg.update)
    BY DEF Heard
  <2>3. IsChanges(msg) => Catches(a, g, m, msg)
    BY DEF Heard
  <2>4. Len(g) \in Nat /\ msg.watermark = Len(g)
    BY ExtendsIs DEF Heard
  <2>5. (msg.watermark + 1)..Len(g) = {}
    BY <2>4
  <2>6. Follows(a, g, k, m, i, msg.watermark)
    BY <2>5 DEF Follows
  <2> QED
    BY <2>1, <2>2, <2>3, <2>6 DEF RightAt
<1> QED
  BY <1>2, <1>3

LEMMA AnswersSame ==
  ASSUME NEW a, NEW h, NEW g, Extends(h, g), NEW l, NEW c, LinkOk(h, l, c), NEW m,
         l = <<>> \/ Quiet(a, h, g, m), AnswersOk(a, h, l, m)
  PROVE  AnswersOk(a, g, l, m)
<1> SUFFICES ASSUME NEW p \in DOMAIN l, IsRows(l[p])
             PROVE  /\ l[p].rows = Shown(a, g, l[p].watermark, m)
                    /\ Right(a, g, l, m, p) /\ Follows(a, g, l, m, p, l[p].watermark)
  BY DEF AnswersOk
<1>1. l[p].watermark \in 0..Len(h) /\ l[p].watermark \in Nat
  BY ExtendsIs DEF LinkOk
<1>2. /\ l[p].rows = Shown(a, h, l[p].watermark, m)
      /\ Right(a, h, l, m, p) /\ Follows(a, h, l, m, p, l[p].watermark)
  BY DEF AnswersOk
<1>3. Quiet(a, h, g, m)
  OBVIOUS
<1>4. Right(a, g, l, m, p) /\ Follows(a, g, l, m, p, l[p].watermark)
  BY <1>1, <1>2, <1>3, FollowsSame, RightSame
<1> QED
  BY <1>1, <1>2, <1>4, ShownSame

LEMMA AnswersAppends ==
  ASSUME NEW a, NEW h, NEW g, Extends(h, g), NEW l, NEW c, LinkOk(h, l, c), NEW m,
         NEW msg, Heard(a, h, g, m, msg), ~IsRows(msg), AnswersOk(a, h, l, m)
  PROVE  AnswersOk(a, g, Append(l, msg), m)
<1> DEFINE k == Append(l, msg)
<1>0. l \in Seq(Messages) /\ msg \in Messages
  BY DEF LinkOk, Heard
<1>1. Becoming(l, k, msg)
  BY <1>0, Becomes1
<1> SUFFICES ASSUME NEW p \in DOMAIN k, IsRows(k[p])
             PROVE  /\ k[p].rows = Shown(a, g, k[p].watermark, m)
                    /\ Right(a, g, k, m, p) /\ Follows(a, g, k, m, p, k[p].watermark)
  BY DEF AnswersOk
<1>2. p \in DOMAIN l /\ p \in 0..Len(l) /\ k[p] = l[p]
  BY <1>1 DEF Becoming
<1>3. l[p].watermark \in 0..Len(h) /\ l[p].watermark \in Nat
  BY <1>2, ExtendsIs DEF LinkOk
<1>4. /\ l[p].rows = Shown(a, h, l[p].watermark, m)
      /\ Right(a, h, l, m, p) /\ Follows(a, h, l, m, p, l[p].watermark)
  BY <1>2 DEF AnswersOk
<1>5. Right(a, g, k, m, p) /\ Follows(a, g, k, m, p, l[p].watermark)
  BY <1>0, <1>2, <1>3, <1>4, FollowsAppends, RightAppends
<1> QED
  BY <1>2, <1>3, <1>4, <1>5, ShownSame

LEMMA ViewSame ==
  ASSUME NEW a, NEW h, NEW g, Extends(h, g), NEW l, NEW c, LinkOk(h, l, c), NEW m,
         NEW s, NEW v, (l = <<>> /\ ~s) \/ Quiet(a, h, g, m), ViewOk(a, h, l, m, c, s, v)
  PROVE  ViewOk(a, g, l, m, c, s, v)
<1>1. PICK n \in c..Len(h) : Stands(a, h, l, m, s, v, n)
  BY DEF ViewOk
<1>2. n \in c..Len(g) /\ n \in 0..Len(h) /\ n \in Nat
  BY ExtendsIs DEF LinkOk
<1>3. Below(g, l, n) /\ v = Shown(a, g, n, m)
  BY <1>1, <1>2, BelowSame, ShownSame DEF Stands
<1>4. ASSUME s PROVE Follows(a, g, l, m, 0, n)
  <2>1. Quiet(a, h, g, m) /\ Follows(a, h, l, m, 0, n)
    BY <1>1, <1>4 DEF Stands
  <2> QED
    BY <1>2, <2>1, FollowsSame
<1>5. Stands(a, g, l, m, s, v, n)
  BY <1>1, <1>3, <1>4 DEF Stands
<1>6. Right(a, g, l, m, 0)
  <2>1. CASE l = <<>>
    BY <2>1 DEF Right
  <2>2. CASE Quiet(a, h, g, m)
    BY <2>2, RightSame DEF ViewOk
  <2> QED
    BY <2>1, <2>2
<1> QED
  BY <1>2, <1>5, <1>6 DEF ViewOk

LEMMA ViewAppends ==
  ASSUME NEW a, NEW h, NEW g, Extends(h, g), NEW l, NEW c, LinkOk(h, l, c), NEW m,
         NEW msg, Heard(a, h, g, m, msg), NEW s, NEW v, ViewOk(a, h, l, m, c, s, v)
  PROVE  ViewOk(a, g, Append(l, msg), m, c, s, v)
<1> DEFINE k == Append(l, msg)
<1>0. l \in Seq(Messages) /\ msg \in Messages /\ msg.watermark = Len(g)
  BY DEF LinkOk, Heard
<1>1. Becoming(l, k, msg)
  BY <1>0, Becomes1
<1>2. PICK n \in c..Len(h) : Stands(a, h, l, m, s, v, n)
  BY DEF ViewOk
<1>3. n \in c..Len(g) /\ n \in 0..Len(h) /\ n \in Nat /\ (IsUpdates(msg) => n < msg.watermark)
  BY <1>0, ExtendsIs DEF LinkOk, Heard
<1>4. Below(g, k, n) /\ v = Shown(a, g, n, m)
  BY <1>0, <1>2, <1>3, BelowAppends, ShownSame DEF Stands
<1>5. ASSUME s PROVE Follows(a, g, k, m, 0, n)
  <2>1. Follows(a, h, l, m, 0, n)
    BY <1>2, <1>5 DEF Stands
  <2>2. 0 \in 0..Len(l)
    BY <1>1 DEF Becoming
  <2> QED
    BY <1>0, <1>3, <2>1, <2>2, FollowsAppends
<1>6. Right(a, g, k, m, 0)
  BY RightAppends DEF ViewOk
<1> HIDE DEF k
<1>7. ASSUME s, NEW i \in DOMAIN k, IsUpdates(k[i])
      PROVE  n < k[i].watermark
  <2>1. (i \in DOMAIN l /\ k[i] = l[i]) \/ k[i] = msg
    BY <1>1 DEF Becoming
  <2> QED
    BY <1>2, <1>3, <1>7, <2>1 DEF Stands
<1>8. Stands(a, g, k, m, s, v, n)
  BY <1>2, <1>4, <1>5, <1>7 DEF Stands
<1>9. ViewOk(a, g, k, m, c, s, v)
  BY <1>3, <1>6, <1>8 DEF ViewOk
<1> QED
  BY <1>9 DEF k

-----------------------------------------------------------------------------
(* Another reference that allows the same rows.                            *)
LEMMA ShownByNext ==
  ASSUME access \in AccessRules, NEW m \in Referenced, NEW next \in Referenced,
         ~Moves(m, next), NEW h \in Seq(Batches), NEW n \in 0..Len(h)
  PROVE  Shown(access, h, n, next) = Shown(access, h, n, m)
<1>1. \A row \in Rows : Visible(access, row, next) <=> Visible(access, row, m)
  <2>1. \A row \in Todos : Permits(access.read, row, References(m))
                             <=> Permits(access.read, row, References(next))
    BY DEF Moves
  <2>2. ~Visible(access, NoRow, m) /\ ~Visible(access, NoRow, next)
    BY RuleIs
  <2>3. /\ \A row \in Todos :
             Visible(access, row, m) <=> Permits(access.read, row, References(m))
        /\ \A row \in Todos :
             Visible(access, row, next) <=> Permits(access.read, row, References(next))
    BY RuleIs
  <2> QED
    BY <2>1, <2>2, <2>3 DEF Rows
<1>2. After(h, n) \in Contents
  BY AfterType
<1>3. \A k \in Keys : After(h, n)[k] \in Rows
  BY <1>2 DEF Contents
<1>4. \A k \in Keys : Shown(access, h, n, next)[k] = Shown(access, h, n, m)[k]
  BY <1>1, <1>3 DEF Shown, ShownRow
<1> QED
  BY <1>4 DEF Shown

\* The reference next shows of each batch what m shows.
SameShown(a, h, m, next) ==
  /\ Len(h) \in Nat
  /\ \A n \in 0..Len(h) : Shown(a, h, n, next) = Shown(a, h, n, m)

LEMMA SameShownIs ==
  ASSUME access \in AccessRules, NEW m \in Referenced, NEW next \in Referenced,
         ~Moves(m, next), NEW h \in Seq(Batches)
  PROVE  SameShown(access, h, m, next)
<1>1. Len(h) \in Nat
  OBVIOUS
<1>2. \A n \in 0..Len(h) : Shown(access, h, n, next) = Shown(access, h, n, m)
  BY ShownByNext
<1> QED
  BY <1>1, <1>2 DEF SameShown

LEMMA FactsByNext ==
  ASSUME NEW a, NEW h, NEW m, NEW next, SameShown(a, h, m, next), NEW n \in 1..Len(h)
  PROVE  /\ Silent(a, h, n, m) => Silent(a, h, n, next)
         /\ \A v : Tells(a, h, n, m, v) => Tells(a, h, n, next, v)
<1>1. n \in 0..Len(h) /\ n - 1 \in 0..Len(h)
  BY DEF SameShown
<1>2. /\ Shown(a, h, n, next) = Shown(a, h, n, m)
      /\ Shown(a, h, n - 1, next) = Shown(a, h, n - 1, m)
  BY <1>1 DEF SameShown
<1> QED
  BY <1>2 DEF Silent, Tells, TellsOf

LEMMA FollowsByNext ==
  ASSUME NEW a, NEW h, NEW m, NEW next, SameShown(a, h, m, next), NEW l,
         NEW p, NEW n \in Nat, Follows(a, h, l, m, p, n)
  PROVE  Follows(a, h, l, next, p, n)
<1>1. \A i \in (n + 1)..Len(h) : i \in 1..Len(h)
  BY DEF SameShown
<1> QED
  BY <1>1, FactsByNext DEF Follows

LEMMA RightByNext ==
  ASSUME NEW a, NEW h, NEW m, NEW next, SameShown(a, h, m, next), NEW l, NEW c,
         LinkOk(h, l, c), NEW p, Right(a, h, l, m, p)
  PROVE  Right(a, h, l, next, p)
<1> SUFFICES ASSUME NEW i \in DOMAIN l, p < i
             PROVE  RightAt(a, h, l, next, i)
  BY DEF Right
<1>1. l[i].watermark \in c..Len(h) /\ (IsUpdates(l[i]) => c < l[i].watermark)
      /\ c \in Nat /\ l[i] \in Messages /\ Len(h) \in Nat
  BY DEF LinkOk, SameShown
<1>2. l[i].watermark \in 0..Len(h) /\ l[i].watermark \in Nat
      /\ (IsUpdates(l[i]) => l[i].watermark \in 1..Len(h))
  BY <1>1
<1>3. RightAt(a, h, l, m, i)
  BY DEF Right
<1>4. IsUpdates(l[i]) => Tells(a, h, l[i].watermark, next, l[i].update)
  BY <1>2, <1>3, FactsByNext DEF RightAt
<1>5. ASSUME IsChanges(l[i])
      PROVE  Catches(a, h, next, l[i]) /\ Follows(a, h, l, next, i, l[i].watermark)
  <2>1. l[i] \in Missed /\ Catches(a, h, m, l[i]) /\ Follows(a, h, l, m, i, l[i].watermark)
    BY <1>1, <1>3, <1>5, KindsDiffer DEF RightAt
  <2> DEFINE from == l[i].watermark - Len(l[i].updates)
  <2>2. from \in Nat /\ Len(l[i].updates) \in Nat
        /\ DOMAIN l[i].updates = 1..Len(l[i].updates)
        /\ l[i].watermark = from + Len(l[i].updates)
    BY <1>2, <2>1 DEF Catches, Missed
  <2>3. \A j \in DOMAIN l[i].updates : from + j \in 1..Len(h)
    BY <1>2, <2>2
  <2>4. Catches(a, h, next, l[i])
    BY <2>1, <2>3, FactsByNext DEF Catches
  <2> QED
    BY <1>2, <2>1, <2>4, FollowsByNext
<1> QED
  BY <1>4, <1>5 DEF RightAt

LEMMA AnswersByNext ==
  ASSUME NEW a, NEW h, NEW m, NEW next, SameShown(a, h, m, next), NEW l, NEW c,
         LinkOk(h, l, c), AnswersOk(a, h, l, m)
  PROVE  AnswersOk(a, h, l, next)
<1> SUFFICES ASSUME NEW p \in DOMAIN l, IsRows(l[p])
             PROVE  /\ l[p].rows = Shown(a, h, l[p].watermark, next)
                    /\ Right(a, h, l, next, p) /\ Follows(a, h, l, next, p, l[p].watermark)
  BY DEF AnswersOk
<1>1. l[p].watermark \in 0..Len(h) /\ l[p].watermark \in Nat
  BY DEF LinkOk, SameShown
<1>2. /\ l[p].rows = Shown(a, h, l[p].watermark, m)
      /\ Right(a, h, l, m, p) /\ Follows(a, h, l, m, p, l[p].watermark)
  BY DEF AnswersOk
<1>3. Right(a, h, l, next, p) /\ Follows(a, h, l, next, p, l[p].watermark)
  BY <1>1, <1>2, FollowsByNext, RightByNext
<1> QED
  BY <1>1, <1>2, <1>3 DEF SameShown

LEMMA ViewByNext ==
  ASSUME NEW a, NEW h, NEW m, NEW next, SameShown(a, h, m, next), NEW l, NEW c,
         LinkOk(h, l, c), NEW s, NEW v, ViewOk(a, h, l, m, c, s, v)
  PROVE  ViewOk(a, h, l, next, c, s, v)
<1>1. PICK n \in c..Len(h) : Stands(a, h, l, m, s, v, n)
  BY DEF ViewOk
<1>2. n \in 0..Len(h) /\ n \in Nat
  BY DEF LinkOk, SameShown
<1>3. Stands(a, h, l, next, s, v, n)
  BY <1>1, <1>2, FollowsByNext DEF Stands, SameShown
<1> QED
  BY <1>1, <1>3, RightByNext DEF ViewOk

-----------------------------------------------------------------------------
(* A batch is stored and published.                                        *)
Tells1(g, h, next, inv, k) ==
  \E msg \in Told : /\ k = Append(link, msg) /\ Heard(access, h, g, next, msg)
                    /\ IsTold(msg) <=> inv

NotTold(g, h, next, inv, k) ==
  k = link /\ (online => Quiet(access, h, g, next) /\ ~inv)

LEMMA PublishedIs ==
  ASSUME access \in AccessRules, NEW next \in Referenced, NEW g, NEW u,
         Len(history) \in Nat, u \in Batches, Len(g) = Len(history) + 1, g[Len(g)] = u,
         Known(g, Len(g)), NEW previous, NEW changed \in BOOLEAN,
         NEW S, link \in Seq(S), NEW k, k = link \o Published(u, previous, next, changed)
  PROVE  LET inv == changed /\ Invalidates(previous, next) IN
         \/ NotTold(g, history, next, inv, k)
         \/ online /\ Tells1(g, history, next, inv, k)
<1> DEFINE v == VisibleUpdate(u, next)
           inv == changed /\ Invalidates(previous, next)
           msg == [type |-> "updates", watermark |-> Len(history) + 1, update |-> v,
                   invalidated |-> inv]
<1>1. inv \in BOOLEAN
  BY DEF Invalidates
<1>2. Tells(access, g, Len(g), next, v)
  BY VisibleIs
<1>3. Published(u, previous, next, changed) =
        IF ~online \/ (v = NoUpdate /\ ~inv) THEN <<>> ELSE <<msg>>
  BY DEF Published
<1> HIDE DEF v, inv
<1>4. v \in Batches /\ (v = NoUpdate => Silent(access, g, Len(g), next))
  BY <1>2, NotNone DEF Tells, TellsOf, Batches
<1>5. CASE ~online \/ (v = NoUpdate /\ ~inv)
  <2>1. k = link
    BY <1>3, <1>5
  <2> QED
    BY <1>4, <1>5, <2>1 DEF NotTold, Quiet, inv
<1>6. CASE online /\ ~(v = NoUpdate /\ ~inv)
  <2>1. k = Append(link, msg)
    BY <1>3, <1>6
  <2>2. msg \in Told
    BY <1>1, <1>4 DEF Told
  <2>3. IsUpdates(msg) /\ ~IsChanges(msg)
    BY DEF IsUpdates, IsChanges
  <2>4. Heard(access, history, g, next, msg)
    BY <1>2, <2>2, <2>3 DEF Heard, Messages
  <2>5. IsTold(msg) <=> inv
    BY <2>3 DEF IsTold
  <2> HIDE DEF msg
  <2> QED
    BY <1>6, <2>1, <2>2, <2>4, <2>5 DEF Tells1, inv
<1> QED
  BY <1>5, <1>6

\* The rule has not moved without a reference that it names.
LEMMA MovesTells ==
  ASSUME access \in AccessRules, NEW m \in Referenced, NEW next \in Referenced,
         Moves(m, next)
  PROVE  Invalidates(m, next)
<1>1. PICK row \in Todos : ~(Permits(access.read, row, References(m))
                               <=> Permits(access.read, row, References(next)))
  BY DEF Moves
<1>2. \E d \in Decide(access.read, References(next)).dependencies :
        FieldChanged(m, next, d.field)
  BY <1>1, DecisionAssumption DEF Referenced
<1> QED
  BY <1>2 DEF Invalidates, Decision

LEMMA MovesNot ==
  ASSUME NEW m
  PROVE  ~Moves(m, m)
BY DEF Moves

Publishes(u, next, changed) ==
  /\ member' = next
  /\ moved' = IF ~Moves(member, next) THEN moved
              ELSE IF online /\ moved # "lost" THEN "told" ELSE "lost"
  /\ Moves(member, next) => changed
  /\ link' = link \o Published(u, member, next, changed)
  /\ UNCHANGED <<config, connection, subscriber>>

\* The session does not mind one broadcast more, nor a longer history.
LEMMA SessionSame ==
  ASSUME SessionOk, Extends(history, history'),
         UNCHANGED <<link, connection, loaded, cursor>>
  PROVE  SessionOk'
<1>1. /\ link' = link /\ online' = online /\ session' = session /\ asking' = asking
      /\ buffered' = buffered /\ loaded' = loaded /\ cursor' = cursor
  BY DEF connection
<1> PICK g : g = history'
  OBVIOUS
<1>2. \A b \in DOMAIN buffered : Below(g, link, buffered[b].watermark)
  BY BelowSame DEF SessionOk
<1> QED
  BY <1>1, <1>2 DEF SessionOk

LEMMA SessionAppends ==
  ASSUME SessionOk, Extends(history, history'), NEW msg \in Told, link \in Seq(Messages),
         msg.watermark = Len(history'), link' = Append(link, msg), online,
         UNCHANGED <<connection, loaded, cursor>>
  PROVE  SessionOk'
<1>1. /\ online' = online /\ session' = session /\ asking' = asking
      /\ buffered' = buffered /\ loaded' = loaded /\ cursor' = cursor
  BY DEF connection
<1> PICK g : g = history'
  OBVIOUS
<1> PICK k : k = link'
  OBVIOUS
<1>2. msg \in Messages /\ ~IsRows(msg) /\ ~IsChanges(msg)
  BY DEF Messages, Told, IsRows, IsChanges
<1>3. Becoming(link, k, msg)
  BY <1>2, Becomes1
<1>4. /\ \A i \in DOMAIN k : IsRows(k[i]) \/ IsChanges(k[i]) => i \in DOMAIN link /\ k[i] = link[i]
      /\ \A i \in DOMAIN link : i \in DOMAIN k /\ k[i] = link[i]
  BY <1>2, <1>3 DEF Becoming
<1>5. \A b \in DOMAIN buffered : Below(g, k, buffered[b].watermark)
  BY <1>2, BelowAppends DEF SessionOk
<1>6. (\E p \in DOMAIN k : IsRows(k[p])) <=> \E p \in DOMAIN link : IsRows(link[p])
  BY <1>4
<1>7. \A q \in DOMAIN k : IsChanges(k[q]) =>
        q \in DOMAIN link /\ IsChanges(link[q]) /\ k[q] = link[q]
  BY <1>4
<1> QED
  BY <1>1, <1>5, <1>6, <1>7 DEF SessionOk

LEMMA PublishInv ==
  ASSUME VisibilityInv, NEW u, NEW next \in Referenced, NEW changed \in BOOLEAN,
         Stored(history, table, history', table', u), Publishes(u, next, changed)
  PROVE  VisibilityInv'
<1>1. /\ Types /\ HistoryOk(history, table) /\ LinkOk(history, link, cursor)
      /\ SessionOk /\ RowsOk /\ ToldOk
      /\ access \in AccessRules /\ member \in Referenced
      /\ link \in Seq(Messages) /\ history \in Seq(Batches) /\ Len(history) \in Nat
  BY DEF VisibilityInv, Types, HistoryOk, LinkOk
<1>2. /\ access' = access /\ syncMode' = syncMode /\ online' = online /\ view' = view
      /\ loaded' = loaded /\ cursor' = cursor /\ member' = next /\ session' = session
      /\ asking' = asking /\ buffered' = buffered
      /\ UNCHANGED <<connection, loaded, cursor>>
  BY DEF Publishes, config, subscriber, connection
<1> PICK g : g = history'
  OBVIOUS
<1> PICK s : s = table'
  OBVIOUS
<1> PICK k : k = link'
  OBVIOUS
<1>3. /\ Extends(history, g) /\ HistoryOk(g, s)
      /\ Len(g) = Len(history) + 1 /\ g[Len(g)] = u /\ Known(g, Len(g)) /\ u \in Batches
  <2>1. Stored(history, table, g, s, u)
    OBVIOUS
  <2>2. u \in Batches
    BY <2>1 DEF Stored
  <2> QED
    BY <1>1, <2>1, <2>2, HistoryGrows
<1> PICK inv : inv = (changed /\ Invalidates(member, next))
  OBVIOUS
<1>4. \/ NotTold(g, history, next, inv, k)
      \/ online /\ Tells1(g, history, next, inv, k)
  <2>1. k = link \o Published(u, member, next, changed)
    BY DEF Publishes
  <2> QED
    BY <1>1, <1>3, <2>1, PublishedIs
<1>5. Moves(member, next) => inv
  BY <1>1, MovesTells DEF Publishes
<1>6. Types'
  BY <1>1, <1>2 DEF Types, Publishes
<1>7. moved' = "no" => moved = "no" /\ ~Moves(member, next)
  BY DEF Publishes
<1>8. moved' = "told" => (moved = "told" \/ Moves(member, next)) /\ (~Moves(member, next) \/ online)
  BY DEF Publishes
<1>9. ~Moves(member, next) => SameShown(access, history, member, next)
  BY <1>1, SameShownIs
<1>10. moved' = "no" => AnswersOk(access, history, link, next)
  BY <1>1, <1>7, <1>9, AnswersByNext DEF RowsOk
<1> DEFINE sync == session = "synchronized"
<1>11. moved' = "no" /\ loaded = "loaded" =>
         ViewOk(access, history, link, next, cursor, sync, view)
  BY <1>1, <1>7, <1>9, ViewByNext DEF RowsOk
<1>12. CASE NotTold(g, history, next, inv, k)
  <2>1. k = link /\ (online => Quiet(access, history, g, next) /\ ~inv)
    BY <1>12 DEF NotTold
  <2>2. ~online => link = <<>> /\ ~sync
    BY <1>1 DEF SessionOk
  <2>3. LinkOk(g, k, cursor)
    BY <1>1, <1>3, <2>1, LinkSame
  <2>4. SessionOk'
    <3>1. UNCHANGED <<link, connection, loaded, cursor>>
      BY <1>2, <2>1
    <3> QED
      BY <1>1, <1>3, <3>1, SessionSame
  <2>5. moved' = "no" => AnswersOk(access, g, k, next)
    BY <1>1, <1>3, <1>10, <2>1, <2>2, AnswersSame
  <2>6. moved' = "no" /\ loaded = "loaded" => ViewOk(access, g, k, next, cursor, sync, view)
    <3> HIDE DEF sync
    <3> QED
      BY <1>1, <1>3, <1>11, <2>1, <2>2, ViewSame
  <2>7. RowsOk'
    BY <1>2, <2>5, <2>6 DEF RowsOk
  <2>8. moved' = "told" => moved = "told"
    BY <1>5, <1>8, <2>1
  <2>9. ToldOk'
    BY <1>1, <1>2, <2>1, <2>8 DEF ToldOk
  <2> QED
    BY <1>2, <1>3, <1>6, <2>3, <2>4, <2>7, <2>9 DEF VisibilityInv
<1>13. CASE online /\ Tells1(g, history, next, inv, k)
  <2>1. PICK msg \in Told : /\ k = Append(link, msg)
                            /\ Heard(access, history, g, next, msg)
                            /\ IsTold(msg) <=> inv
    BY <1>13 DEF Tells1
  <2>2. msg \in Messages /\ msg.watermark = Len(g) /\ IsUpdates(msg) /\ ~IsRows(msg)
        /\ ~IsChanges(msg)
    BY <2>1 DEF Heard, Told, IsUpdates, IsRows, IsChanges
  <2>3. LinkOk(g, k, cursor)
    BY <1>1, <1>3, <2>1, <2>2, LinkAppends
  <2>4. SessionOk'
    <3>1. /\ link' = Append(link, msg) /\ Extends(history, history')
          /\ msg.watermark = Len(history')
      BY <1>3, <2>1, <2>2
    <3> QED
      BY <1>1, <1>2, <1>13, <3>1, SessionAppends
  <2>5. moved' = "no" => AnswersOk(access, g, k, next)
    BY <1>1, <1>3, <1>10, <2>1, <2>2, AnswersAppends
  <2>6. moved' = "no" /\ loaded = "loaded" => ViewOk(access, g, k, next, cursor, sync, view)
    <3> HIDE DEF sync
    <3> QED
      BY <1>1, <1>3, <1>11, <2>1, ViewAppends
  <2>7. RowsOk'
    BY <1>2, <2>5, <2>6 DEF RowsOk
  <2>8. Becoming(link, k, msg)
    BY <1>1, <2>1, <2>2, Becomes1
  <2>9. Len(link) + 1 \in DOMAIN k /\ k[Len(link) + 1] = msg
    BY <2>8 DEF Becoming
  <2>10. \A i \in DOMAIN link : i \in DOMAIN k /\ k[i] = link[i]
    BY <2>8 DEF Becoming
  <2>11. \A p \in DOMAIN k : IsRows(k[p]) =>
           p \in DOMAIN link /\ p < Len(link) + 1 /\ IsRows(link[p])
    BY <2>2, <2>8 DEF Becoming
  <2>12. ASSUME moved' = "told", syncMode = "on-demand"
         PROVE  /\ loaded = "loaded" => Telling(k, buffered)
                /\ \A p \in DOMAIN k : IsRows(k[p]) =>
                     \E i \in DOMAIN k : p < i /\ IsTold(k[i])
    <3>1. CASE moved = "told"
      <4>1. /\ loaded = "loaded" => Telling(link, buffered)
            /\ \A p \in DOMAIN link : IsRows(link[p]) =>
                 \E i \in DOMAIN link : p < i /\ IsTold(link[i])
        BY <1>1, <2>12, <3>1 DEF ToldOk
      <4> QED
        BY <2>10, <2>11, <4>1 DEF Telling
    <3>2. CASE moved # "told"
      <4>1. IsTold(k[Len(link) + 1])
        BY <1>5, <1>8, <2>1, <2>9, <2>12, <3>2
      <4> QED
        BY <2>9, <2>11, <4>1 DEF Telling
    <3> QED
      BY <3>1, <3>2
  <2>13. ToldOk'
    BY <1>2, <2>12 DEF ToldOk
  <2> QED
    BY <1>2, <1>3, <1>6, <2>3, <2>4, <2>7, <2>13 DEF VisibilityInv
<1> QED
  BY <1>4, <1>12, <1>13

LEMMA UpdateIs ==
  ASSUME VisibilityInv, NEW k \in Keys, NEW value \in Rows
  PROVE  LET u == TodoUpdate(k, table[k], value) IN
         /\ u \in Updates /\ u.key = k /\ u.value = value /\ u.previousValue = table[k]
<1>1. history \in Seq(Batches) /\ table = After(history, Len(history))
  BY DEF VisibilityInv, HistoryOk
<1>2. Len(history) \in Nat /\ Len(history) \in 0..Len(history)
  BY <1>1
<1>3. table \in Contents
  BY <1>1, <1>2, AfterType
<1>4. table[k] \in Rows
  BY <1>3 DEF Contents
<1>5. UpdateType(table[k], value) \in {"insert", "update", "delete"}
  BY DEF UpdateType
<1> QED
  BY <1>4, <1>5 DEF TodoUpdate, Updates

LEMMA PushTodoInv ==
  ASSUME VisibilityInv, ~StaleOriginals, PushTodo
  PROVE  VisibilityInv'
<1>1. PICK k \in Keys, value \in Rows : \E original \in Originals(table[k], Todos) :
        LET u == TodoUpdate(k, original, value) IN
        /\ table' = [table EXCEPT ![k] = value]
        /\ history' = Append(history, u)
        /\ link' = link \o Published(u, member, member, FALSE)
  BY DEF PushTodo, Rows
<1> DEFINE u == TodoUpdate(k, table[k], value)
<1>2. /\ table' = [table EXCEPT ![k] = value] /\ history' = Append(history, u)
      /\ link' = link \o Published(u, member, member, FALSE)
  BY <1>1 DEF Originals
<1>3. u \in Updates /\ u.key = k /\ u.value = value /\ u.previousValue = table[k]
  BY UpdateIs
<1>4. UNCHANGED <<config, member, connection, subscriber, moved>>
  BY DEF PushTodo
<1>5. member \in Referenced
  BY DEF VisibilityInv, Types
<1> HIDE DEF u
<1>6. Stored(history, table, history', table', u)
  BY <1>2, <1>3, NotNone DEF Stored, Batches
<1>7. Publishes(u, member, FALSE)
  BY <1>2, <1>4, MovesNot DEF Publishes
<1> QED
  BY <1>5, <1>6, <1>7, PublishInv

LEMMA PushMemberInv ==
  ASSUME VisibilityInv, ~StaleOriginals, PushMember
  PROVE  VisibilityInv'
<1>1. PICK next \in Referenced : \E original \in Originals(member, Members) :
        /\ member' = next
        /\ moved' = IF ~Moves(member, next) THEN moved
                    ELSE IF online /\ moved # "lost" THEN "told" ELSE "lost"
        /\ \/ /\ link' = link \o Published(NoUpdate, original, next, TRUE)
              /\ history' = Append(history, NoUpdate)
              /\ UNCHANGED table
           \/ \E k \in Keys, value \in Todos :
                LET u == TodoUpdate(k, table[k], value) IN
                /\ table' = [table EXCEPT ![k] = value]
                /\ history' = Append(history, u)
                /\ link' = link \o Published(u, original, next, TRUE)
  BY DEF PushMember, Referenced
<1>2. /\ member' = next
      /\ moved' = IF ~Moves(member, next) THEN moved
                  ELSE IF online /\ moved # "lost" THEN "told" ELSE "lost"
      /\ \/ /\ link' = link \o Published(NoUpdate, member, next, TRUE)
            /\ history' = Append(history, NoUpdate)
            /\ UNCHANGED table
         \/ \E k \in Keys, value \in Todos :
              LET u == TodoUpdate(k, table[k], value) IN
              /\ table' = [table EXCEPT ![k] = value]
              /\ history' = Append(history, u)
              /\ link' = link \o Published(u, member, next, TRUE)
  BY <1>1 DEF Originals
<1>3. UNCHANGED <<config, connection, subscriber>>
  BY DEF PushMember
<1>4. CASE /\ link' = link \o Published(NoUpdate, member, next, TRUE)
           /\ history' = Append(history, NoUpdate)
           /\ UNCHANGED table
  <2>1. Stored(history, table, history', table', NoUpdate)
    BY <1>4 DEF Stored, Batches
  <2>2. Publishes(NoUpdate, next, TRUE)
    BY <1>2, <1>3, <1>4 DEF Publishes
  <2> QED
    BY <2>1, <2>2, PublishInv
<1>5. ASSUME NEW k \in Keys, NEW value \in Todos, NEW u, u = TodoUpdate(k, table[k], value),
             table' = [table EXCEPT ![k] = value], history' = Append(history, u),
             link' = link \o Published(u, member, next, TRUE)
      PROVE  VisibilityInv'
  <2>1. u \in Updates /\ u.key = k /\ u.value = value /\ u.previousValue = table[k]
    BY <1>5, UpdateIs DEF Rows
  <2>2. Stored(history, table, history', table', u)
    BY <1>5, <2>1, NotNone DEF Stored, Batches
  <2>3. Publishes(u, next, TRUE)
    BY <1>2, <1>3, <1>5 DEF Publishes
  <2> QED
    BY <2>2, <2>3, PublishInv
<1> QED
  BY <1>2, <1>4, <1>5

-----------------------------------------------------------------------------
(* What the shard answers.                                                 *)
LEMMA LoadInv ==
  ASSUME VisibilityInv, Load
  PROVE  VisibilityInv'
<1> DEFINE n == Len(history)
           rows == [k \in Keys |-> IF VisibleRow(table[k], member) THEN table[k] ELSE NoRow]
           msg == [type |-> "rows", watermark |-> n, rows |-> rows]
<1>1. /\ online /\ loaded = "none" /\ loaded' = "asked" /\ moved' = "no"
      /\ link' = Append(link, msg)
      /\ access' = access /\ syncMode' = syncMode /\ table' = table /\ member' = member
      /\ history' = history /\ online' = online /\ session' = session /\ asking' = asking
      /\ buffered' = buffered /\ cursor' = cursor
  BY DEF Load, config, shard, connection
<1>2. /\ Types /\ HistoryOk(history, table) /\ LinkOk(history, link, cursor)
      /\ SessionOk /\ \A p \in DOMAIN link : ~IsRows(link[p])
  BY <1>1 DEF VisibilityInv, SessionOk
<1>3. history \in Seq(Batches) /\ n \in Nat /\ n \in 0..n /\ table = After(history, n)
      /\ link \in Seq(Messages)
  BY <1>2 DEF HistoryOk, LinkOk
<1>4. rows = Shown(access, history, n, member)
  BY <1>3, VisibleAs DEF Shown, ShownRow
<1>5. rows \in Contents
  BY <1>3, <1>4, ShownType
<1>6. msg \in Answer /\ IsRows(msg) /\ ~IsUpdates(msg) /\ ~IsChanges(msg)
      /\ msg.watermark = n /\ msg.rows = rows
  BY <1>3, <1>5 DEF Answer, IsRows, IsUpdates, IsChanges
<1> HIDE DEF msg, rows, n
<1>7. msg \in Messages /\ Extends(history, history) /\ msg.watermark = Len(history)
  BY <1>3, <1>6 DEF Messages, Extends, n
<1> PICK k : k = Append(link, msg)
  OBVIOUS
<1>8. k \in Seq(Messages) /\ Becoming(link, k, msg)
  BY <1>3, <1>7, Becomes1
<1>9. LinkOk(history, k, cursor)
  BY <1>2, <1>6, <1>7, LinkAppends
<1> DEFINE last == Len(link) + 1
<1>10. /\ last \in DOMAIN k /\ k[last] = msg
       /\ \A i \in DOMAIN k : i <= last /\ ~(last < i)
       /\ \A i \in DOMAIN k : (i \in DOMAIN link /\ k[i] = link[i]) \/ (i = last /\ k[i] = msg)
  BY <1>8 DEF Becoming
<1> HIDE DEF last
<1>11. SessionOk'
  <2>1. \A b \in DOMAIN buffered : Below(history, k, buffered[b].watermark)
    BY <1>2, <1>3, <1>7, BelowAppends DEF SessionOk
  <2>2. \A q \in DOMAIN k : IsChanges(k[q]) => q \in DOMAIN link /\ k[q] = link[q]
    BY <1>6, <1>10
  <2>3. \E p \in DOMAIN k : IsRows(k[p])
    BY <1>6, <1>10
  <2> QED
    BY <1>1, <1>2, <2>1, <2>2, <2>3 DEF SessionOk
<1>12. AnswersOk(access, history, k, member)
  <2> SUFFICES ASSUME NEW p \in DOMAIN k, IsRows(k[p])
               PROVE  /\ k[p].rows = Shown(access, history, k[p].watermark, member)
                      /\ Right(access, history, k, member, p)
                      /\ Follows(access, history, k, member, p, k[p].watermark)
    BY DEF AnswersOk
  <2>1. p = last /\ k[p] = msg
    BY <1>2, <1>10
  <2>2. (n + 1)..n = {}
    BY <1>3
  <2> QED
    BY <1>4, <1>6, <1>10, <2>1, <2>2 DEF Follows, Right, n
<1>13. Types' /\ RowsOk' /\ ToldOk'
  BY <1>1, <1>2, <1>12 DEF Types, RowsOk, ToldOk
<1> QED
  BY <1>1, <1>2, <1>9, <1>11, <1>13 DEF VisibilityInv

\* What the answer to a request for changes has.
MissedOf(h, c, m) == [i \in 1..(Len(h) - c) |-> VisibleUpdate(h[c + i], m)]

LEMMA MissedIs ==
  ASSUME access \in AccessRules, NEW m \in Referenced, NEW h, NEW t, HistoryOk(h, t),
         NEW c \in 0..Len(h), NEW msg,
         msg = [type |-> "changes", watermark |-> Len(h), updates |-> MissedOf(h, c, m)]
  PROVE  /\ msg \in Missed /\ IsChanges(msg) /\ msg.watermark = Len(h)
         /\ msg.watermark - Len(msg.updates) = c /\ Catches(access, h, m, msg)
<1> DEFINE n == Len(h) - c
           s == msg.updates
<1>1. h \in Seq(Batches) /\ Len(h) \in Nat /\ c \in Nat /\ n \in Nat /\ n = Len(h) - c
      /\ \A i \in 1..n : c + i \in DOMAIN h /\ c + i \in Nat /\ c + i # 0
  BY DEF HistoryOk
<1>2. ASSUME NEW i \in 1..n
      PROVE  Tells(access, h, c + i, m, VisibleUpdate(h[c + i], m))
  <2>1. h[c + i] \in Batches /\ Known(h, c + i)
    BY <1>1 DEF HistoryOk
  <2> QED
    BY <1>1, <2>1, VisibleIs
<1>3. s = MissedOf(h, c, m) /\ msg.watermark = Len(h) /\ msg.type = "changes"
  OBVIOUS
<1> HIDE DEF s
<1>4. \A i \in 1..n : s[i] = VisibleUpdate(h[c + i], m) /\ s[i] \in Batches
  BY <1>2, <1>3 DEF MissedOf, Tells, TellsOf, Batches
<1> HIDE DEF n
<1>5. s = [i \in 1..n |-> s[i]]
  BY <1>3 DEF MissedOf, n
<1>6. s \in Seq(Batches) /\ Len(s) = n /\ DOMAIN s = 1..n
  <2>1. n \in Nat
    BY <1>1
  <2>2. s \in [1..n -> Batches]
    BY <1>4, <1>5, Zenon
  <2>3. s \in Seq(Batches) /\ DOMAIN s = 1..n
    BY <2>1, <2>2
  <2> QED
    BY <2>1, <2>3
<1>7. msg.watermark - Len(s) = c
  BY <1>1, <1>3, <1>6
<1>8. msg \in Missed
  BY <1>1, <1>6 DEF Missed, s
<1>9. Catches(access, h, m, msg)
  BY <1>1, <1>2, <1>4, <1>6, <1>7 DEF Catches, s
<1> QED
  BY <1>3, <1>7, <1>8, <1>9 DEF IsChanges, s

LEMMA AnswerChangesInv ==
  ASSUME VisibilityInv, AnswerChanges
  PROVE  VisibilityInv'
<1> DEFINE msg == [type |-> "changes", watermark |-> Len(history),
                   updates |-> MissedOf(history, cursor, member)]
<1>1. /\ asking /\ asking' = FALSE /\ link' = Append(link, msg)
      /\ access' = access /\ syncMode' = syncMode /\ table' = table /\ member' = member
      /\ history' = history /\ online' = online /\ session' = session
      /\ buffered' = buffered /\ view' = view /\ loaded' = loaded /\ cursor' = cursor
      /\ moved' = moved
  BY DEF AnswerChanges, config, shard, subscriber, MissedOf
<1>2. /\ Types /\ HistoryOk(history, table) /\ LinkOk(history, link, cursor)
      /\ SessionOk /\ RowsOk /\ ToldOk
      /\ access \in AccessRules /\ member \in Referenced
  BY DEF VisibilityInv, Types
<1>3. /\ session = "catching-up" /\ \A q \in DOMAIN link : ~IsChanges(link[q])
      /\ online
  BY <1>1, <1>2 DEF SessionOk
<1>4. Len(history) \in Nat /\ cursor \in 0..Len(history) /\ link \in Seq(Messages)
      /\ Extends(history, history)
  BY <1>2 DEF HistoryOk, LinkOk, Extends
<1>5. /\ msg \in Missed /\ IsChanges(msg) /\ msg.watermark = Len(history)
      /\ msg.watermark - Len(msg.updates) = cursor
      /\ Catches(access, history, member, msg)
  BY <1>2, <1>4, MissedIs
<1> HIDE DEF msg
<1>6. msg \in Messages /\ ~IsRows(msg) /\ ~IsUpdates(msg)
      /\ Heard(access, history, history, member, msg)
  BY <1>5 DEF Messages, IsChanges, IsRows, IsUpdates, Heard
<1> PICK k : k = Append(link, msg)
  OBVIOUS
<1>7. Becoming(link, k, msg)
  BY <1>4, <1>6, Becomes1
<1>8. LinkOk(history, k, cursor)
  BY <1>2, <1>3, <1>4, <1>5, <1>6, LinkAppends
<1>9. /\ \A i \in DOMAIN link : i \in DOMAIN k /\ k[i] = link[i]
      /\ \A i \in DOMAIN k : (i \in DOMAIN link /\ k[i] = link[i]) \/ k[i] = msg
  BY <1>7 DEF Becoming
<1>10. SessionOk'
  <2>1. \A b \in DOMAIN buffered : Below(history, k, buffered[b].watermark)
    BY <1>2, <1>4, <1>5, <1>6, BelowAppends DEF SessionOk
  <2>2. \A q \in DOMAIN k : IsChanges(k[q]) => k[q] = msg
    BY <1>3, <1>9
  <2>3. (\E p \in DOMAIN k : IsRows(k[p])) <=> \E p \in DOMAIN link : IsRows(link[p])
    BY <1>6, <1>9
  <2> QED
    BY <1>1, <1>2, <1>3, <1>5, <2>1, <2>2, <2>3 DEF SessionOk
<1>11. RowsOk'
  <2> DEFINE sync == session = "synchronized"
  <2>1. ASSUME moved = "no" PROVE AnswersOk(access, history, k, member)
    BY <1>2, <1>4, <1>6, <2>1, AnswersAppends DEF RowsOk
  <2>2. ASSUME moved = "no", loaded = "loaded"
        PROVE  ViewOk(access, history, k, member, cursor, sync, view)
    <3>1. ViewOk(access, history, link, member, cursor, sync, view)
      BY <1>2, <2>2 DEF RowsOk
    <3> HIDE DEF sync
    <3> QED
      BY <1>2, <1>4, <1>6, <3>1, ViewAppends
  <2> QED
    BY <1>1, <2>1, <2>2 DEF RowsOk
<1>12. ToldOk'
  <2>1. \A p \in DOMAIN k : IsRows(k[p]) => p \in DOMAIN link /\ k[p] = link[p]
    BY <1>6, <1>9
  <2> QED
    BY <1>1, <1>2, <1>9, <2>1 DEF ToldOk, Telling
<1>13. Types'
  BY <1>1, <1>2 DEF Types
<1> QED
  BY <1>1, <1>2, <1>8, <1>10, <1>11, <1>12, <1>13 DEF VisibilityInv

LEMMA ChangesFailInv ==
  ASSUME VisibilityInv, ChangesFail
  PROVE  VisibilityInv'
<1>1. /\ asking /\ asking' = FALSE /\ link' = link
      /\ access' = access /\ syncMode' = syncMode /\ table' = table /\ member' = member
      /\ history' = history /\ online' = online /\ session' = session
      /\ buffered' = buffered /\ view' = view /\ loaded' = loaded /\ cursor' = cursor
      /\ moved' = moved
  BY DEF ChangesFail, config, shard, subscriber
<1>2. SessionOk'
  BY <1>1 DEF VisibilityInv, SessionOk
<1> QED
  BY <1>1, <1>2 DEF VisibilityInv, Types, RowsOk, ToldOk

-----------------------------------------------------------------------------
(* A message less.                                                         *)
LEMMA TailIs ==
  ASSUME NEW S, NEW l \in Seq(S), l # <<>>
  PROVE  /\ Tail(l) \in Seq(S) /\ Len(l) \in Nat /\ DOMAIN l = 1..Len(l)
         /\ 1 \in DOMAIN l /\ Head(l) = l[1]
         /\ \A i \in DOMAIN Tail(l) :
              /\ i \in Nat /\ i >= 1 /\ i + 1 \in DOMAIN l /\ Tail(l)[i] = l[i + 1]
         /\ \A i \in DOMAIN l : i > 1 =>
              i - 1 \in DOMAIN Tail(l) /\ Tail(l)[i - 1] = l[i] /\ (i - 1) + 1 = i
OBVIOUS

\* The link k is what is left of l once its first message is delivered.
Leaving(l, k) ==
  /\ DOMAIN l \in SUBSET Nat /\ 1 \in DOMAIN l /\ l[1] \in Messages
  /\ \A i \in DOMAIN l : i >= 1
  /\ \A i \in DOMAIN k : i \in Nat /\ i >= 1 /\ i + 1 \in DOMAIN l /\ k[i] = l[i + 1]
  /\ \A i \in DOMAIN l : i > 1 => i - 1 \in DOMAIN k /\ k[i - 1] = l[i]

LEMMA LeavingIs ==
  ASSUME NEW l \in Seq(Messages), l # <<>>
  PROVE  Leaving(l, Tail(l)) /\ Tail(l) \in Seq(Messages) /\ Head(l) = l[1]
<1>1. DOMAIN l \in SUBSET Nat /\ \A i \in DOMAIN l : i >= 1 /\ l[i] \in Messages
  OBVIOUS
<1> QED
  BY <1>1, TailIs DEF Leaving

LEMMA LinkTail ==
  ASSUME NEW h, NEW l, NEW c, LinkOk(h, l, c), NEW k \in Seq(Messages), Leaving(l, k),
         Len(h) \in Nat, NEW d \in Nat, d <= l[1].watermark
  PROVE  LinkOk(h, k, d)
<1>1. /\ \A i \in DOMAIN k : i + 1 \in DOMAIN l /\ k[i] = l[i + 1] /\ 1 < i + 1 /\ i \in Nat
      /\ 1 \in DOMAIN l
  BY DEF Leaving
<1>2. l[1].watermark \in c..Len(h) /\ c \in Nat
  BY <1>1 DEF LinkOk
<1>3. ASSUME NEW i \in DOMAIN k
      PROVE  k[i].watermark \in d..Len(h) /\ (IsUpdates(k[i]) => d < k[i].watermark)
  <2>1. l[i + 1].watermark \in c..Len(h) /\ l[1].watermark <= l[i + 1].watermark
        /\ (IsUpdates(l[i + 1]) => l[1].watermark < l[i + 1].watermark)
    BY <1>1 DEF LinkOk
  <2> QED
    BY <1>1, <1>2, <2>1
<1>4. ASSUME NEW i \in DOMAIN k, NEW j \in DOMAIN k, i < j
      PROVE  /\ k[i].watermark <= k[j].watermark
             /\ IsUpdates(k[j]) => k[i].watermark < k[j].watermark
  <2>1. i + 1 < j + 1
    BY <1>1, <1>4
  <2> QED
    BY <1>1, <2>1 DEF LinkOk
<1>5. ASSUME NEW p \in DOMAIN k, NEW q \in DOMAIN k,
             \/ IsRows(k[p]) /\ IsRows(k[q])
             \/ IsChanges(k[p]) /\ IsChanges(k[q])
      PROVE  p = q
  <2>1. p + 1 = q + 1
    BY <1>1, <1>5 DEF LinkOk
  <2> QED
    BY <1>1, <2>1
<1>6. d <= Len(h)
  BY <1>2
<1> QED
  BY <1>3, <1>4, <1>5, <1>6 DEF LinkOk

LEMMA BelowTail ==
  ASSUME NEW h, NEW l, NEW k, Leaving(l, k), NEW n, Below(h, l, n)
  PROVE  Below(h, k, n)
BY DEF Below, Leaving

\* Nothing that is left is older than what was delivered.
LEMMA BelowNext ==
  ASSUME NEW h, NEW l, NEW c, LinkOk(h, l, c), NEW k, Leaving(l, k), Len(h) \in Nat
  PROVE  /\ l[1].watermark \in c..Len(h) /\ l[1].watermark \in Nat
         /\ Below(h, k, l[1].watermark)
         /\ \A i \in DOMAIN k : IsUpdates(k[i]) => l[1].watermark < k[i].watermark
<1>1. /\ \A i \in DOMAIN k : i + 1 \in DOMAIN l /\ k[i] = l[i + 1] /\ 1 < i + 1
      /\ 1 \in DOMAIN l
  BY DEF Leaving
<1>2. l[1].watermark \in c..Len(h) /\ c \in Nat
  BY <1>1 DEF LinkOk
<1>3. \A i \in DOMAIN k : /\ l[1].watermark <= k[i].watermark
                          /\ IsUpdates(k[i]) => l[1].watermark < k[i].watermark
  BY <1>1 DEF LinkOk
<1> QED
  BY <1>2, <1>3 DEF Below

LEMMA FollowsTail ==
  ASSUME NEW a, NEW h, NEW l, NEW k, Leaving(l, k), NEW m,
         NEW q \in Nat, NEW n, Follows(a, h, l, m, q + 1, n)
  PROVE  Follows(a, h, k, m, q, n)
<1>1. ASSUME NEW s, Carries(l, q + 1, s)
      PROVE  Carries(k, q, s)
  <2>1. PICK i \in DOMAIN l : q + 1 < i /\ IsUpdates(l[i]) /\ l[i].watermark = s
    BY <1>1 DEF Carries
  <2>2. i > 1 /\ q < i - 1
    BY <2>1 DEF Leaving
  <2>3. i - 1 \in DOMAIN k /\ k[i - 1] = l[i]
    BY <2>2 DEF Leaving
  <2> QED
    BY <2>1, <2>2, <2>3 DEF Carries
<1> QED
  BY <1>1 DEF Follows

\* The first message was delivered, and the rows are those after the batch t.
LEMMA FollowsNext ==
  ASSUME NEW a, NEW h, NEW l, NEW k, Leaving(l, k), NEW m, NEW n \in Nat, NEW t \in Nat,
         n <= t, Len(h) \in Nat, IsUpdates(l[1]) => l[1].watermark <= t,
         Follows(a, h, l, m, 0, n)
  PROVE  Follows(a, h, k, m, 0, t)
<1>1. ASSUME NEW s, Carries(l, 0, s), IsUpdates(l[1]) => l[1].watermark # s
      PROVE  Carries(k, 0, s)
  <2>1. PICK i \in DOMAIN l : IsUpdates(l[i]) /\ l[i].watermark = s
    BY <1>1 DEF Carries
  <2>2. i > 1 /\ 0 < i - 1
    BY <1>1, <2>1 DEF Leaving
  <2>3. i - 1 \in DOMAIN k /\ k[i - 1] = l[i]
    BY <2>2 DEF Leaving
  <2> QED
    BY <2>1, <2>2, <2>3 DEF Carries
<1>2. ASSUME NEW s \in (t + 1)..Len(h)
      PROVE  Silent(a, h, s, m) \/ Carries(k, 0, s)
  <2>1. s \in (n + 1)..Len(h) /\ ~(s <= t)
    BY <1>2
  <2> QED
    BY <1>1, <2>1 DEF Follows
<1> QED
  BY <1>2 DEF Follows

LEMMA RightTail ==
  ASSUME NEW a, NEW h, NEW l, NEW k, Leaving(l, k), NEW m, NEW p \in Nat, NEW q \in Nat,
         p <= q + 1, Right(a, h, l, m, p)
  PROVE  Right(a, h, k, m, q)
<1> SUFFICES ASSUME NEW i \in DOMAIN k, q < i
             PROVE  RightAt(a, h, k, m, i)
  BY DEF Right
<1>1. i \in Nat /\ i + 1 \in DOMAIN l /\ k[i] = l[i + 1]
  BY DEF Leaving
<1>2. p < i + 1
  BY <1>1
<1>3. RightAt(a, h, l, m, i + 1)
  BY <1>1, <1>2 DEF Right
<1>4. IsChanges(k[i]) => Follows(a, h, k, m, i, k[i].watermark)
  BY <1>1, <1>3, FollowsTail DEF RightAt
<1> QED
  BY <1>1, <1>3, <1>4 DEF RightAt

LEMMA AnswersTail ==
  ASSUME NEW a, NEW h, NEW l, NEW k, Leaving(l, k), NEW m, AnswersOk(a, h, l, m)
  PROVE  AnswersOk(a, h, k, m)
<1> SUFFICES ASSUME NEW p \in DOMAIN k, IsRows(k[p])
             PROVE  /\ k[p].rows = Shown(a, h, k[p].watermark, m)
                    /\ Right(a, h, k, m, p) /\ Follows(a, h, k, m, p, k[p].watermark)
  BY DEF AnswersOk
<1>1. p \in Nat /\ p + 1 \in DOMAIN l /\ k[p] = l[p + 1] /\ p + 1 \in Nat /\ p + 1 <= p + 1
  BY DEF Leaving
<1>2. /\ l[p + 1].rows = Shown(a, h, l[p + 1].watermark, m)
      /\ Right(a, h, l, m, p + 1) /\ Follows(a, h, l, m, p + 1, l[p + 1].watermark)
  BY <1>1 DEF AnswersOk
<1>3. Right(a, h, k, m, p) /\ Follows(a, h, k, m, p, k[p].watermark)
  BY <1>1, <1>2, RightTail, FollowsTail
<1> QED
  BY <1>1, <1>2, <1>3

\* The first message is not about rows: the others stay behind.
RowsLeft(l, k) ==
  /\ (\E p \in DOMAIN l : IsRows(l[p])) <=> \E p \in DOMAIN k : IsRows(k[p])
  /\ \A p \in DOMAIN k : IsRows(k[p]) =>
       \A i \in DOMAIN l : p + 1 < i /\ IsTold(l[i]) =>
         \E j \in DOMAIN k : p < j /\ IsTold(k[j])

LEMMA RowsLeftIs ==
  ASSUME NEW l, NEW k, Leaving(l, k), ~IsRows(l[1])
  PROVE  RowsLeft(l, k)
<1>1. ASSUME NEW p \in DOMAIN l, IsRows(l[p])
      PROVE  \E q \in DOMAIN k : IsRows(k[q])
  <2>1. p > 1
    BY <1>1 DEF Leaving
  <2> QED
    BY <1>1, <2>1 DEF Leaving
<1>2. ASSUME NEW p \in DOMAIN k, IsRows(k[p])
      PROVE  p + 1 \in DOMAIN l /\ IsRows(l[p + 1]) /\ p \in Nat
  BY <1>2 DEF Leaving
<1>3. ASSUME NEW p \in DOMAIN k, IsRows(k[p]), NEW i \in DOMAIN l, p + 1 < i, IsTold(l[i])
      PROVE  \E j \in DOMAIN k : p < j /\ IsTold(k[j])
  <2>1. i > 1 /\ p < i - 1
    BY <1>2, <1>3 DEF Leaving
  <2>2. i - 1 \in DOMAIN k /\ k[i - 1] = l[i]
    BY <2>1 DEF Leaving
  <2> QED
    BY <1>3, <2>1, <2>2
<1> QED
  BY <1>1, <1>2, <1>3 DEF RowsLeft

-----------------------------------------------------------------------------
(* The subscriber.                                                         *)
LEMMA RowsArrive ==
  ASSUME VisibilityInv, Deliver, IsRows(Head(link)), ReceiveRows(Head(link))
  PROVE  VisibilityInv'
<1> PICK msg : msg = Head(link)
  OBVIOUS
<1> PICK k : k = Tail(link)
  OBVIOUS
<1> DEFINE w == msg.watermark
<1>1. /\ link # <<>> /\ link' = k /\ view' = msg.rows /\ loaded' = "loaded"
      /\ cursor' = cursor
      /\ access' = access /\ syncMode' = syncMode /\ table' = table /\ member' = member
      /\ history' = history /\ online' = online /\ moved' = moved /\ session' = session
      /\ buffered' = buffered /\ asking' = asking
  BY DEF Deliver, ReceiveRows, config, shard
<1>2. Types /\ HistoryOk(history, table) /\ LinkOk(history, link, cursor)
      /\ SessionOk /\ RowsOk /\ ToldOk /\ link \in Seq(Messages) /\ Len(history) \in Nat
  BY DEF VisibilityInv, LinkOk, HistoryOk
<1>3. Leaving(link, k) /\ k \in Seq(Messages) /\ msg = link[1] /\ IsRows(link[1])
      /\ 1 \in DOMAIN link
  BY <1>1, <1>2, LeavingIs DEF Leaving
<1>4. online
  BY <1>1, <1>2 DEF SessionOk
<1>5. /\ w \in cursor..Len(history) /\ w \in Nat /\ Below(history, k, w)
      /\ \A i \in DOMAIN k : IsUpdates(k[i]) => w < k[i].watermark
  BY <1>2, <1>3, BelowNext
<1>6. cursor \in Nat /\ cursor <= link[1].watermark
  BY <1>2, <1>3, <1>5 DEF LinkOk
<1>7. LinkOk(history, k, cursor)
  BY <1>2, <1>3, <1>6, LinkTail
<1>8. \A p \in DOMAIN k : ~IsRows(k[p])
  <2> SUFFICES ASSUME NEW p \in DOMAIN k, IsRows(k[p]) PROVE FALSE
    OBVIOUS
  <2>1. p + 1 \in DOMAIN link /\ IsRows(link[p + 1]) /\ p \in Nat /\ p >= 1
    BY <1>3 DEF Leaving
  <2>2. p + 1 = 1
    BY <1>2, <1>3, <2>1 DEF LinkOk
  <2> QED
    BY <2>1, <2>2
<1>9. ASSUME moved = "no"
      PROVE  /\ AnswersOk(access, history, k, member)
             /\ ViewOk(access, history, k, member, cursor, session = "synchronized", msg.rows)
  <2>1. AnswersOk(access, history, link, member)
    BY <1>2, <1>9 DEF RowsOk
  <2>2. /\ msg.rows = Shown(access, history, w, member)
        /\ Right(access, history, link, member, 1)
        /\ Follows(access, history, link, member, 0 + 1, w)
    BY <1>3, <2>1 DEF AnswersOk
  <2>3. AnswersOk(access, history, k, member)
    BY <1>3, <2>1, AnswersTail
  <2>4. 1 \in Nat /\ 0 \in Nat /\ 1 <= 0 + 1
    OBVIOUS
  <2>5. Right(access, history, k, member, 0) /\ Follows(access, history, k, member, 0, w)
    BY <1>3, <2>2, <2>4, RightTail, FollowsTail
  <2>6. Stands(access, history, k, member, session = "synchronized", msg.rows, w)
    BY <1>5, <2>2, <2>5 DEF Stands
  <2> QED
    BY <1>5, <2>3, <2>5, <2>6 DEF ViewOk
<1>10. ASSUME moved = "told", syncMode = "on-demand"
       PROVE  Telling(k, buffered)
  <2>1. PICK i \in DOMAIN link : 1 < i /\ IsTold(link[i])
    BY <1>2, <1>3, <1>10 DEF ToldOk
  <2>2. i > 1
    BY <1>3, <2>1 DEF Leaving
  <2> QED
    BY <1>3, <2>1, <2>2 DEF Telling, Leaving
<1>11. SessionOk'
  <2>1. \A b \in DOMAIN buffered : Below(history, k, buffered[b].watermark)
    BY <1>2, <1>3, BelowTail DEF SessionOk
  <2>2. \A q \in DOMAIN k : q + 1 \in DOMAIN link /\ k[q] = link[q + 1]
    BY <1>3 DEF Leaving
  <2> QED
    BY <1>1, <1>2, <1>4, <1>8, <2>1, <2>2 DEF SessionOk
<1>12. Types'
  BY <1>1, <1>2 DEF Types
<1>13. RowsOk'
  BY <1>1, <1>9 DEF RowsOk
<1>14. ToldOk'
  BY <1>1, <1>8, <1>10 DEF ToldOk
<1> QED
  BY <1>1, <1>2, <1>7, <1>11, <1>12, <1>13, <1>14 DEF VisibilityInv

\* An update brings a subscriber to the rows that are shown after it.
LEMMA UpdateArrives ==
  ASSUME NEW a, NEW h \in Seq(Batches), NEW l, NEW c, LinkOk(h, l, c), NEW k, Leaving(l, k),
         NEW m, NEW v, IsUpdates(l[1]), ViewOk(a, h, l, m, c, TRUE, v)
  PROVE  ViewOk(a, h, k, m, l[1].watermark, TRUE, Apply(v, l[1].update, TRUE))
<1> DEFINE w == l[1].watermark
           u == l[1].update
<1>1. 1 \in DOMAIN l /\ l[1] \in Messages /\ Len(h) \in Nat /\ c \in Nat
  BY DEF Leaving, LinkOk
<1>2. w \in c..Len(h) /\ w \in Nat /\ Below(h, k, w) /\ w \in w..Len(h)
      /\ \A i \in DOMAIN k : IsUpdates(k[i]) => w < k[i].watermark
  BY <1>1, BelowNext
<1>3. PICK n \in c..Len(h) : Stands(a, h, l, m, TRUE, v, n)
  BY DEF ViewOk
<1>4. v = Shown(a, h, n, m) /\ Follows(a, h, l, m, 0, n) /\ n < w /\ n \in Nat
  BY <1>1, <1>3 DEF Stands
<1>5. Tells(a, h, w, m, u)
  <2>1. 0 < 1
    OBVIOUS
  <2> QED
    BY <1>1, <2>1 DEF ViewOk, Right, RightAt
<1> HIDE DEF w, u
<1>6. ASSUME NEW s \in (n + 1)..(w - 1)
      PROVE  Silent(a, h, s, m)
  <2>1. s \in (n + 1)..Len(h) /\ s < w
    BY <1>2, <1>4
  <2>2. SUFFICES ASSUME Carries(l, 0, s) PROVE FALSE
    BY <1>4, <2>1 DEF Follows
  <2>3. PICK i \in DOMAIN l : IsUpdates(l[i]) /\ l[i].watermark = s
    BY <2>2 DEF Carries
  <2>4. i = 1 \/ i > 1
    BY DEF Leaving
  <2>5. CASE i = 1
    BY <1>2, <2>1, <2>3, <2>5 DEF w
  <2>6. CASE i > 1
    <3>1. i - 1 \in DOMAIN k /\ k[i - 1] = l[i]
      BY <2>6 DEF Leaving
    <3>2. w < s
      BY <1>2, <2>3, <3>1
    <3> QED
      BY <1>2, <2>1, <3>2
  <2> QED
    BY <2>4, <2>5, <2>6
<1>7. Shown(a, h, w - 1, m) = v
  <2>1. w - 1 \in Nat /\ n <= w - 1
    BY <1>2, <1>4
  <2> QED
    BY <1>4, <1>6, <2>1, SilentGap
<1>8. Brings(a, h, w, m, u, v)
  <2>1. v \in Contents
    <3>1. n \in 0..Len(h)
      BY <1>1
    <3> QED
      BY <1>4, <3>1, ShownType
  <2>2. w # 0
    BY <1>4
  <2> QED
    BY <1>2, <1>5, <2>1, <2>2, ApplyIs
<1>9. Apply(v, u, TRUE) = Shown(a, h, w, m)
  <2>1. Apply(v, u, TRUE) \in Contents
    BY <1>8 DEF Brings
  <2>2. \A i \in Keys : Apply(v, u, TRUE)[i] = Shown(a, h, w, m)[i]
    BY <1>7, <1>8 DEF Brings
  <2>3. Shown(a, h, w, m) \in Contents
    <3>1. w \in 0..Len(h)
      BY <1>1, <1>2
    <3> QED
      BY <3>1, ShownType
  <2> QED
    BY <2>1, <2>2, <2>3, SameContents
<1>10. Follows(a, h, k, m, 0, w)
  <2>1. n <= w /\ (IsUpdates(l[1]) => l[1].watermark <= w)
    BY <1>2, <1>4 DEF w
  <2> QED
    BY <1>1, <1>2, <1>4, <2>1, FollowsNext
<1>11. Right(a, h, k, m, 0)
  <2>1. 0 \in Nat /\ 0 <= 0 + 1
    OBVIOUS
  <2> QED
    BY <2>1, RightTail DEF ViewOk
<1>12. Stands(a, h, k, m, TRUE, Apply(v, u, TRUE), w)
  BY <1>2, <1>9, <1>10 DEF Stands
<1>13. ViewOk(a, h, k, m, w, TRUE, Apply(v, u, TRUE))
  BY <1>2, <1>11, <1>12 DEF ViewOk
<1> QED
  BY <1>13 DEF w, u

\* A synchronized session handles a broadcast.
LEMMA UpdatesArrive ==
  ASSUME VisibilityInv, Deliver, IsUpdates(Head(link)), ReceiveUpdates(Head(link)),
         session = "synchronized"
  PROVE  VisibilityInv'
<1> PICK msg : msg = Head(link)
  OBVIOUS
<1> PICK k : k = Tail(link)
  OBVIOUS
<1> DEFINE w == msg.watermark
           cleared == msg.invalidated /\ syncMode = "on-demand" /\ loaded = "loaded"
<1>1. /\ link # <<>> /\ link' = k
      /\ access' = access /\ syncMode' = syncMode /\ table' = table /\ member' = member
      /\ history' = history /\ online' = online /\ asking' = asking
      /\ session' = session /\ buffered' = buffered
  BY DEF Deliver, ReceiveUpdates, config, shard
<1>2. Types /\ HistoryOk(history, table) /\ LinkOk(history, link, cursor)
      /\ SessionOk /\ RowsOk /\ ToldOk /\ link \in Seq(Messages) /\ Len(history) \in Nat
      /\ history \in Seq(Batches)
  BY DEF VisibilityInv, LinkOk, HistoryOk
<1>3. Leaving(link, k) /\ k \in Seq(Messages) /\ msg = link[1] /\ IsUpdates(link[1])
      /\ 1 \in DOMAIN link
  BY <1>1, <1>2, LeavingIs DEF Leaving
<1>4. ~IsRows(link[1]) /\ ~IsChanges(link[1])
  BY <1>3, KindsDiffer DEF Leaving
<1>5. w \in cursor..Len(history) /\ w \in Nat /\ cursor \in Nat /\ cursor < w
  BY <1>2, <1>3 DEF LinkOk
<1>6. Becomes(Handled(Client, msg))
  <2>1. Client.cursor = cursor
    BY DEF Client
  <2>2. ~(msg.watermark <= Client.cursor)
    BY <1>5, <2>1
  <2> QED
    BY <2>2 DEF ReceiveUpdates, ApplyBroadcast
<1>7. /\ loaded' = (IF cleared THEN "none" ELSE loaded) /\ cursor' = w /\ moved' = moved
      /\ ~cleared => view' = Apply(view, msg.update, loaded = "loaded")
  <2>1. Client = [view |-> view, loaded |-> loaded, cursor |-> cursor, moved |-> moved]
    BY DEF Client
  <2> QED
    BY <1>6, <2>1 DEF Becomes, Handled
<1> HIDE DEF w, cleared
<1>8. LinkOk(history, k, w)
  <2>1. w <= link[1].watermark
    BY <1>3, <1>5 DEF w
  <2> QED
    BY <1>2, <1>3, <1>5, <2>1, LinkTail
<1>9. RowsLeft(link, k)
  BY <1>3, <1>4, RowsLeftIs
<1>10. online /\ buffered = <<>> /\ ~asking /\ \A q \in DOMAIN link : ~IsChanges(link[q])
  BY <1>1, <1>2 DEF SessionOk
<1>11. SessionOk'
  <2>1. \A q \in DOMAIN k : ~IsChanges(k[q])
    BY <1>3, <1>10 DEF Leaving
  <2>2. DOMAIN buffered = {}
    BY <1>10
  <2>3. loaded = "asked" <=> loaded' = "asked"
    BY <1>7 DEF cleared
  <2> QED
    BY <1>1, <1>2, <1>9, <1>10, <2>1, <2>2, <2>3 DEF SessionOk, RowsLeft
<1>12. Types'
  BY <1>1, <1>2, <1>7 DEF Types
<1>13. RowsOk'
  <2>1. moved = "no" => AnswersOk(access, history, k, member)
    BY <1>2, <1>3, AnswersTail DEF RowsOk
  <2>2. ASSUME moved = "no", loaded' = "loaded"
        PROVE  ViewOk(access, history, k, member, w, session = "synchronized", view')
    <3>1. loaded = "loaded" /\ view' = Apply(view, link[1].update, TRUE)
      BY <1>3, <1>7, <2>2
    <3>2. ViewOk(access, history, link, member, cursor, TRUE, view)
      BY <1>2, <2>2, <3>1 DEF RowsOk
    <3>3. ViewOk(access, history, k, member, link[1].watermark, TRUE,
                 Apply(view, link[1].update, TRUE))
      BY <1>2, <1>3, <3>2, UpdateArrives
    <3> QED
      BY <1>3, <3>1, <3>3 DEF w
  <2> QED
    BY <1>1, <1>7, <2>1, <2>2 DEF RowsOk
<1>14. ToldOk'
  <2> SUFFICES ASSUME moved = "told", syncMode = "on-demand"
               PROVE  /\ loaded' = "loaded" => Telling(k, buffered)
                      /\ \A p \in DOMAIN k : IsRows(k[p]) =>
                           \E i \in DOMAIN k : p < i /\ IsTold(k[i])
    BY <1>1, <1>7 DEF ToldOk
  <2>1. ASSUME loaded' = "loaded"
        PROVE  Telling(k, buffered)
    <3>1. loaded = "loaded" /\ ~msg.invalidated
      BY <1>7, <2>1 DEF cleared
    <3>2. PICK i \in DOMAIN link : IsTold(link[i])
      BY <1>2, <1>10, <3>1 DEF ToldOk, Telling
    <3>3. i > 1
      BY <1>3, <3>1, <3>2 DEF IsTold, Leaving
    <3> QED
      BY <1>3, <3>2, <3>3 DEF Telling, Leaving
  <2>2. ASSUME NEW p \in DOMAIN k, IsRows(k[p])
        PROVE  \E i \in DOMAIN k : p < i /\ IsTold(k[i])
    <3>1. p + 1 \in DOMAIN link /\ IsRows(link[p + 1])
      BY <1>3, <2>2 DEF Leaving
    <3>2. PICK i \in DOMAIN link : p + 1 < i /\ IsTold(link[i])
      BY <1>2, <3>1 DEF ToldOk
    <3> QED
      BY <1>9, <2>2, <3>2 DEF RowsLeft
  <2> QED
    BY <2>1, <2>2
<1> QED
  BY <1>1, <1>2, <1>7, <1>8, <1>11, <1>12, <1>13, <1>14 DEF VisibilityInv

\* Any other session keeps it.
LEMMA UpdatesWait ==
  ASSUME VisibilityInv, Deliver, IsUpdates(Head(link)), ReceiveUpdates(Head(link)),
         session # "synchronized"
  PROVE  VisibilityInv'
<1> PICK msg : msg = Head(link)
  OBVIOUS
<1> PICK k : k = Tail(link)
  OBVIOUS
<1> PICK b : b = Append(buffered, msg)
  OBVIOUS
<1>1. /\ link # <<>> /\ link' = k /\ buffered' = b
      /\ access' = access /\ syncMode' = syncMode /\ table' = table /\ member' = member
      /\ history' = history /\ online' = online /\ asking' = asking /\ moved' = moved
      /\ session' = session /\ view' = view /\ loaded' = loaded /\ cursor' = cursor
  BY DEF Deliver, ReceiveUpdates, config, shard, subscriber
<1>2. Types /\ HistoryOk(history, table) /\ LinkOk(history, link, cursor)
      /\ SessionOk /\ RowsOk /\ ToldOk /\ link \in Seq(Messages) /\ Len(history) \in Nat
      /\ buffered \in Seq(Told)
  BY DEF VisibilityInv, LinkOk, HistoryOk, Types
<1>3. Leaving(link, k) /\ k \in Seq(Messages) /\ msg = link[1] /\ IsUpdates(link[1])
      /\ 1 \in DOMAIN link
  BY <1>1, <1>2, LeavingIs DEF Leaving
<1>4. ~IsRows(link[1]) /\ ~IsChanges(link[1]) /\ msg \in Told
  BY <1>3, KindsDiffer DEF Leaving
<1>5. /\ msg.watermark \in cursor..Len(history)
      /\ Below(history, k, msg.watermark) /\ cursor \in Nat /\ cursor <= link[1].watermark
  <2>1. msg.watermark \in cursor..Len(history) /\ Below(history, k, msg.watermark)
    BY <1>2, <1>3, BelowNext
  <2> QED
    BY <1>2, <1>3, <2>1 DEF LinkOk
<1>6. /\ b \in Seq(Told)
      /\ \A i \in DOMAIN b : \/ i \in DOMAIN buffered /\ b[i] = buffered[i]
                            \/ b[i] = msg
      /\ \A i \in DOMAIN buffered : i \in DOMAIN b /\ b[i] = buffered[i]
      /\ \E i \in DOMAIN b : b[i] = msg
  <2>1. /\ Append(buffered, msg) \in Seq(Told) /\ Len(buffered) \in Nat
        /\ DOMAIN buffered = 1..Len(buffered) /\ DOMAIN Append(buffered, msg) = 1..(Len(buffered) + 1)
        /\ Append(buffered, msg)[Len(buffered) + 1] = msg
        /\ \A i \in DOMAIN buffered : Append(buffered, msg)[i] = buffered[i]
    BY <1>2, <1>4, SeqAppends
  <2>2. /\ Len(buffered) + 1 \in 1..(Len(buffered) + 1)
        /\ \A i \in 1..Len(buffered) : i \in 1..(Len(buffered) + 1)
        /\ \A i \in 1..(Len(buffered) + 1) : i \in 1..Len(buffered) \/ i = Len(buffered) + 1
    BY <2>1
  <2> QED
    BY <2>1, <2>2
<1>7. LinkOk(history, k, cursor)
  BY <1>2, <1>3, <1>5, LinkTail
<1>8. RowsLeft(link, k)
  BY <1>3, <1>4, RowsLeftIs
<1>9. online
  BY <1>1, <1>2 DEF SessionOk
<1>10. SessionOk'
  <2>1. \A i \in DOMAIN buffered : Below(history, k, buffered[i].watermark)
    BY <1>2, <1>3, BelowTail DEF SessionOk
  <2>2. \A i \in DOMAIN b : Below(history, k, b[i].watermark)
    BY <1>5, <1>6, <2>1
  <2>3. \A q \in DOMAIN k : q + 1 \in DOMAIN link /\ k[q] = link[q + 1]
    BY <1>3 DEF Leaving
  <2> QED
    BY <1>1, <1>2, <1>8, <1>9, <2>2, <2>3 DEF SessionOk, RowsLeft
<1>11. Types'
  BY <1>1, <1>2, <1>6 DEF Types
<1>12. RowsOk'
  <2>1. moved = "no" => AnswersOk(access, history, k, member)
    BY <1>2, <1>3, AnswersTail DEF RowsOk
  <2>2. ASSUME moved = "no", loaded = "loaded"
        PROVE  ViewOk(access, history, k, member, cursor, FALSE, view)
    <3>1. ViewOk(access, history, link, member, cursor, FALSE, view)
      BY <1>2, <2>2 DEF RowsOk
    <3>2. PICK n \in cursor..Len(history) :
            Stands(access, history, link, member, FALSE, view, n)
      BY <3>1 DEF ViewOk
    <3>3. Stands(access, history, k, member, FALSE, view, n)
      BY <1>3, <3>2, BelowTail DEF Stands
    <3>4. 0 \in Nat /\ 0 <= 0 + 1
      OBVIOUS
    <3>5. Right(access, history, k, member, 0)
      BY <1>3, <3>1, <3>4, RightTail DEF ViewOk
    <3> QED
      BY <3>3, <3>5 DEF ViewOk
  <2> QED
    BY <1>1, <2>1, <2>2 DEF RowsOk
<1>13. ToldOk'
  <2> SUFFICES ASSUME moved = "told", syncMode = "on-demand"
               PROVE  /\ loaded = "loaded" => Telling(k, b)
                      /\ \A p \in DOMAIN k : IsRows(k[p]) =>
                           \E i \in DOMAIN k : p < i /\ IsTold(k[i])
    BY <1>1 DEF ToldOk
  <2>1. ASSUME loaded = "loaded"
        PROVE  Telling(k, b)
    <3>1. Telling(link, buffered)
      BY <1>2, <2>1 DEF ToldOk
    <3>2. CASE \E i \in DOMAIN buffered : buffered[i].invalidated
      BY <1>6, <3>2 DEF Telling
    <3>3. ASSUME NEW i \in DOMAIN link, IsTold(link[i])
          PROVE  Telling(k, b)
      <4>1. i = 1 \/ i > 1
        BY <1>3 DEF Leaving
      <4>2. CASE i = 1
        BY <1>3, <1>6, <3>3, <4>2 DEF Telling, IsTold
      <4>3. CASE i > 1
        BY <1>3, <3>3, <4>3 DEF Telling, Leaving
      <4> QED
        BY <4>1, <4>2, <4>3
    <3> QED
      BY <3>1, <3>2, <3>3 DEF Telling
  <2>2. ASSUME NEW p \in DOMAIN k, IsRows(k[p])
        PROVE  \E i \in DOMAIN k : p < i /\ IsTold(k[i])
    <3>1. p + 1 \in DOMAIN link /\ IsRows(link[p + 1])
      BY <1>3, <2>2 DEF Leaving
    <3>2. PICK i \in DOMAIN link : p + 1 < i /\ IsTold(link[i])
      BY <1>2, <3>1 DEF ToldOk
    <3> QED
      BY <1>8, <2>2, <3>2 DEF RowsLeft
  <2> QED
    BY <2>1, <2>2
<1> QED
  BY <1>1, <1>2, <1>7, <1>10, <1>11, <1>12, <1>13 DEF VisibilityInv

-----------------------------------------------------------------------------
(***************************************************************************)
(* Catching up: the rows stood for a batch that the answer goes back       *)
(* behind.  Each missed update brings its row to what is shown after it,   *)
(* or says nothing of it.                                                  *)
(***************************************************************************)
CatchUpRows(client, s) ==
  FoldLeft(LAMBDA rows, u : Apply(rows, u, client.loaded = "loaded"), client.view, s)

Steps(t, rows, s, n) == t[0] = rows /\ \A i \in 1..n : t[i] = Apply(t[i - 1], s[i], TRUE)
EndsSteps(rest, rows, s, n) ==
  \E t \in [0..n -> Contents] : Steps(t, rows, s, n) /\ t[n] = rest

LEMMA CatchUpTrace ==
  ASSUME NEW client, client.loaded = "loaded", client.view \in Contents,
         NEW n \in Nat, NEW s, DOMAIN s = 1..n,
         \A i \in 1..n : \A r \in Contents : Apply(r, s[i], TRUE) \in Contents
  PROVE  EndsSteps(CatchUpRows(client, s), client.view, s, n)
<1> DEFINE op(r, i) == Apply(r, s[i], client.loaded = "loaded")
           step == [p \in Contents \X (1..n) |-> op(p[1], p[2])]
<1>20. \A r, i : op(r, i) = Apply(r, s[i], TRUE)
  BY DEF Apply
<1>0. \A r \in Contents, i \in 1..n : op(r, i) \in Contents
  BY <1>20
<1> DEFINE rows == client.view
           D(f) == [e \in SUBSET (DOMAIN s) |->
                      IF e = {} THEN rows
                      ELSE LET x == Max(e) IN Apply(f[e \ {x}], s[x], client.loaded = "loaded")]
           E(f) == [e \in SUBSET (1..n) |->
                      IF e = {} THEN rows ELSE op(f[e \ {Max(e)}], Max(e))]
           fold == CHOOSE f : f = D(f)
<1>4. CatchUpRows(client, s) = fold[1..n]
  BY DEF CatchUpRows, FoldLeft, MapThenFoldSet
<1>5. \A f : D(f) = E(f)
  BY Zenon
<1> HIDE DEF op
<1>1. step \in [Contents \X (1..n) -> Contents]
  BY <1>0
<1>2. \A r \in Contents, i \in 1..n : step[<<r, i>>] = op(r, i)
  OBVIOUS
<1> HIDE DEF step
<1>3. PICK it \in [SUBSET (1..n) -> Contents] : IsFold(it, rows, step, n)
  BY <1>1, FoldExists
<1>6. it = E(it)
  <2>1. \A e \in SUBSET (1..n) : e # {} =>
          Max(e) \in 1..n /\ e \ {Max(e)} \in SUBSET (1..n)
    BY WithoutMax
  <2>2. ASSUME NEW e \in SUBSET (1..n)
        PROVE  it[e] = E(it)[e]
    <3>1. CASE e = {}
      BY <1>3, <3>1 DEF IsFold
    <3>2. CASE e # {}
      <4>1. it[e] = step[<<it[e \ {Max(e)}], Max(e)>>]
        BY <1>3, <3>2 DEF IsFold
      <4> QED
        BY <1>2, <1>3, <2>1, <4>1, <3>2
    <3> QED
      BY <3>1, <3>2
  <2> QED
    BY <1>3, <2>2
<1>7. fold = E(fold)
  <2> HIDE DEF D, E
  <2>1. \E f : f = D(f)
    BY <1>5, <1>6
  <2> QED
    BY <1>5, <2>1
<1> HIDE DEF fold
<1>8. fold[{}] = rows
  <2>1. {} \in SUBSET (1..n)
    OBVIOUS
  <2> QED
    BY <1>7, <2>1
<1>9. ASSUME NEW e \in SUBSET (1..n), e # {}, fold[e \ {Max(e)}] \in Contents
      PROVE  fold[e] = step[<<fold[e \ {Max(e)}], Max(e)>>]
  <2>1. Max(e) \in 1..n
    BY <1>9, WithoutMax
  <2>2. fold[e] = op(fold[e \ {Max(e)}], Max(e))
    BY <1>7, <1>9
  <2> QED
    BY <1>2, <1>9, <2>1, <2>2
<1>10. FoldsOn(fold, Contents, rows, step, n)
  BY <1>8, <1>9 DEF FoldsOn
<1>11. EndsTrace(fold[1..n], Contents, rows, step, n)
  BY <1>1, <1>10, FoldTrace
<1>12. PICK t \in [0..n -> Contents] : IsTrace(t, rows, step, n) /\ t[n] = fold[1..n]
  BY <1>11 DEF EndsTrace
<1>13. \A i \in 1..n : t[i - 1] \in Contents
  OBVIOUS
<1>14. ASSUME NEW i \in 1..n
       PROVE  t[i] = Apply(t[i - 1], s[i], TRUE)
  <2>1. t[i] = step[<<t[i - 1], i>>]
    BY <1>12 DEF IsTrace
  <2> QED
    BY <1>2, <1>13, <1>20, <2>1
<1>15. Steps(t, rows, s, n)
  BY <1>12, <1>14 DEF IsTrace, Steps
<1> QED
  BY <1>4, <1>12, <1>15 DEF EndsSteps

\* A row is what is shown after the batch c + i, or nothing was said of it since c.
Reached(a, h, m, v, row, k, c, i) ==
  \/ row = Shown(a, h, c + i, m)[k]
  \/ row = v[k] /\ \A j \in c..(c + i) : Shown(a, h, j, m)[k] = Shown(a, h, c, m)[k]

\* One more batch.
LEMMA OneMore ==
  ASSUME NEW c \in Nat, NEW i \in Nat, i >= 1
  PROVE  c..(c + i) = (c..(c + (i - 1))) \cup {c + i}
<1>1. ASSUME NEW j \in c..(c + i)
      PROVE  j \in (c..(c + (i - 1))) \cup {c + i}
  <2>1. CASE j = c + i
    BY <2>1
  <2>2. CASE j # c + i
    <3>1. j \in Int /\ c <= j /\ j <= c + i
      BY <1>1
    <3>2. j <= c + (i - 1)
      BY <2>2, <3>1
    <3>3. j \in c..(c + (i - 1))
      BY <3>1, <3>2
    <3> QED
      BY <3>3
  <2> QED
    BY <2>1, <2>2
<1>2. ASSUME NEW j \in c..(c + (i - 1))
      PROVE  j \in c..(c + i)
  BY <1>2
<1>3. c + i \in c..(c + i)
  OBVIOUS
<1> QED
  BY <1>1, <1>2, <1>3, Zenon

LEMMA CatchUpIs ==
  ASSUME NEW a, NEW h \in Seq(Batches), NEW m, NEW msg \in Missed, Catches(a, h, m, msg),
         NEW c, c = msg.watermark - Len(msg.updates), msg.watermark \in 0..Len(h),
         NEW r \in c..msg.watermark, NEW client, client.loaded = "loaded",
         client.view = Shown(a, h, r, m)
  PROVE  CatchUpRows(client, msg.updates) = Shown(a, h, msg.watermark, m)
<1> DEFINE s == msg.updates
           n == Len(s)
           v == client.view
           w == msg.watermark
<1>1. /\ s \in Seq(Batches) /\ n \in Nat /\ DOMAIN s = 1..n /\ Len(h) \in Nat
      /\ c \in Nat /\ w \in Nat /\ w = c + n /\ w \in 0..Len(h) /\ r \in 0..Len(h)
      /\ r \in c..w
  <2>1. s \in Seq(Batches) /\ w \in Nat
    BY DEF Missed
  <2>2. n \in Nat /\ DOMAIN s = 1..n /\ Len(h) \in Nat /\ c \in Nat
    BY <2>1 DEF Catches
  <2> QED
    BY <2>1, <2>2
<1>2. v \in Contents
  BY <1>1, ShownType
<1>3. \A i \in 1..n : Tells(a, h, c + i, m, s[i])
  BY <1>1 DEF Catches
<1> HIDE DEF n, s, v, w
<1>4. ASSUME NEW i \in 1..n, NEW rows \in Contents
      PROVE  Brings(a, h, c + i, m, s[i], rows)
  <2>1. c + i \in Nat /\ c + i # 0
    BY <1>1
  <2> QED
    BY <1>3, <2>1, ApplyIs
<1>5. EndsSteps(CatchUpRows(client, s), v, s, n)
  <2>1. \A i \in 1..n : \A rows \in Contents : Apply(rows, s[i], TRUE) \in Contents
    BY <1>4 DEF Brings
  <2> QED
    BY <1>1, <1>2, <2>1, CatchUpTrace DEF v
<1>6. PICK t \in [0..n -> Contents] : Steps(t, v, s, n) /\ t[n] = CatchUpRows(client, s)
  BY <1>5 DEF EndsSteps
<1>7. ASSUME NEW k \in Keys
      PROVE  \A i \in 0..n : Reached(a, h, m, v, t[i][k], k, c, i)
  <2> DEFINE bad == {i \in 0..n : ~Reached(a, h, m, v, t[i][k], k, c, i)}
  <2> SUFFICES ASSUME bad # {} PROVE FALSE
    OBVIOUS
  <2>1. PICK i \in bad : \A j \in bad : i <= j
    <3>1. bad \in SUBSET Nat
      BY <1>1
    <3> HIDE DEF bad
    <3> QED
      BY <3>1, LeastNumber
  <2>2. Reached(a, h, m, v, t[0][k], k, c, 0)
    <3>1. c + 0 = c /\ c..c = {c} /\ t[0] = v
      BY <1>1, <1>6 DEF Steps
    <3> QED
      BY <3>1 DEF Reached
  <2>3. i \in 1..n /\ i - 1 \in 0..n /\ ~(i <= i - 1)
    BY <1>1, <2>2
  <2>4. Reached(a, h, m, v, t[i - 1][k], k, c, i - 1)
    BY <2>1, <2>3
  <2>5. t[i] = Apply(t[i - 1], s[i], TRUE) /\ t[i - 1] \in Contents
    BY <1>6, <2>3 DEF Steps
  <2>6. Brings(a, h, c + i, m, s[i], t[i - 1])
    BY <1>4, <2>3, <2>5
  <2>7. (c + i) - 1 = c + (i - 1) /\ c..(c + i) = (c..(c + (i - 1))) \cup {c + i}
        /\ c + (i - 1) \in c..(c + (i - 1))
    <3>1. c \in Nat /\ i \in Nat /\ i >= 1
      BY <1>1, <2>3
    <3> HIDE DEF bad
    <3>2. (c + i) - 1 = c + (i - 1) /\ c + (i - 1) \in c..(c + (i - 1))
      BY <3>1
    <3>3. c..(c + i) = (c..(c + (i - 1))) \cup {c + i}
      BY <3>1, OneMore
    <3> QED
      BY <3>2, <3>3
  <2>8. \/ t[i][k] = Shown(a, h, c + i, m)[k]
        \/ t[i][k] = t[i - 1][k] /\ Shown(a, h, c + i, m)[k] = Shown(a, h, c + (i - 1), m)[k]
    BY <2>5, <2>6, <2>7 DEF Brings
  <2>9. Reached(a, h, m, v, t[i][k], k, c, i)
    BY <2>4, <2>7, <2>8 DEF Reached
  <2> QED
    BY <2>1, <2>9
<1>8. \A k \in Keys : t[n][k] = Shown(a, h, w, m)[k]
  <2> SUFFICES ASSUME NEW k \in Keys PROVE t[n][k] = Shown(a, h, w, m)[k]
    OBVIOUS
  <2>1. n \in 0..n /\ w \in c..w
    BY <1>1
  <2>2. Reached(a, h, m, v, t[n][k], k, c, n)
    BY <1>7, <2>1
  <2>3. v = Shown(a, h, r, m)
    BY DEF v
  <2> QED
    BY <1>1, <2>1, <2>2, <2>3 DEF Reached
<1>9. t[n] \in Contents /\ Shown(a, h, w, m) \in Contents
  <2>1. n \in 0..n
    BY <1>1
  <2> QED
    BY <1>1, <2>1, ShownType
<1>10. t[n] = Shown(a, h, w, m)
  BY <1>8, <1>9, SameContents
<1> QED
  BY <1>6, <1>10 DEF s, w

-----------------------------------------------------------------------------
(***************************************************************************)
(* The flush: what was buffered is not newer than the changes that were    *)
(* asked for, so that all of it is dropped.                                *)
(***************************************************************************)
Lost(client) == [client EXCEPT !.moved = "lost"]
IsFlush(t, client, b, n) ==
  t[0] = client /\ \A i \in 1..n : t[i] = Dropped(t[i - 1], b[i])
EndsFlush(rest, client, b, n) ==
  \E t \in [0..n -> {client, Lost(client)}] : IsFlush(t, client, b, n) /\ t[n] = rest

LEMMA FlushTrace ==
  ASSUME NEW v, NEW isLoaded, NEW c \in Int, NEW mv, NEW client,
         client = [view |-> v, loaded |-> isLoaded, cursor |-> c, moved |-> mv],
         NEW n \in Nat, NEW b, DOMAIN b = 1..n,
         \A i \in 1..n : b[i].watermark <= c
  PROVE  EndsFlush(FoldLeft(ApplyBroadcast, client, b), client, b, n)
<1> DEFINE X == {client, Lost(client)}
           step == [p \in X \X (1..n) |-> ApplyBroadcast(p[1], b[p[2]])]
<1>20. \A x \in X : /\ x.cursor = c
                    /\ \A msg : Dropped(x, msg) \in X
  BY DEF Lost, Dropped
<1>21. \A x \in X, i \in 1..n : ApplyBroadcast(x, b[i]) = Dropped(x, b[i])
  BY <1>20 DEF ApplyBroadcast
<1> HIDE DEF X
<1>1. step \in [X \X (1..n) -> X]
  BY <1>20, <1>21
<1>2. \A x \in X, i \in 1..n : step[<<x, i>>] = ApplyBroadcast(x, b[i])
  OBVIOUS
<1> HIDE DEF step
<1>22. client \in X
  BY DEF X
<1>3. PICK it \in [SUBSET (1..n) -> X] : IsFold(it, client, step, n)
  BY <1>1, <1>22, FoldExists
<1> DEFINE D(f) == [s \in SUBSET (DOMAIN b) |->
                      IF s = {} THEN client
                      ELSE LET x == Max(s) IN ApplyBroadcast(f[s \ {x}], b[x])]
           E(f) == [s \in SUBSET (1..n) |->
                      IF s = {} THEN client
                      ELSE ApplyBroadcast(f[s \ {Max(s)}], b[Max(s)])]
           fold == CHOOSE f : f = D(f)
<1>4. FoldLeft(ApplyBroadcast, client, b) = fold[1..n]
  BY DEF FoldLeft, MapThenFoldSet
<1>5. \A f : D(f) = E(f)
  BY Zenon
<1>6. it = E(it)
  <2>1. \A s \in SUBSET (1..n) : s # {} =>
          Max(s) \in 1..n /\ s \ {Max(s)} \in SUBSET (1..n)
    BY WithoutMax
  <2>2. ASSUME NEW s \in SUBSET (1..n)
        PROVE  it[s] = E(it)[s]
    <3>1. CASE s = {}
      BY <1>3, <3>1 DEF IsFold
    <3>2. CASE s # {}
      <4>1. it[s] = step[<<it[s \ {Max(s)}], Max(s)>>]
        BY <1>3, <3>2 DEF IsFold
      <4> QED
        BY <1>2, <1>3, <2>1, <4>1, <3>2
    <3> QED
      BY <3>1, <3>2
  <2> QED
    BY <1>3, <2>2
<1>7. fold = E(fold)
  <2> HIDE DEF D, E
  <2>1. \E f : f = D(f)
    BY <1>5, <1>6
  <2> QED
    BY <1>5, <2>1
<1> HIDE DEF fold
<1>8. fold[{}] = client
  <2>1. {} \in SUBSET (1..n)
    OBVIOUS
  <2> QED
    BY <1>7, <2>1
<1>9. ASSUME NEW s \in SUBSET (1..n), s # {}, fold[s \ {Max(s)}] \in X
      PROVE  fold[s] = step[<<fold[s \ {Max(s)}], Max(s)>>]
  <2>1. Max(s) \in 1..n
    BY <1>9, WithoutMax
  <2>2. fold[s] = ApplyBroadcast(fold[s \ {Max(s)}], b[Max(s)])
    BY <1>7, <1>9
  <2> QED
    BY <1>2, <1>9, <2>1, <2>2
<1>10. FoldsOn(fold, X, client, step, n)
  BY <1>8, <1>9 DEF FoldsOn
<1>11. EndsTrace(fold[1..n], X, client, step, n)
  BY <1>1, <1>10, <1>22, FoldTrace
<1>12. PICK t \in [0..n -> X] : IsTrace(t, client, step, n) /\ t[n] = fold[1..n]
  BY <1>11 DEF EndsTrace
<1>13. \A i \in 1..n : t[i - 1] \in X
  OBVIOUS
<1>14. ASSUME NEW i \in 1..n
       PROVE  t[i] = Dropped(t[i - 1], b[i])
  <2>1. t[i] = step[<<t[i - 1], i>>]
    BY <1>12 DEF IsTrace
  <2> QED
    BY <1>2, <1>13, <1>21, <2>1
<1>15. IsFlush(t, client, b, n)
  BY <1>12, <1>14 DEF IsTrace, IsFlush
<1> QED
  BY <1>4, <1>12, <1>15 DEF EndsFlush, X

\* All that the flush can change is that an invalidation is lost with a broadcast.
Flushed(rest, client, b) ==
  /\ rest = client \/ rest = Lost(client)
  /\ client.loaded = "loaded" /\ rest.moved = "told" =>
       \A i \in DOMAIN b : ~b[i].invalidated

LEMMA FlushIs ==
  ASSUME NEW v, NEW isLoaded, NEW c \in Int, NEW mv, NEW client,
         client = [view |-> v, loaded |-> isLoaded, cursor |-> c, moved |-> mv],
         NEW b \in Seq(Told), \A i \in DOMAIN b : b[i].watermark <= c
  PROVE  Flushed(FoldLeft(ApplyBroadcast, client, b), client, b)
<1> PICK n : n = Len(b)
  OBVIOUS
<1>1. n \in Nat /\ DOMAIN b = 1..n
  OBVIOUS
<1>2. EndsFlush(FoldLeft(ApplyBroadcast, client, b), client, b, n)
  BY <1>1, FlushTrace
<1> PICK rest : rest = FoldLeft(ApplyBroadcast, client, b)
  OBVIOUS
<1>3. PICK t \in [0..n -> {client, Lost(client)}] : IsFlush(t, client, b, n) /\ t[n] = rest
  BY <1>2 DEF EndsFlush
<1>4. n \in 0..n
  BY <1>1
<1>5. rest = client \/ rest = Lost(client)
  BY <1>3, <1>4
<1>6. ASSUME isLoaded = "loaded", NEW i \in 1..n, b[i].invalidated
      PROVE  rest.moved # "told"
  <2>1. \A j \in 0..n : t[j].loaded = "loaded"
    BY <1>3, <1>6 DEF Lost
  <2>2. \A x, msg : (x = client \/ x = Lost(client)) /\ msg.invalidated =>
          Dropped(x, msg).moved # "told"
    BY <1>6 DEF Dropped, Lost
  <2>3. \A x, msg : x.moved # "told" => Dropped(x, msg) = x
    BY DEF Dropped
  <2> DEFINE bad == {j \in i..n : t[j].moved = "told"}
  <2>4. bad = {}
    <3> SUFFICES ASSUME bad # {} PROVE FALSE
      OBVIOUS
    <3>1. PICK j \in bad : \A l \in bad : j <= l
      <4>1. bad \in SUBSET Nat
        BY <1>1
      <4> HIDE DEF bad
      <4> QED
        BY <4>1, LeastNumber
    <3>2. j \in 1..n /\ j - 1 \in 0..n /\ t[j] = Dropped(t[j - 1], b[j])
      BY <1>1, <1>3 DEF IsFlush
    <3>3. CASE j = i
      <4>1. t[j - 1] = client \/ t[j - 1] = Lost(client)
        BY <1>3, <3>2
      <4> QED
        BY <1>6, <2>2, <3>2, <3>3, <4>1
    <3>4. CASE j # i
      <4>1. j - 1 \in i..n /\ ~(j <= j - 1)
        BY <1>1, <3>2, <3>4
      <4>2. t[j - 1].moved # "told"
        BY <3>1, <4>1
      <4>3. t[j] = t[j - 1]
        BY <2>3, <3>2, <4>2
      <4> QED
        BY <4>2, <4>3
    <3> QED
      BY <3>3, <3>4
  <2>5. n \in i..n
    BY <1>1
  <2> QED
    BY <1>3, <2>4, <2>5
<1>7. client.loaded = isLoaded
  OBVIOUS
<1>8. Flushed(rest, client, b)
  BY <1>1, <1>5, <1>6, <1>7 DEF Flushed
<1> QED
  BY <1>8

\* The answer to the request for changes, and the flush.
LEMMA ChangesArrive ==
  ASSUME VisibilityInv, Deliver, IsChanges(Head(link)), ReceiveChanges(Head(link))
  PROVE  VisibilityInv'
<1> PICK msg : msg = Head(link)
  OBVIOUS
<1> PICK k : k = Tail(link)
  OBVIOUS
<1> DEFINE w == msg.watermark
<1>1. /\ link # <<>> /\ link' = k /\ buffered' = <<>> /\ session' = "synchronized"
      /\ access' = access /\ syncMode' = syncMode /\ table' = table /\ member' = member
      /\ history' = history /\ online' = online /\ asking' = asking
  BY DEF Deliver, ReceiveChanges, config, shard
<1>2. Types /\ HistoryOk(history, table) /\ LinkOk(history, link, cursor)
      /\ SessionOk /\ RowsOk /\ ToldOk /\ link \in Seq(Messages) /\ Len(history) \in Nat
      /\ history \in Seq(Batches) /\ buffered \in Seq(Told)
  BY DEF VisibilityInv, LinkOk, HistoryOk, Types
<1>3. Leaving(link, k) /\ k \in Seq(Messages) /\ msg = link[1] /\ IsChanges(link[1])
      /\ 1 \in DOMAIN link
  BY <1>1, <1>2, LeavingIs DEF Leaving
<1>4. ~IsRows(msg) /\ ~IsUpdates(msg) /\ msg \in Missed
  BY <1>3, KindsDiffer DEF Leaving
<1>5. /\ w \in cursor..Len(history) /\ w \in Nat /\ cursor \in Nat /\ cursor <= w
      /\ Below(history, k, w) /\ w \in 0..Len(history)
      /\ \A i \in DOMAIN k : IsUpdates(k[i]) => w < k[i].watermark
  <2>1. /\ w \in cursor..Len(history) /\ w \in Nat
        /\ Below(history, k, w)
        /\ \A i \in DOMAIN k : IsUpdates(k[i]) => w < k[i].watermark
    BY <1>2, <1>3, BelowNext
  <2>2. cursor \in Nat
    BY <1>2 DEF LinkOk
  <2> QED
    BY <2>1, <2>2
<1>6. /\ session = "catching-up" /\ ~asking /\ cursor = w - Len(msg.updates) /\ online
      /\ \A b \in DOMAIN buffered : buffered[b].watermark <= w
  BY <1>1, <1>2, <1>3 DEF SessionOk, Below
<1>19. PICK rows : rows = CatchUpRows(Client, msg.updates)
  OBVIOUS
<1>20. PICK client : client = [view |-> rows, loaded |-> loaded, cursor |-> w, moved |-> moved]
  OBVIOUS
<1>7. CaughtUp(Client, msg) = client
  <2>1. Client = [view |-> view, loaded |-> loaded, cursor |-> cursor, moved |-> moved]
    BY DEF Client
  <2>2. (IF cursor < w THEN w ELSE cursor) = w
    BY <1>5
  <2>3. CaughtUp(Client, msg) =
          [Client EXCEPT !.view = CatchUpRows(Client, msg.updates),
                         !.cursor = IF @ < w THEN w ELSE @]
    BY DEF CaughtUp, CatchUpRows
  <2> QED
    BY <1>19, <1>20, <2>1, <2>2, <2>3
<1>21. PICK rest : rest = FoldLeft(ApplyBroadcast, client, buffered)
  OBVIOUS
<1> HIDE DEF w
<1>8. Flushed(rest, client, buffered)
  <2>1. w \in Int /\ buffered \in Seq(Told)
    BY <1>2, <1>5
  <2>2. \A b \in DOMAIN buffered : buffered[b].watermark <= w
    BY <1>6
  <2>3. Flushed(FoldLeft(ApplyBroadcast, client, buffered), client, buffered)
    BY <1>20, <2>1, <2>2, FlushIs
  <2> QED
    BY <1>21, <2>3
<1>9. view' = rest.view /\ loaded' = rest.loaded /\ cursor' = rest.cursor /\ moved' = rest.moved
  BY <1>7, <1>21 DEF ReceiveChanges, Becomes
<1>10. /\ view' = rows /\ loaded' = loaded /\ cursor' = w
       /\ moved' = moved \/ moved' = "lost"
       /\ loaded = "loaded" /\ moved' = "told" =>
            \A i \in DOMAIN buffered : ~buffered[i].invalidated
  BY <1>8, <1>9, <1>20 DEF Flushed, Lost
<1>11. LinkOk(history, k, w)
  <2>1. w <= link[1].watermark
    BY <1>3, <1>5 DEF w
  <2> QED
    BY <1>2, <1>3, <1>5, <2>1, LinkTail
<1>12. RowsLeft(link, k)
  BY <1>3, <1>4, RowsLeftIs
<1>13. \A q \in DOMAIN k : ~IsChanges(k[q])
  <2> SUFFICES ASSUME NEW q \in DOMAIN k, IsChanges(k[q]) PROVE FALSE
    OBVIOUS
  <2>1. q + 1 \in DOMAIN link /\ IsChanges(link[q + 1]) /\ q \in Nat /\ q >= 1
    BY <1>3 DEF Leaving
  <2>2. q + 1 = 1
    BY <1>2, <1>3, <2>1 DEF LinkOk
  <2> QED
    BY <2>1, <2>2
<1>14. SessionOk'
  BY <1>1, <1>2, <1>6, <1>10, <1>12, <1>13 DEF SessionOk, RowsLeft
<1>15. Types'
  BY <1>1, <1>2, <1>10 DEF Types
<1>16. RowsOk'
  <2>1. moved = "no" => AnswersOk(access, history, k, member)
    BY <1>2, <1>3, AnswersTail DEF RowsOk
  <2>2. ASSUME moved = "no", loaded = "loaded"
        PROVE  ViewOk(access, history, k, member, w, TRUE, rows)
    <3>1. ViewOk(access, history, link, member, cursor, session = "synchronized", view)
      BY <1>2, <2>2 DEF RowsOk
    <3>2. PICK n \in cursor..Len(history) :
            Stands(access, history, link, member, session = "synchronized", view, n)
      BY <3>1 DEF ViewOk
    <3>3. view = Shown(access, history, n, member) /\ n <= w
      BY <1>3, <3>2 DEF Stands, Below, w
    <3>4. RightAt(access, history, link, member, 1)
      <4>1. 0 < 1
        OBVIOUS
      <4> QED
        BY <1>3, <3>1, <4>1 DEF ViewOk, Right
    <3>5. Catches(access, history, member, msg)
          /\ Follows(access, history, link, member, 0 + 1, w)
      BY <1>3, <3>4 DEF RightAt, w
    <3>6. rows = Shown(access, history, w, member)
      <4>1. Client.loaded = "loaded" /\ Client.view = Shown(access, history, n, member)
        BY <2>2, <3>3 DEF Client
      <4>2. n \in cursor..w
        BY <1>5, <3>3
      <4>3. /\ msg.watermark = w /\ msg.watermark \in 0..Len(history)
            /\ cursor = msg.watermark - Len(msg.updates)
            /\ n \in cursor..msg.watermark
        BY <1>5, <1>6, <4>2 DEF w
      <4>4. Catches(access, history, member, msg) /\ msg \in Missed
            /\ history \in Seq(Batches)
        BY <1>2, <1>4, <3>5
      <4>5. CatchUpRows(Client, msg.updates) = Shown(access, history, msg.watermark, member)
        BY <4>1, <4>3, <4>4, CatchUpIs
      <4> QED
        BY <1>19, <4>3, <4>5
    <3>7. Follows(access, history, k, member, 0, w)
      BY <1>3, <3>5, FollowsTail
    <3>8. Right(access, history, k, member, 0)
      <4>1. 0 \in Nat /\ 0 <= 0 + 1
        OBVIOUS
      <4> QED
        BY <1>3, <3>1, <4>1, RightTail DEF ViewOk
    <3>9. Stands(access, history, k, member, TRUE, rows, w)
      BY <1>5, <3>6, <3>7 DEF Stands
    <3>10. w \in w..Len(history)
      BY <1>5
    <3> QED
      BY <3>8, <3>9, <3>10 DEF ViewOk
  <2> QED
    BY <1>1, <1>10, <2>1, <2>2 DEF RowsOk
<1>17. ToldOk'
  <2> SUFFICES ASSUME moved' = "told", syncMode = "on-demand"
               PROVE  /\ loaded = "loaded" => Telling(k, <<>>)
                      /\ \A p \in DOMAIN k : IsRows(k[p]) =>
                           \E i \in DOMAIN k : p < i /\ IsTold(k[i])
    BY <1>1, <1>10 DEF ToldOk
  <2>1. moved = "told"
    BY <1>10
  <2>2. ASSUME loaded = "loaded"
        PROVE  Telling(k, <<>>)
    <3>1. PICK i \in DOMAIN link : IsTold(link[i])
      BY <1>2, <1>10, <2>1, <2>2 DEF ToldOk, Telling
    <3>2. i > 1
      BY <1>3, <1>4, <3>1 DEF IsTold, Leaving
    <3> QED
      BY <1>3, <3>1, <3>2 DEF Telling, Leaving
  <2>3. ASSUME NEW p \in DOMAIN k, IsRows(k[p])
        PROVE  \E i \in DOMAIN k : p < i /\ IsTold(k[i])
    <3>1. p + 1 \in DOMAIN link /\ IsRows(link[p + 1])
      BY <1>3, <2>3 DEF Leaving
    <3>2. PICK i \in DOMAIN link : p + 1 < i /\ IsTold(link[i])
      BY <1>2, <2>1, <3>1 DEF ToldOk
    <3> QED
      BY <1>12, <2>3, <3>2 DEF RowsLeft
  <2> QED
    BY <2>2, <2>3
<1> QED
  BY <1>1, <1>2, <1>10, <1>11, <1>14, <1>15, <1>16, <1>17 DEF VisibilityInv

LEMMA DeliverInv ==
  ASSUME VisibilityInv, Deliver
  PROVE  VisibilityInv'
BY RowsArrive, UpdatesArrive, UpdatesWait, ChangesArrive
   DEF Deliver, IsRows, IsUpdates, IsChanges

-----------------------------------------------------------------------------
(* The socket.                                                             *)
LEMMA NoLink ==
  ASSUME NEW h, NEW c \in Nat, c <= Len(h)
  PROVE  LinkOk(h, <<>>, c)
<1>1. <<>> \in Seq(Messages) /\ DOMAIN <<>> = {}
  OBVIOUS
<1> QED
  BY <1>1 DEF LinkOk

LEMMA DisconnectInv ==
  ASSUME VisibilityInv, Disconnect
  PROVE  VisibilityInv'
<1>1. /\ online' = FALSE /\ session' = "disconnected" /\ asking' = FALSE /\ link' = <<>>
      /\ loaded' = (IF loaded = "asked" THEN "none" ELSE loaded)
      /\ moved' = (IF moved = "told" THEN "lost" ELSE moved)
      /\ access' = access /\ syncMode' = syncMode /\ table' = table /\ member' = member
      /\ history' = history /\ buffered' = buffered /\ view' = view /\ cursor' = cursor
  BY DEF Disconnect, config, shard
<1>2. Types /\ HistoryOk(history, table) /\ LinkOk(history, link, cursor)
      /\ SessionOk /\ RowsOk /\ ToldOk
  BY DEF VisibilityInv
<1>3. DOMAIN <<>> = {}
  OBVIOUS
<1>4. LinkOk(history, <<>>, cursor)
  BY <1>2, NoLink DEF LinkOk
<1>5. \A n : Below(history, link, n) => Below(history, <<>>, n)
  BY <1>3 DEF Below
<1>6. Types' /\ SessionOk' /\ ToldOk'
  BY <1>1, <1>2, <1>3, <1>5 DEF Types, SessionOk, ToldOk
<1>7. AnswersOk(access, history, <<>>, member) /\ Right(access, history, <<>>, member, 0)
  BY <1>3 DEF AnswersOk, Right
<1>8. ASSUME moved = "no", loaded = "loaded"
      PROVE  ViewOk(access, history, <<>>, member, cursor, FALSE, view)
  <2>1. PICK n \in cursor..Len(history) :
          Stands(access, history, link, member, session = "synchronized", view, n)
    BY <1>2, <1>8 DEF RowsOk, ViewOk
  <2>2. Stands(access, history, <<>>, member, FALSE, view, n)
    BY <1>5, <2>1 DEF Stands
  <2> QED
    BY <1>7, <2>2 DEF ViewOk
<1>9. RowsOk'
  BY <1>1, <1>7, <1>8 DEF RowsOk
<1> QED
  BY <1>1, <1>2, <1>4, <1>6, <1>9 DEF VisibilityInv

LEMMA ReconnectInv ==
  ASSUME VisibilityInv, Reconnect
  PROVE  VisibilityInv'
<1>1. /\ online' = TRUE /\ link' = link
      /\ access' = access /\ syncMode' = syncMode /\ table' = table /\ member' = member
      /\ history' = history /\ session' = session /\ asking' = asking
      /\ buffered' = buffered /\ view' = view /\ loaded' = loaded /\ cursor' = cursor
      /\ moved' = moved
  BY DEF Reconnect, config, shard, subscriber
<1>2. SessionOk'
  BY <1>1 DEF VisibilityInv, SessionOk
<1> QED
  BY <1>1, <1>2 DEF VisibilityInv, Types, RowsOk, ToldOk

LEMMA RecoverInv ==
  ASSUME VisibilityInv, Recover
  PROVE  VisibilityInv'
<1>1. /\ online /\ session = "disconnected" /\ session' = "catching-up" /\ asking' = TRUE
      /\ access' = access /\ syncMode' = syncMode /\ table' = table /\ member' = member
      /\ history' = history /\ link' = link /\ online' = online
      /\ buffered' = buffered /\ view' = view /\ loaded' = loaded /\ cursor' = cursor
      /\ moved' = moved
  BY DEF Recover, config, shard, subscriber
<1>2. SessionOk'
  BY <1>1 DEF VisibilityInv, SessionOk
<1>3. (session = "synchronized") = (session' = "synchronized")
  BY <1>1
<1>4. RowsOk'
  BY <1>1, <1>3 DEF VisibilityInv, RowsOk
<1> QED
  BY <1>1, <1>2, <1>4 DEF VisibilityInv, Types, ToldOk

LEMMA InitInv ==
  ASSUME Init
  PROVE  VisibilityInv
<1>1. /\ access \in AccessRules /\ syncMode \in SyncModes /\ member \in Referenced
      /\ table = [k \in Keys |-> NoRow] /\ history = <<>> /\ link = <<>> /\ online = TRUE
      /\ session = "synchronized" /\ asking = FALSE /\ buffered = <<>>
      /\ view = [k \in Keys |-> NoRow] /\ loaded \in {"none", "loaded"}
      /\ cursor = 0 /\ moved = "no"
  BY DEF Init, Referenced
<1>2. <<>> \in Seq(Batches) /\ <<>> \in Seq(Told) /\ DOMAIN <<>> = {} /\ Len(<<>>) = 0
      /\ 0 \in 0..0 /\ (0 + 1)..0 = {}
  OBVIOUS
<1>3. HistoryOk(history, table)
  BY <1>1, <1>2, AfterNone DEF HistoryOk
<1>4. LinkOk(history, link, cursor)
  BY <1>1, <1>2, NoLink
<1>5. Types /\ SessionOk /\ ToldOk
  BY <1>1, <1>2 DEF Types, SessionOk, ToldOk
<1>6. view = Shown(access, history, 0, member)
  <2>1. ~Visible(access, NoRow, member)
    BY <1>1, RuleIs
  <2>2. \A k \in Keys : After(history, 0)[k] = NoRow
    BY AfterNone
  <2> QED
    BY <1>1, <2>1, <2>2 DEF Shown, ShownRow
<1>7. /\ AnswersOk(access, history, link, member)
      /\ ViewOk(access, history, link, member, cursor, session = "synchronized", view)
  <2>1. Below(history, link, 0)
    BY <1>1, <1>2 DEF Below
  <2>2. Follows(access, history, link, member, 0, 0)
    BY <1>1, <1>2 DEF Follows
  <2>3. Stands(access, history, link, member, session = "synchronized", view, 0)
    BY <1>1, <1>2, <1>6, <2>1, <2>2 DEF Stands
  <2> QED
    BY <1>1, <1>2, <2>3 DEF AnswersOk, ViewOk, Right
<1>8. RowsOk
  BY <1>7 DEF RowsOk
<1> QED
  BY <1>3, <1>4, <1>5, <1>8 DEF VisibilityInv

LEMMA StepInv ==
  ASSUME VisibilityInv, ~StaleOriginals, [Next]_vars
  PROVE  VisibilityInv'
<1>1. CASE PushTodo
  BY <1>1, PushTodoInv
<1>2. CASE PushMember
  BY <1>2, PushMemberInv
<1>3. CASE Load
  BY <1>3, LoadInv
<1>4. CASE AnswerChanges
  BY <1>4, AnswerChangesInv
<1>5. CASE ChangesFail
  BY <1>5, ChangesFailInv
<1>6. CASE Deliver
  BY <1>6, DeliverInv
<1>7. CASE Disconnect
  BY <1>7, DisconnectInv
<1>8. CASE Reconnect
  BY <1>8, ReconnectInv
<1>9. CASE Recover
  BY <1>9, RecoverInv
<1>10. CASE UNCHANGED vars
  <2>1. /\ access' = access /\ syncMode' = syncMode /\ table' = table /\ member' = member
        /\ history' = history /\ link' = link /\ online' = online /\ session' = session
        /\ asking' = asking /\ buffered' = buffered /\ view' = view
        /\ loaded' = loaded /\ cursor' = cursor /\ moved' = moved
    BY <1>10 DEF vars, config, shard, connection, subscriber
  <2> QED
    BY <2>1 DEF VisibilityInv, Types, SessionOk, RowsOk, ToldOk
<1> QED
  BY <1>1, <1>2, <1>3, <1>4, <1>5, <1>6, <1>7, <1>8, <1>9, <1>10 DEF Next

(***************************************************************************)
(* When writers know the rows they write, the rows of a subscriber stand   *)
(* for a batch that its cursor has not passed, the messages under way tell *)
(* rightly of what follows, and what they leave out shows nothing, through *)
(* lost sockets, the window of a catch-up and its flush (publish,          *)
(* authorizeReadQuery, readChanges, recover, applyBroadcast).              *)
(***************************************************************************)
THEOREM VisibilityInvariance ==
  ASSUME ~StaleOriginals
  PROVE  Spec => []VisibilityInv
<1>1. Init => VisibilityInv
  BY InitInv
<1>2. VisibilityInv /\ [Next]_vars => VisibilityInv'
  BY StepInv
<1> QED
  BY <1>1, <1>2, PTL DEF Spec

(***************************************************************************)
(* A subscriber that has loaded and has nothing under way sees exactly the *)
(* rows that the rule, read directly, allows at present, as long as the    *)
(* rule decides as it did when the rows were read, or the invalidation was *)
(* not lost (publish, visibleUpdateForAuth, readChanges, recover,          *)
(* applyCollectionBroadcast).                                              *)
(***************************************************************************)
THEOREM ViewIsExactHolds ==
  ASSUME ~StaleOriginals
  PROVE  Spec => []ViewIsExact
<1>1. VisibilityInv => ViewIsExact
  <2> SUFFICES ASSUME VisibilityInv, AtRest, loaded = "loaded",
                      IF syncMode = "eager" THEN moved = "no" ELSE moved # "lost",
                      NEW k \in Keys
               PROVE  view[k] = IF /\ table[k] # NoRow
                                   /\ Permits(access.read, table[k], References(member))
                                THEN table[k] ELSE NoRow
    BY DEF ViewIsExact
  <2>1. Types /\ HistoryOk(history, table) /\ LinkOk(history, link, cursor)
        /\ SessionOk /\ RowsOk /\ ToldOk
    BY DEF VisibilityInv
  <2>2. session = "synchronized" /\ link = <<>> /\ buffered = <<>> /\ DOMAIN <<>> = {}
    BY <2>1 DEF AtRest, SessionOk
  <2>3. moved = "no"
    <3>1. syncMode = "eager" \/ syncMode = "on-demand"
      BY <2>1, VisibilityAssumption DEF Types
    <3>2. ~Telling(link, buffered)
      BY <2>2 DEF Telling
    <3>3. moved \in {"no", "told", "lost"}
      BY <2>1 DEF Types
    <3> QED
      BY <2>1, <3>1, <3>2, <3>3 DEF ToldOk
  <2>4. cursor \in Nat /\ Len(history) \in Nat /\ history \in Seq(Batches)
    BY <2>1 DEF LinkOk, HistoryOk
  <2>5. PICK n \in cursor..Len(history) :
          view = Shown(access, history, n, member)
          /\ Follows(access, history, <<>>, member, 0, n)
    BY <2>1, <2>2, <2>3 DEF RowsOk, ViewOk, Stands
  <2>6. \A i \in (n + 1)..Len(history) : Silent(access, history, i, member)
    BY <2>2, <2>5 DEF Follows, Carries
  <2>7. view = Shown(access, history, Len(history), member)
    <3>1. n \in Nat /\ n <= Len(history)
      BY <2>4
    <3> QED
      BY <2>4, <2>5, <2>6, <3>1, SilentGap
  <2>8. table \in Contents /\ table = After(history, Len(history))
    <3>1. Len(history) \in 0..Len(history)
      BY <2>4
    <3> QED
      BY <2>1, <2>4, <3>1, AfterType DEF HistoryOk
  <2>9. view[k] = ShownRow(access, table[k], member) /\ table[k] \in Rows
    BY <2>7, <2>8 DEF Shown, Contents
  <2>10. /\ ~Visible(access, NoRow, member)
         /\ \A row \in Todos :
              Visible(access, row, member) <=> Permits(access.read, row, References(member))
    BY <2>1, RuleIs DEF Types
  <2> QED
    BY <2>9, <2>10 DEF ShownRow, Rows
<1> QED
  BY <1>1, VisibilityInvariance, PTL

(***************************************************************************)
(* An on-demand subscriber whose rows the rule no longer decides as it did *)
(* has the invalidation on its link or in its buffer, unless it was lost   *)
(* there (subscribedInvalidations, publish, receive, applyBroadcast).      *)
(***************************************************************************)
THEOREM InvalidationsArriveHolds ==
  ASSUME ~StaleOriginals
  PROVE  Spec => []InvalidationsArrive
<1>1. Telling(link, buffered) => ToldUnderWay
  BY DEF Telling, ToldUnderWay, IsTold, IsUpdates
<1>2. VisibilityInv => InvalidationsArrive
  BY <1>1 DEF VisibilityInv, ToldOk, InvalidationsArrive
<1> QED
  BY <1>2, VisibilityInvariance, PTL
=============================================================================
