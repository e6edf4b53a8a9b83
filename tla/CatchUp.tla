------------------------------- MODULE CatchUp -------------------------------
(***************************************************************************)
(* A client that catches up from the change history, page by page, while   *)
(* other clients push and the history is pruned: the loop of               *)
(* SyncSession.recover (packages/tanstack-db/src/sync-session.ts) against  *)
(* readSQLiteJsonChanges (packages/server/src/history.ts), for any set of  *)
(* collections in one request, as SyncChangesQuery allows.                 *)
(*                                                                         *)
(* A page is read between two transactions of the shard, never inside one. *)
(***************************************************************************)
EXTENDS History

CONSTANT PageLimit      \* the limit of a request, 1000 in recover

ASSUME CatchUpAssumption == PageLimit \in Nat \ {0}

VARIABLES
  status,   \* "away", "reading", "done", or "stale" (resyncRequired)
  start,    \* the cursors the client came back with
  cursors,  \* the cursors of its next request
  got       \* the sequence numbers of the updates it has received

reader == <<status, start, cursors, got>>
allVars == <<vars, reader>>

CInit ==
  /\ Init
  /\ status = "away" /\ start = <<>> /\ cursors = <<>> /\ got = {}

(* A client comes back with a cursor for each of its collections.          *)
ComeBack(from) ==
  /\ status # "reading" /\ phase = "idle"
  /\ status' = "reading"
  /\ start' = from /\ cursors' = from /\ got' = {}
  /\ UNCHANGED vars

Page == ReadChanges(disk.changes, disk.latest, cursors, PageLimit)

Larger(m, n) == IF m > n THEN m ELSE n

(* Mutant of ReadPage: every page moves the cursors to the watermark.      *)
ReadPageToWatermark ==
  /\ status = "reading" /\ phase = "idle"
  /\ IF Page.type = "resyncRequired"
     THEN status' = "stale" /\ UNCHANGED <<cursors, got>>
     ELSE /\ status' = IF Page.hasMore THEN "reading" ELSE "done"
          /\ cursors' = [s \in DOMAIN cursors |->
                           Larger(cursors[s], Page.watermark)]
          /\ got' = got \cup SeqNumbers(Page.updates)
  /\ UNCHANGED <<vars, start>>

(* Mutant of ReadPage: the cursors are left where they were.               *)
ReadPageStaying ==
  /\ status = "reading" /\ phase = "idle"
  /\ IF Page.type = "resyncRequired"
     THEN status' = "stale" /\ UNCHANGED <<cursors, got>>
     ELSE /\ status' = IF Page.hasMore THEN "reading" ELSE "done"
          /\ got' = got \cup SeqNumbers(Page.updates)
          /\ UNCHANGED cursors
  /\ UNCHANGED <<vars, start>>

(* One pass of the loop of recover: the cursor never moves back, it        *)
(* follows the page, and the loop ends with the last page.                 *)
ReadPage ==
  /\ status = "reading" /\ phase = "idle"
  /\ IF Page.type = "resyncRequired"
     THEN status' = "stale" /\ UNCHANGED <<cursors, got>>
     ELSE /\ status' = IF Page.hasMore THEN "reading" ELSE "done"
          /\ cursors' = [s \in DOMAIN cursors |->
                           Larger(cursors[s], Page.cursors[s])]
          /\ got' = got \cup SeqNumbers(Page.updates)
  /\ UNCHANGED <<vars, start>>

(* The connection is lost: recover rejects, to start again later.          *)
GoAway ==
  /\ status = "reading"
  /\ status' = "away" /\ UNCHANGED <<vars, start, cursors, got>>

Cursors == UNION {[wanted -> 0..disk.lastSeq] : wanted \in SUBSET Scopes}

CNext ==
  \/ Next /\ UNCHANGED reader
  \/ \E from \in Cursors : ComeBack(from)
  \/ ReadPage \/ GoAway

CSpec == CInit /\ [][CNext]_allVars

-----------------------------------------------------------------------------
(***************************************************************************)
(* Properties.                                                             *)
(***************************************************************************)
Applied(s, from, to) ==
  {a.seq : a \in {b \in disk.applied :
                    b.update.scope = s /\ from < b.seq /\ b.seq <= to}}

(* However many pushes and prunings fall between its pages, a client has   *)
(* received every update of its collections between the cursor it came     *)
(* back with and the cursor it now holds: a cursor never jumps over an     *)
(* update.                                                                 *)
NothingSkipped ==
  \A s \in DOMAIN cursors : Applied(s, start[s], cursors[s]) \subseteq got

(* A client receives only updates of the collections it asked for, from    *)
(* after the cursors it came back with.                                    *)
NothingForeign ==
  \A n \in got : \E s \in DOMAIN cursors : n \in Applied(s, start[s], n)

(* When a page says that there is no more, the client has everything that  *)
(* was ever applied to its collections after the cursors it came with.     *)
LastPageIsLast ==
  [][(status = "reading" /\ status' = "done") =>
       \A s \in DOMAIN cursors :
         Applied(s, start[s], disk.lastSeq) \subseteq got']_allVars

(* No update is handed out twice in one catch-up, and a page that is not   *)
(* the last one moves a cursor forward: for one collection the error       *)
(* "Sync history cursor did not advance" (sync-session.ts:114) is          *)
(* unreachable, and the loop cannot spin on one page.                      *)
PagesAdvance ==
  [][ReadPage /\ Page.type = "changes" =>
       /\ SeqNumbers(Page.updates) \cap got = {}
       /\ Page.hasMore => \E s \in DOMAIN cursors : cursors'[s] > cursors[s]
    ]_allVars
=============================================================================
