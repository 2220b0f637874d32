--------------------------- MODULE ArchiveRetention ---------------------------
(***************************************************************************)
(* One candle partition (a venue and a UTC day) on its way from PostgreSQL *)
(* to an immutable Parquet file and out of PostgreSQL again: archive.py,   *)
(* retention.py and maintenance.py, together with the two writers that     *)
(* touch the partition meanwhile, the live candle writer                   *)
(* (candle_store.py) and the recovery of missing candles                   *)
(* (candle_recovery_store.py).                                             *)
(*                                                                         *)
(* The maintenance command holds an exclusive lock, so one run at a time   *)
(* is modelled; each of its transactions, and each file operation between  *)
(* them, is a step, and the process may die between any two.  The rows of  *)
(* one venue all have the same finality, so of two versions of a candle    *)
(* the one observed later wins; a row is modelled by when it was observed. *)
(***************************************************************************)
EXTENDS Integers, FiniteSets, FiniteSetsExt, Sequences

CONSTANTS
  Bucket,         \* the minutes of the day, as clock values
  DayEnd,         \* the first minute of the next day
  Retention,      \* NORMALIZED_RETENTION
  LiveReach,      \* how old a candle may be when the live writer stores it
  BatchSize,      \* DEFAULT_DELETE_BATCH_SIZE
  KeptFiles,      \* superseded files that stay on disk (OFFSET 3)
  NoRow,          \* no row; also no transaction of the recovery
  MaxClock,       \* bound: the latest clock value
  MaxGeneration   \* bound: archive generations in one behaviour

ASSUME ArchiveAssumption ==
  /\ Bucket \subseteq Nat /\ IsFiniteSet(Bucket)
  /\ DayEnd \in Nat /\ \A b \in Bucket : b < DayEnd
  /\ Retention \in Nat /\ LiveReach \in Nat /\ DayEnd + LiveReach <= Retention
  /\ BatchSize \in Nat \ {0}
  /\ KeptFiles \in Nat
  /\ NoRow \notin Nat

VARIABLES
  clock,
  db,          \* candle_1m: Bucket -> when the stored row was observed
  incoming,    \* live candles observed and not yet stored
  recovery,    \* the recovery's candle on its way into the database
  manifests,   \* archive_manifests, by generation
  files,       \* generations whose Parquet file is in the archive
  pc,          \* the step of the maintenance run
  cutoff,      \* the run's `now` - NORMALIZED_RETENTION
  fetched,     \* the rows _fetch_partition read
  stamp,       \* _confirm_manifest's confirmed_at
  refreshed,   \* _drain_archived_retention's `rearchived`
  deleted,     \* history: the rows retention deleted
  overlooked,  \* history: a row was stored that no confirmation time tells apart
  overlapped   \* history: a recovery transaction overlapped a deletion

dbVars == <<db, manifests>>
runVars == <<pc, cutoff, fetched, stamp, refreshed>>
historyVars == <<deleted, overlooked, overlapped>>
vars == <<clock, dbVars, incoming, recovery, files, runVars, historyVars>>

Row == Nat \cup {NoRow}

Manifest ==
  [status: {"staged", "confirmed", "superseded", "failed"},
   rows: [Bucket -> Row],
   confirmedAt: Nat]

Recovered ==
  [bucket: Bucket, observed: Nat, checked: BOOLEAN, share: Nat]

Empty == [b \in Bucket |-> NoRow]

TypeOK ==
  /\ clock \in Nat
  /\ db \in [Bucket -> Row]
  /\ incoming \subseteq Bucket \X Nat
  /\ recovery \in Recovered \cup {NoRow}
  /\ manifests \in Seq(Manifest)
  /\ files \subseteq DOMAIN manifests
  /\ pc \in {"idle", "archive", "fetch", "stage", "publish", "confirm", "undo", "drop",
             "prune", "delete"}
  /\ cutoff \in Int
  /\ fetched \in [Bucket -> Row]
  /\ stamp \in Nat
  /\ refreshed \in BOOLEAN
  /\ deleted \subseteq Bucket \X Nat
  /\ overlooked \in BOOLEAN
  /\ overlapped \in BOOLEAN

Init ==
  /\ clock = 0
  /\ db = Empty
  /\ incoming = {}
  /\ recovery = NoRow
  /\ manifests = <<>>
  /\ files = {}
  /\ pc = "idle"
  /\ cutoff = 0
  /\ fetched = Empty
  /\ stamp = 0
  /\ refreshed = FALSE
  /\ deleted = {}
  /\ overlooked = FALSE
  /\ overlapped = FALSE

-----------------------------------------------------------------------------
Stored(rows) == {b \in Bucket : rows[b] # NoRow}

Count(rows) == Cardinality(Stored(rows))

Confirmed == {g \in DOMAIN manifests : manifests[g].status = "confirmed"}

(* The generation whose manifest is confirmed and not superseded, or 0. *)
Active == IF Confirmed = {} THEN 0 ELSE Max(Confirmed)

(* _has_late_correction, and latest_observed_at > confirmed_at *)
Late == \E b \in Stored(db) : db[b] > manifests[Active].confirmedAt

(* Rows are missing: "archive retention has started for this day". *)
RetentionStarted == Active # 0 /\ Count(db) < Count(manifests[Active].rows)

(* A row stored while an archive run is between its SELECT and its            *)
(* confirmation, or observed before the confirmation it missed.               *)
Unnoticed(observed) ==
  \/ pc \in {"stage", "publish", "confirm"}
  \/ Active # 0 /\ observed <= manifests[Active].confirmedAt

-----------------------------------------------------------------------------
(* The live candle writer *)

(* A stream delivers a candle that is over; it waits in the writer's queue. *)
Observe(b) ==
  /\ b < clock /\ clock - b <= LiveReach
  /\ incoming = {}
  /\ incoming' = {<<b, clock>>}
  /\ UNCHANGED <<clock, dbVars, recovery, files, runVars, historyVars>>

(* upsert_candles: insert, or replace a row that was observed earlier. *)
StoreLive(b, observed) ==
  /\ <<b, observed>> \in incoming
  /\ clock - b <= LiveReach
  /\ incoming' = {}
  /\ IF db[b] = NoRow \/ db[b] \in 0..(observed - 1)
     THEN /\ db' = [db EXCEPT ![b] = observed]
          /\ overlooked' = (overlooked \/ Unnoticed(observed))
     ELSE UNCHANGED <<db, overlooked>>
  /\ UNCHANGED <<clock, manifests, recovery, files, runVars, deleted, overlapped>>

(* The service stops before the candle is stored. *)
LoseLive ==
  /\ incoming # {}
  /\ incoming' = {}
  /\ UNCHANGED <<clock, dbVars, recovery, files, runVars, historyVars>>

-----------------------------------------------------------------------------
(* The recovery of missing candles *)

(* A candle that is missing and not older than the retention is downloaded. *)
Download(b) ==
  /\ recovery = NoRow
  /\ b < clock /\ clock - b <= Retention
  /\ db[b] = NoRow
  /\ recovery' = [bucket |-> b, observed |-> clock, checked |-> FALSE, share |-> 0]
  /\ UNCHANGED <<clock, dbVars, incoming, files, runVars, historyVars>>

(***************************************************************************)
(* insert_missing_candles locks the confirmed manifest FOR SHARE and       *)
(* counts the day's rows.  The lock keeps the manifest from being          *)
(* superseded; the retention takes the same, compatible lock.              *)
(***************************************************************************)
CheckRecovery ==
  /\ recovery # NoRow /\ ~recovery.checked
  /\ recovery' = IF RetentionStarted THEN NoRow
                 ELSE [recovery EXCEPT !.checked = TRUE, !.share = Active]
  /\ UNCHANGED <<clock, dbVars, incoming, files, runVars, historyVars>>

InsertRecovered ==
  /\ recovery # NoRow /\ recovery.checked
  /\ recovery' = NoRow
  /\ IF db[recovery.bucket] = NoRow
     THEN /\ db' = [db EXCEPT ![recovery.bucket] = recovery.observed]
          /\ overlooked' = (overlooked \/ Unnoticed(recovery.observed))
          /\ overlapped' = (overlapped \/ pc = "delete")
     ELSE UNCHANGED <<db, overlooked, overlapped>>
  /\ UNCHANGED <<clock, manifests, incoming, files, runVars, deleted>>

(* The recovery fails or is cancelled, and its transaction is rolled back. *)
DropRecovery ==
  /\ recovery # NoRow
  /\ recovery' = NoRow
  /\ UNCHANGED <<clock, dbVars, incoming, files, runVars, historyVars>>

-----------------------------------------------------------------------------
(* The maintenance run *)

Go(next) ==
  /\ pc' = next
  /\ UNCHANGED <<cutoff, fetched, stamp, refreshed>>

(* The run is over, or failed: nothing of it but its effects remains. *)
EndRun ==
  /\ pc' = "idle"
  /\ cutoff' = 0
  /\ fetched' = Empty
  /\ stamp' = 0
  /\ refreshed' = FALSE

(* The partition may be among the dates this run archives or left to a later one. *)
StartRun ==
  /\ pc = "idle"
  /\ clock >= DayEnd
  /\ pc' \in {"archive", "prune"}
  /\ cutoff' = clock - Retention
  /\ UNCHANGED <<clock, dbVars, incoming, recovery, files, fetched, stamp, refreshed, historyVars>>

(* _archive_present_partitions: archive what is new, refuse what was deleted. *)
Inspect ==
  /\ pc = "archive"
  /\ \/ /\ Stored(db) = {} \/ (Active # 0 /\ ~Late)
        /\ Go("prune")
     \/ /\ Stored(db) # {} /\ (Active # 0 => Late)
        /\ IF RetentionStarted THEN EndRun ELSE Go("fetch")
  /\ UNCHANGED <<clock, dbVars, incoming, recovery, files, historyVars>>

(* _fetch_partition, and the staging file that is written and read back. *)
Fetch ==
  /\ pc = "fetch"
  /\ fetched' = db
  /\ pc' = "stage"
  /\ UNCHANGED <<clock, dbVars, incoming, recovery, files, cutoff, stamp, refreshed, historyVars>>

(* _stage_manifest: the next generation. *)
Stage ==
  /\ pc = "stage"
  /\ Len(manifests) < MaxGeneration
  /\ manifests' = Append(manifests, [status |-> "staged", rows |-> fetched, confirmedAt |-> 0])
  /\ Go("publish")
  /\ UNCHANGED <<clock, db, incoming, recovery, files, historyVars>>

(* The staging file is renamed to its final path; confirmed_at is read. *)
Publish ==
  /\ pc = "publish"
  /\ files' = files \cup {Len(manifests)}
  /\ stamp' = clock
  /\ pc' = "confirm"
  /\ UNCHANGED <<clock, dbVars, incoming, recovery, cutoff, fetched, refreshed, historyVars>>

Supersede(all) ==
  [g \in DOMAIN all |-> IF all[g].status = "confirmed"
                        THEN [all[g] EXCEPT !.status = "superseded"] ELSE all[g]]

Switched ==
  [Supersede(manifests) EXCEPT ![Len(manifests)].status = "confirmed",
                               ![Len(manifests)].confirmedAt = stamp]

(* The old manifest's row lock is free. *)
Unshared == recovery # NoRow => recovery.share = 0

Confirm ==
  /\ pc = "confirm"
  /\ Unshared
  /\ manifests' = Switched
  /\ Go("drop")
  /\ UNCHANGED <<clock, db, incoming, recovery, files, historyVars>>

(* The rename or the transaction fails; the commit may have got through all the same. *)
ArchiveFails ==
  /\ pc \in {"publish", "confirm"}
  /\ manifests' \in IF pc = "confirm" /\ Unshared THEN {manifests, Switched} ELSE {manifests}
  /\ Go("undo")
  /\ UNCHANGED <<clock, db, incoming, recovery, files, historyVars>>

(* Mutant: the file goes, whatever became of the manifest. *)
UndoMutant ==
  /\ pc = "undo"
  /\ LET g == Len(manifests) IN
       /\ files' = files \ {g}
       /\ manifests' = IF manifests[g].status = "staged"
                       THEN [manifests EXCEPT ![g].status = "failed"] ELSE manifests
  /\ EndRun
  /\ UNCHANGED <<clock, db, incoming, recovery, historyVars>>

(* _mark_manifest_failed: the file goes only if the manifest was still staged. *)
Undo ==
  /\ pc = "undo"
  /\ LET g == Len(manifests) IN
       IF manifests[g].status = "staged"
       THEN /\ manifests' = [manifests EXCEPT ![g].status = "failed"]
            /\ files' = files \ {g}
       ELSE UNCHANGED <<manifests, files>>
  /\ EndRun
  /\ UNCHANGED <<clock, db, incoming, recovery, historyVars>>

Superseded == {g \in DOMAIN manifests : manifests[g].status = "superseded"}

(* All superseded generations but the KeptFiles newest. *)
Outdated == {g \in Superseded : Cardinality({h \in Superseded : h > g}) >= KeptFiles}

DropOutdated ==
  /\ pc = "drop"
  /\ files' = files \ Outdated
  /\ Go("prune")
  /\ UNCHANGED <<clock, dbVars, incoming, recovery, historyVars>>

(* _retention_targets, and the checks of prune_archived_partition. *)
Prunable ==
  /\ Active \in files
  /\ \E b \in Stored(db) : b < cutoff

(***************************************************************************)
(* prune_archived_partition's transaction begins.  A late correction sends *)
(* the partition back to be archived once more, unless that was done       *)
(* before or rows of it are gone; then the whole run fails.                *)
(***************************************************************************)
CheckLate ==
  /\ pc = "prune"
  /\ IF ~Prunable THEN EndRun
     ELSE IF ~Late THEN Go("delete")
     ELSE IF refreshed \/ RetentionStarted THEN EndRun
     ELSE /\ pc' = "fetch"
          /\ refreshed' = TRUE
          /\ UNCHANGED <<cutoff, fetched, stamp>>
  /\ UNCHANGED <<clock, dbVars, incoming, recovery, files, historyVars>>

(* Mutant: expired rows, whenever they were observed. *)
DoomedMutant == {b \in Stored(db) : b < cutoff}

(* _delete_normalized: expired rows the confirmation covers. *)
Doomed == {b \in Stored(db) : b < cutoff /\ db[b] <= manifests[Active].confirmedAt}

OldestDoomed ==
  {b \in Doomed : Cardinality({c \in Doomed : c < b}) < BatchSize}

Delete ==
  /\ pc = "delete"
  /\ db' = [b \in Bucket |-> IF b \in OldestDoomed THEN NoRow ELSE db[b]]
  /\ deleted' = deleted \cup {<<b, db[b]>> : b \in OldestDoomed}
  /\ overlapped' = (overlapped \/ (recovery # NoRow /\ recovery.checked))
  /\ IF Cardinality(OldestDoomed) = BatchSize THEN Go("prune") ELSE EndRun
  /\ UNCHANGED <<clock, manifests, incoming, recovery, files, overlooked>>

(* The maintenance process dies, or a statement fails and the run with it. *)
Die ==
  /\ pc # "idle"
  /\ EndRun
  /\ UNCHANGED <<clock, dbVars, incoming, recovery, files, historyVars>>

Tick ==
  /\ clock < MaxClock
  /\ clock' = clock + 1
  /\ UNCHANGED <<dbVars, incoming, recovery, files, runVars, historyVars>>

Next ==
  \/ \E b \in Bucket : Observe(b) \/ Download(b)
  \/ \E b \in Bucket, observed \in 0..clock : StoreLive(b, observed)
  \/ LoseLive
  \/ CheckRecovery
  \/ InsertRecovered
  \/ DropRecovery
  \/ StartRun
  \/ Inspect
  \/ Fetch
  \/ Stage
  \/ Publish
  \/ Confirm
  \/ ArchiveFails
  \/ Undo
  \/ DropOutdated
  \/ CheckLate
  \/ Delete
  \/ Die
  \/ Tick

Spec == Init /\ [][Next]_vars

-----------------------------------------------------------------------------
(* Properties *)

(* The generation that readers and the retention rely on always has its file, *)
(* whichever step of a confirmation fails or dies, a commit whose answer was  *)
(* lost included; and there is at most one such generation.                   *)
ConfirmedIsIntact ==
  /\ Cardinality(Confirmed) <= 1
  /\ Active # 0 => Active \in files

(* A row observed after the active generation was confirmed is never deleted: *)
(* it waits until a later generation holds it.                                *)
LateRowsSurvive ==
  [][\A b \in Bucket :
       db[b] # NoRow /\ db'[b] = NoRow =>
         Active # 0 /\ db[b] <= manifests[Active].confirmedAt]_vars

Archived(row) == Active # 0 /\ manifests[Active].rows[row[1]] = row[2]

(* Two things aside, whatever retention deleted is and stays in the active    *)
(* generation, value for value: no re-archive of a partly deleted day, crash, *)
(* failed confirmation or correction loses it.                                *)
NothingElseIsLost ==
  ~overlooked /\ ~overlapped => \A row \in deleted : Archived(row)

(* Whatever fails or dies, the confirmed archive file is there and whole, and no   *)
(* candle is lost but through the two races that history variables name.           *)
ArchiveHolds == TypeOK /\ ConfirmedIsIntact /\ NothingElseIsLost

(* docs/current/architecture.md:247: a late candle of a past day is put into  *)
(* a new confirmed file before retention decides about it.  Any row that is   *)
(* deleted would then be in the active file.                                  *)
LateCandleIsRearchived ==
  [][\A b \in Bucket :
       db[b] # NoRow /\ db'[b] = NoRow => Archived(<<b, db[b]>>)]_vars
=============================================================================
