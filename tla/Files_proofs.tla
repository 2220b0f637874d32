-------------------------------- MODULE Files_proofs --------------------------------
(***************************************************************************)
(* Proofs about components that MCFiles runs side by side, each for every  *)
(* value of its constants, and of what MCFiles says of them together.      *)
(***************************************************************************)
EXTENDS MCFiles, ExtremumTheorems, SequenceTheorems

-----------------------------------------------------------------------------
(***************************************************************************)
(* ArchiveRetention, for every set of minutes, retention, batch size,      *)
(* number of kept files and any clock.                                     *)
(*                                                                         *)
(* ConfirmedIsIntact needs to know what a run has done to the generation it*)
(* staged (GenerationsAgree).  NothingElseIsLost rests on three facts: a   *)
(* row that is not late is in the active generation (CopyIsTrue); nothing  *)
(* is deleted while a row is late, and the live writer no longer reaches a *)
(* day of which rows are deleted; and once rows are deleted the database   *)
(* holds fewer rows than the generation, so neither a new generation nor a *)
(* recovered candle is accepted any more (DeletionIsFinal).                *)
(***************************************************************************)

Newest == manifests[Len(manifests)]

\* One generation is confirmed at most, its file is there, and the run knows its own.
GenerationsAgree ==
  /\ \A g, h \in Confirmed : g = h
  /\ Confirmed \subseteq files
  /\ pc \in {"publish", "confirm"} => manifests # <<>> /\ Newest.status = "staged"
  /\ pc = "confirm" => Len(manifests) \in files
  /\ pc = "undo" => manifests # <<>> /\ Newest.status \in {"staged", "confirmed"}

\* When a run deletes, a generation is active and the live writer no longer reaches the day.
RunIsLate ==
  /\ pc # "idle" => cutoff + Retention <= clock
  /\ pc = "delete" => Active # 0 /\ cutoff >= 1

\* What is archived, or about to be, is what the database holds.
CopyIsTrue ==
  /\ pc \in {"stage", "publish", "confirm"} => fetched = db
  /\ pc \in {"publish", "confirm"} => Newest.rows = fetched
  /\ Active # 0 => \A b \in Stored(db) : db[b] <= manifests[Active].confirmedAt =>
                                           manifests[Active].rows[b] = db[b]

\* Once rows are deleted, no generation and no recovered candle replaces what is archived.
DeletionIsFinal ==
  /\ pc = "delete" => ~Late
  /\ \A held \in deleted : Archived(held)
  /\ deleted # {} => /\ Stored(db) \subseteq Stored(manifests[Active].rows)
                     /\ Stored(db) # Stored(manifests[Active].rows)
                     /\ pc \notin {"fetch", "stage", "publish", "confirm"}
                     /\ recovery # NoRow => ~recovery.checked
                     /\ clock > Retention

ArchiveInv ==
  /\ TypeOK
  /\ GenerationsAgree
  /\ RunIsLate
  /\ ~overlooked => CopyIsTrue
  /\ ~overlooked /\ ~overlapped => DeletionIsFinal

-----------------------------------------------------------------------------
(* Generations *)

\* A set with an element more has more elements.
LEMMA FewerRows ==
  ASSUME NEW have, NEW archived, Stored(have) \subseteq Stored(archived),
         Stored(have) # Stored(archived)
  PROVE  Count(have) < Count(archived)
<1>1. IsFiniteSet(Stored(archived))
  BY FS_Subset, ArchiveAssumption DEF Stored
<1>2. Cardinality(Stored(have)) <= Cardinality(Stored(archived))
      /\ (Cardinality(Stored(have)) = Cardinality(Stored(archived)) => Stored(have) = Stored(archived))
  BY <1>1, FS_Subset
<1>3. Cardinality(Stored(have)) \in Nat /\ Cardinality(Stored(archived)) \in Nat
  BY <1>1, FS_Subset, FS_CardinalityType
<1>4. QED
  BY <1>2, <1>3 DEF Count

LEMMA ActiveIsConfirmed ==
  ASSUME manifests \in Seq(Manifest)
  PROVE  /\ Active = 0 <=> Confirmed = {}
         /\ Active # 0 => Active \in Confirmed /\ Active \in 1..Len(manifests)
                          /\ manifests[Active] \in Manifest
<1>1. Len(manifests) \in Nat /\ Confirmed \subseteq 1..Len(manifests)
  BY DEF Confirmed
<1>2. Confirmed # {} => Max(Confirmed) \in Confirmed
  BY <1>1, MaxOfIndices
<1>3. Confirmed # {} => Active \in Confirmed
  BY <1>2 DEF Active
<1>4. Confirmed = {} => Active = 0
  BY DEF Active
<1>5. \A g \in Confirmed : g # 0 /\ manifests[g] \in Manifest
  BY <1>1, ElementOfSeq
<1>6. QED
  BY <1>1, <1>3, <1>4, <1>5

\* Whatever happens to generations that are not confirmed, the active one stays.
LEMMA ActiveStays ==
  ASSUME manifests \in Seq(Manifest), Confirmed' = Confirmed,
         \A g \in Confirmed : manifests'[g] = manifests[g]
  PROVE  Active' = Active /\ (Active # 0 => manifests'[Active] = manifests[Active])
<1>1. Active' = Active
  BY DEF Active
<1>2. QED
  BY <1>1, ActiveIsConfirmed

LEMMA SwitchedIs ==
  ASSUME manifests \in Seq(Manifest), manifests # <<>>, stamp \in Nat
  PROVE  /\ Switched \in Seq(Manifest) /\ Len(Switched) = Len(manifests)
         /\ \A g \in 1..Len(manifests) : Switched[g].status = "confirmed" <=> g = Len(manifests)
         /\ Switched[Len(manifests)].rows = Newest.rows
<1> DEFINE n == Len(manifests)
           old == Supersede(manifests)
<1>1. n \in Nat \ {0} /\ DOMAIN manifests = 1..n
  OBVIOUS
<1>2. \A g \in 1..n : manifests[g] \in Manifest
  BY ElementOfSeq
<1>3. ASSUME NEW g \in 1..n
      PROVE  old[g] \in Manifest /\ old[g].status # "confirmed" /\ old[g].rows = manifests[g].rows
  BY <1>1, <1>2, <1>3 DEF Supersede, Manifest
<1>4. DOMAIN old = 1..n
  BY <1>1 DEF Supersede
<1>. HIDE DEF old
<1>5. Switched = [[old EXCEPT ![n].status = "confirmed"] EXCEPT ![n].confirmedAt = stamp]
  BY DEF Switched, old
<1>6. DOMAIN Switched = 1..n
  BY <1>4, <1>5
<1>7. \A g \in 1..n : g # n => Switched[g] = old[g]
  BY <1>4, <1>5
<1>8. Switched[n] = [[old[n] EXCEPT !.status = "confirmed"] EXCEPT !.confirmedAt = stamp]
  <2> DEFINE mid == [old EXCEPT ![n].status = "confirmed"]
  <2>1. DOMAIN mid = 1..n /\ mid[n] = [old[n] EXCEPT !.status = "confirmed"]
    BY <1>1, <1>4
  <2>2. [mid EXCEPT ![n].confirmedAt = stamp][n] = [mid[n] EXCEPT !.confirmedAt = stamp]
    <3>. HIDE DEF mid
    <3>1. QED
      BY <1>1, <2>1
  <2>3. Switched = [mid EXCEPT ![n].confirmedAt = stamp]
    BY <1>5
  <2>. HIDE DEF mid
  <2>4. QED
    BY <2>1, <2>2, <2>3
<1>9. /\ Switched[n] \in Manifest /\ Switched[n].status = "confirmed"
      /\ Switched[n].rows = manifests[n].rows
  <2>1. old[n] \in Manifest /\ old[n].rows = manifests[n].rows
    BY <1>1, <1>3
  <2>2. QED
    BY <1>8, <2>1 DEF Manifest
<1>10. Switched \in [1..n -> Manifest]
  <2>1. \A g \in 1..n : Switched[g] \in Manifest
    BY <1>3, <1>7, <1>9
  <2>2. Switched = [g \in 1..n |-> Switched[g]]
    BY <1>5, <1>6
  <2>3. QED
    BY <2>1, <2>2
<1>11. Switched \in Seq(Manifest) /\ Len(Switched) = n
  BY <1>1, <1>10
<1>12. QED
  BY <1>3, <1>7, <1>9, <1>11 DEF Newest

\* After the switch, the newest generation is the active one.
LEMMA SwitchActivates ==
  ASSUME manifests \in Seq(Manifest), manifests # <<>>, stamp \in Nat, manifests' = Switched
  PROVE  /\ Confirmed' = {Len(manifests)} /\ Active' = Len(manifests)
         /\ manifests'[Active'].rows = Newest.rows
<1>1. Len(manifests) \in Nat \ {0} /\ DOMAIN manifests' = 1..Len(manifests)
  BY SwitchedIs
<1>2. Confirmed' = {Len(manifests)}
  <2>1. \A g \in 1..Len(manifests) : manifests'[g].status = "confirmed" <=> g = Len(manifests)
    BY SwitchedIs
  <2>2. Confirmed' = {g \in 1..Len(manifests) : manifests'[g].status = "confirmed"}
    BY <1>1 DEF Confirmed
  <2>3. QED
    BY <1>1, <2>1, <2>2
<1>3. {Len(manifests)} \in SUBSET (1..Len(manifests))
  BY <1>1
<1>4. Max({Len(manifests)}) = Len(manifests)
  BY <1>1, <1>3, MaxOfIndices
<1>5. Active' = Len(manifests)
  BY <1>2, <1>4 DEF Active
<1>6. QED
  BY <1>2, <1>5, SwitchedIs

-----------------------------------------------------------------------------
(* Types *)

LEMMA ArchiveInit == Init => ArchiveInv
<1>1. SUFFICES ASSUME Init PROVE ArchiveInv
  OBVIOUS
<1>2. NoRow \in Row /\ Empty \in [Bucket -> Row]
  BY DEF Row, Empty
<1>3. manifests = <<>> /\ manifests \in Seq(Manifest) /\ DOMAIN manifests = {}
  BY <1>1 DEF Init
<1>4. TypeOK
  <2>1. refreshed \in BOOLEAN /\ overlooked \in BOOLEAN /\ overlapped \in BOOLEAN
    BY <1>1 DEF Init
  <2>2. /\ clock \in Nat /\ db \in [Bucket -> Row] /\ incoming \subseteq Bucket \X Nat
        /\ recovery \in Recovered \cup {NoRow} /\ files \subseteq DOMAIN manifests
        /\ cutoff \in Int /\ fetched \in [Bucket -> Row] /\ stamp \in Nat
        /\ deleted \subseteq Bucket \X Nat
    BY <1>1, <1>2, <1>3 DEF Init
  <2>3. pc = "idle"
    BY <1>1 DEF Init
  <2>4. QED
    BY <1>3, <2>1, <2>2, <2>3 DEF TypeOK
<1>5. Confirmed = {} /\ Active = 0
  BY <1>3 DEF Confirmed, Active
<1>6. GenerationsAgree /\ RunIsLate /\ CopyIsTrue /\ DeletionIsFinal
  BY <1>1, <1>5 DEF Init, GenerationsAgree, RunIsLate, CopyIsTrue, DeletionIsFinal
<1>7. QED
  BY <1>4, <1>6 DEF ArchiveInv

LEMMA WritersKeepTypes ==
  ASSUME TypeOK, Next
  PROVE  clock' \in Nat /\ db' \in [Bucket -> Row] /\ incoming' \subseteq Bucket \X Nat
         /\ recovery' \in Recovered \cup {NoRow}
<1>1. /\ clock \in Nat /\ db \in [Bucket -> Row] /\ incoming \subseteq Bucket \X Nat
      /\ recovery \in Recovered \cup {NoRow}
      /\ NoRow \in Row /\ Nat \subseteq Row
  BY DEF TypeOK, Row
<1>2. ASSUME NEW b \in Bucket, Observe(b)
      PROVE  incoming' \subseteq Bucket \X Nat /\ UNCHANGED <<clock, db, recovery>>
  BY <1>1, <1>2 DEF Observe, dbVars
<1>3. ASSUME NEW b \in Bucket, Download(b)
      PROVE  recovery' \in Recovered /\ UNCHANGED <<clock, db, incoming>>
  BY <1>1, <1>3 DEF Download, dbVars, Recovered
<1>4. ASSUME NEW b \in Bucket, NEW observed \in 0..clock, StoreLive(b, observed)
      PROVE  incoming' = {} /\ db' \in [Bucket -> Row] /\ UNCHANGED <<clock, recovery>>
  <2>1. observed \in Row
    BY <1>1
  <2>2. QED
    BY <1>1, <1>4, <2>1 DEF StoreLive
<1>5. CASE CheckRecovery
  <2>1. Active \in Nat
    BY ActiveIsConfirmed DEF TypeOK
  <2>2. recovery' \in Recovered \cup {NoRow}
    BY <1>1, <1>5, <2>1 DEF CheckRecovery, Recovered
  <2>3. QED
    BY <1>1, <1>5, <2>2 DEF CheckRecovery, dbVars
<1>6. CASE InsertRecovered
  <2>1. recovery \in Recovered
    BY <1>1, <1>6 DEF InsertRecovered
  <2>2. recovery.bucket \in Bucket /\ recovery.observed \in Row
    BY <1>1, <2>1 DEF Recovered
  <2>3. QED
    BY <1>1, <1>6, <2>2 DEF InsertRecovered
<1>7. CASE Delete
  <2>1. db' \in [Bucket -> Row]
    BY <1>1, <1>7 DEF Delete
  <2>2. QED
    BY <1>1, <1>7, <2>1 DEF Delete
<1>8. CASE LoseLive \/ DropRecovery \/ Tick
  BY <1>1, <1>8 DEF LoseLive, DropRecovery, Tick, dbVars
<1>9. CASE StartRun \/ Inspect \/ Fetch \/ Stage \/ Publish \/ Confirm \/ ArchiveFails \/ Undo
           \/ DropOutdated \/ CheckLate \/ Die
  BY <1>1, <1>9 DEF StartRun, Inspect, Fetch, Stage, Publish, Confirm, ArchiveFails, Undo,
                    DropOutdated, CheckLate, Die, dbVars
<1>10. QED
  BY <1>1, <1>2, <1>3, <1>4, <1>5, <1>6, <1>7, <1>8, <1>9 DEF Next

LEMMA RunKeepsTypes ==
  ASSUME TypeOK, Next
  PROVE  /\ pc' \in {"idle", "archive", "fetch", "stage", "publish", "confirm", "undo", "drop",
                     "prune", "delete"}
         /\ cutoff' \in Int /\ fetched' \in [Bucket -> Row] /\ stamp' \in Nat
         /\ deleted' \subseteq Bucket \X Nat
<1>1. /\ pc \in {"idle", "archive", "fetch", "stage", "publish", "confirm", "undo", "drop",
                 "prune", "delete"}
      /\ cutoff \in Int /\ fetched \in [Bucket -> Row] /\ stamp \in Nat
      /\ deleted \subseteq Bucket \X Nat
      /\ clock \in Nat /\ Retention \in Nat /\ db \in [Bucket -> Row] /\ Empty \in [Bucket -> Row]
  BY ArchiveAssumption DEF TypeOK, Row, Empty
<1>2. CASE Delete
  <2>1. \A b \in OldestDoomed : b \in Bucket /\ db[b] \in Nat
    BY <1>1 DEF OldestDoomed, Doomed, Stored, Row
  <2>2. deleted' \subseteq Bucket \X Nat
    BY <1>1, <1>2, <2>1 DEF Delete
  <2>3. QED
    BY <1>1, <1>2, <2>2 DEF Delete, Go, EndRun
<1>3. CASE StartRun \/ Inspect \/ Fetch \/ Stage
  BY <1>1, <1>3 DEF StartRun, Inspect, Fetch, Stage, Go, EndRun, historyVars
<1>4. CASE Publish \/ Confirm \/ ArchiveFails \/ DropOutdated
  BY <1>1, <1>4 DEF Publish, Confirm, ArchiveFails, DropOutdated, Go, historyVars
<1>5. CASE Undo \/ CheckLate \/ Die
  BY <1>1, <1>5 DEF Undo, CheckLate, Die, Go, EndRun, historyVars
<1>6. CASE UNCHANGED <<pc, cutoff, fetched, stamp, deleted>>
  BY <1>1, <1>6
<1>7. QED
  BY <1>2, <1>3, <1>4, <1>5, <1>6
  DEF Next, Observe, Download, StoreLive, LoseLive, CheckRecovery, InsertRecovered, DropRecovery, Tick,
      runVars, historyVars

LEMMA GenerationsKeepTypes ==
  ASSUME TypeOK, GenerationsAgree, Next
  PROVE  manifests' \in Seq(Manifest) /\ files' \subseteq DOMAIN manifests'
<1>1. manifests \in Seq(Manifest) /\ files \subseteq 1..Len(manifests)
      /\ DOMAIN manifests = 1..Len(manifests) /\ Len(manifests) \in Nat /\ stamp \in Nat
  BY DEF TypeOK
<1>2. CASE UNCHANGED <<manifests, files>>
  BY <1>1, <1>2
<1>3. CASE Stage
  <2>1. [status |-> "staged", rows |-> fetched, confirmedAt |-> 0] \in Manifest
    BY DEF TypeOK, Manifest
  <2>2. manifests' \in Seq(Manifest) /\ Len(manifests') = Len(manifests) + 1
    BY <1>1, <1>3, <2>1, AppendProperties DEF Stage
  <2>3. QED
    BY <1>1, <1>3, <2>2 DEF Stage
<1>4. CASE Publish
  <2>1. manifests' = manifests /\ manifests # <<>> /\ files' = files \cup {Len(manifests)}
    BY <1>4 DEF Publish, dbVars, GenerationsAgree
  <2>2. Len(manifests) \in 1..Len(manifests)
    BY <1>1, <2>1
  <2>3. QED
    BY <1>1, <2>1, <2>2
<1>5. CASE manifests' = Switched /\ manifests # <<>> /\ files' = files
  <2>1. manifests' \in Seq(Manifest) /\ Len(manifests') = Len(manifests)
    BY <1>1, <1>5, SwitchedIs
  <2>2. DOMAIN manifests' = 1..Len(manifests)
    BY <2>1
  <2>3. QED
    BY <1>1, <1>5, <2>1, <2>2
<1>6. CASE Undo
  <2>1. Len(manifests) \in 1..Len(manifests)
    BY <1>1, <1>6 DEF Undo, GenerationsAgree
  <2>2. manifests[Len(manifests)] \in Manifest
    BY <1>1, <2>1, ElementOfSeq
  <2>3. [manifests[Len(manifests)] EXCEPT !.status = "failed"] \in Manifest
    BY <2>2 DEF Manifest
  <2>4. CASE manifests' = [manifests EXCEPT ![Len(manifests)].status = "failed"]
    BY <1>1, <1>6, <2>1, <2>3, <2>4 DEF Undo
  <2>5. QED
    BY <1>1, <1>6, <2>4 DEF Undo
<1>7. CASE DropOutdated
  <2>1. manifests' = manifests /\ files' \subseteq files
    BY <1>7 DEF DropOutdated, dbVars
  <2>2. QED
    BY <1>1, <2>1
<1>8. CASE Confirm \/ ArchiveFails
  <2>1. files' = files /\ manifests # <<>> /\ (manifests' = manifests \/ manifests' = Switched)
    BY <1>8 DEF Confirm, ArchiveFails, GenerationsAgree
  <2>2. QED
    BY <1>2, <1>5, <2>1
<1>9. QED
  BY <1>2, <1>3, <1>4, <1>6, <1>7, <1>8
  DEF Next, Observe, Download, StoreLive, LoseLive, CheckRecovery, InsertRecovered, DropRecovery, Tick,
      StartRun, Inspect, Fetch, CheckLate, Delete, Die, dbVars

LEMMA TypeKeeps ==
  ASSUME TypeOK, GenerationsAgree, Next
  PROVE  TypeOK'
<1>1. refreshed' \in BOOLEAN /\ overlooked' \in BOOLEAN /\ overlapped' \in BOOLEAN
  BY DEF TypeOK, Next, Observe, Download, StoreLive, LoseLive, CheckRecovery, InsertRecovered,
         DropRecovery, Tick, StartRun, Inspect, Fetch, Stage, Publish, Confirm, ArchiveFails, Undo,
         DropOutdated, CheckLate, Delete, Die, Go, EndRun, runVars, historyVars
<1>2. QED
  BY <1>1, WritersKeepTypes, RunKeepsTypes, GenerationsKeepTypes, Zenon DEF TypeOK

-----------------------------------------------------------------------------
(* Steps *)

\* The steps that leave every generation alone.
LEMMA StagedIsAdded ==
  ASSUME TypeOK, Stage
  PROVE  /\ Confirmed' = Confirmed /\ \A g \in Confirmed : manifests'[g] = manifests[g]
         /\ manifests' # <<>> /\ Newest'.status = "staged" /\ Newest'.rows = fetched
<1> DEFINE new == [status |-> "staged", rows |-> fetched, confirmedAt |-> 0]
           n == Len(manifests)
<1>1. manifests \in Seq(Manifest) /\ new \in Manifest /\ manifests' = Append(manifests, new)
  BY DEF TypeOK, Manifest, Stage
<1>2. n \in Nat /\ DOMAIN manifests = 1..n
  BY <1>1
<1>. HIDE DEF new
<1>3. /\ manifests' \in Seq(Manifest) /\ Len(manifests') = n + 1 /\ manifests' # <<>>
      /\ \A g \in 1..n : manifests'[g] = manifests[g]
      /\ manifests'[n + 1] = new
  BY <1>1, AppendProperties
<1>4. DOMAIN manifests' = 1..(n + 1)
  BY <1>3
<1>5. new.status = "staged" /\ new.rows = fetched
  BY DEF new
<1>6. \A g \in 1..(n + 1) : g \in 1..n \/ g = n + 1
  BY <1>2
<1>7. 1..n \subseteq 1..(n + 1)
  BY <1>2
<1>. HIDE DEF n
<1>8. Confirmed' = Confirmed
  BY <1>2, <1>3, <1>4, <1>5, <1>6, <1>7 DEF Confirmed
<1>9. QED
  BY <1>2, <1>3, <1>5, <1>8 DEF Confirmed, Newest

\* A failed generation was not confirmed.
LEMMA FailedWasStaged ==
  ASSUME TypeOK, GenerationsAgree, Undo
  PROVE  /\ Confirmed' = Confirmed /\ \A g \in Confirmed : manifests'[g] = manifests[g]
         /\ Confirmed \cap (files \ files') = {}
<1> DEFINE n == Len(manifests)
<1>1. CASE Newest.status # "staged"
  BY <1>1 DEF Undo, Newest, Confirmed
<1>2. CASE Newest.status = "staged"
  <2>1. manifests \in Seq(Manifest) /\ n \in 1..n /\ DOMAIN manifests = 1..n
    BY DEF TypeOK, GenerationsAgree, Undo
  <2>2. manifests' = [manifests EXCEPT ![n].status = "failed"] /\ files' = files \ {n}
    BY <1>2 DEF Undo, Newest
  <2>3. manifests[n] \in Manifest
    BY <2>1, ElementOfSeq
  <2>. HIDE DEF n
  <2>4. /\ DOMAIN manifests' = 1..n /\ manifests'[n].status = "failed"
        /\ \A g \in 1..n : g # n => manifests'[g] = manifests[g]
    BY <2>1, <2>2, <2>3 DEF Manifest
  <2>5. manifests[n].status = "staged"
    BY <1>2 DEF Newest, n
  <2>6. n \notin Confirmed /\ Confirmed' = Confirmed
    BY <2>1, <2>4, <2>5 DEF Confirmed
  <2>7. QED
    BY <2>1, <2>2, <2>4, <2>6 DEF Confirmed
<1>3. QED
  BY <1>1, <1>2

LEMMA GenerationsKeep ==
  ASSUME TypeOK, GenerationsAgree, Next
  PROVE  GenerationsAgree'
<1>1. manifests \in Seq(Manifest) /\ files \subseteq DOMAIN manifests /\ stamp \in Nat
  BY DEF TypeOK
<1>2. CASE /\ UNCHANGED <<manifests, files>>
           /\ pc' = pc \/ pc' \in {"idle", "archive", "fetch", "stage", "prune", "delete"}
  BY <1>2 DEF GenerationsAgree, Confirmed, Newest
<1>3. CASE Stage
  <2>1. Confirmed' = Confirmed /\ manifests' # <<>> /\ Newest'.status = "staged"
    BY <1>3, StagedIsAdded
  <2>2. files' = files /\ pc' = "publish"
    BY <1>3 DEF Stage, Go
  <2>3. QED
    BY <2>1, <2>2 DEF GenerationsAgree
<1>4. CASE Publish
  <2>1. manifests' = manifests /\ files' = files \cup {Len(manifests)} /\ pc = "publish"
        /\ pc' = "confirm"
    BY <1>4 DEF Publish, dbVars
  <2>2. QED
    BY <2>1 DEF GenerationsAgree, Confirmed, Newest
<1>5. CASE /\ pc = "confirm" /\ pc' \in {"drop", "undo"}
           /\ manifests' = Switched /\ files' = files
  <2>1. manifests # <<>> /\ Len(manifests) \in files
    BY <1>5 DEF GenerationsAgree
  <2>2. Confirmed' = {Len(manifests)}
    BY <1>1, <1>5, <2>1, SwitchActivates
  <2>3. manifests' # <<>> /\ Newest'.status = "confirmed"
    <3>1. Len(manifests) \in 1..Len(manifests)
      BY <1>1, <2>1
    <3>2. Len(manifests') = Len(manifests) /\ manifests'[Len(manifests)].status = "confirmed"
      BY <1>1, <1>5, <2>1, <3>1, SwitchedIs
    <3>3. manifests' # <<>>
      BY <3>1, <3>2
    <3>4. QED
      BY <3>2, <3>3 DEF Newest
  <2>4. QED
    BY <1>5, <2>1, <2>2, <2>3 DEF GenerationsAgree
<1>6. CASE /\ pc \in {"publish", "confirm"} /\ pc' = "undo"
           /\ manifests' = manifests /\ files' = files
  BY <1>6 DEF GenerationsAgree, Confirmed, Newest
<1>7. CASE Undo
  <2>1. Confirmed' = Confirmed /\ Confirmed \cap (files \ files') = {}
    BY <1>7, FailedWasStaged
  <2>2. pc' = "idle"
    BY <1>7 DEF Undo, EndRun
  <2>3. QED
    BY <2>1, <2>2 DEF GenerationsAgree
<1>8. CASE DropOutdated
  <2>1. manifests' = manifests /\ files' = files \ Outdated /\ pc' = "prune"
    BY <1>8 DEF DropOutdated, Go, dbVars
  <2>2. Confirmed \cap Outdated = {}
    BY DEF Confirmed, Outdated, Superseded
  <2>3. Confirmed' = Confirmed
    BY <2>1 DEF Confirmed
  <2>4. QED
    BY <2>1, <2>2, <2>3 DEF GenerationsAgree
<1>9. CASE Confirm
  BY <1>5, <1>9 DEF Confirm, Go
<1>10. CASE ArchiveFails
  <2>1. /\ files' = files /\ pc' = "undo" /\ pc \in {"publish", "confirm"}
        /\ manifests' = manifests \/ (pc = "confirm" /\ manifests' = Switched)
    BY <1>10 DEF ArchiveFails, Go
  <2>2. QED
    BY <1>5, <1>6, <2>1
<1>11. QED
  BY <1>2, <1>3, <1>4, <1>7, <1>8, <1>9, <1>10
  DEF Next, Observe, Download, StoreLive, LoseLive, CheckRecovery, InsertRecovered, DropRecovery, Tick,
      StartRun, Inspect, Fetch, CheckLate, Delete, Die, Go, EndRun, dbVars, runVars

\* A run that deletes found a held older than its cutoff.
LEMMA CheckedIsExpired ==
  ASSUME TypeOK, CheckLate, pc' = "delete"
  PROVE  Active # 0 /\ cutoff >= 1 /\ ~Late
<1>1. Prunable /\ ~Late
  BY DEF CheckLate, EndRun, Go
<1>2. Active \in DOMAIN manifests /\ \E b \in Bucket : b < cutoff
  BY <1>1 DEF Prunable, Stored, TypeOK
<1>3. DOMAIN manifests = 1..Len(manifests) /\ Len(manifests) \in Nat
  BY DEF TypeOK
<1>4. Active # 0
  BY <1>2, <1>3
<1>5. cutoff \in Int /\ \A b \in Bucket : b \in Nat
  BY ArchiveAssumption DEF TypeOK
<1>6. QED
  BY <1>1, <1>2, <1>4, <1>5

LEMMA RunIsLateKeeps ==
  ASSUME TypeOK, RunIsLate, Next
  PROVE  RunIsLate'
<1>1. clock \in Nat /\ cutoff \in Int /\ Retention \in Nat
  BY ArchiveAssumption DEF TypeOK
<1>2. clock' \in Nat /\ clock' >= clock
  <2>1. clock' \in {clock, clock + 1}
    BY DEF Next, Observe, Download, StoreLive, LoseLive, CheckRecovery, InsertRecovered, DropRecovery,
           Tick, StartRun, Inspect, Fetch, Stage, Publish, Confirm, ArchiveFails, Undo, DropOutdated,
           CheckLate, Delete, Die
  <2>2. QED
    BY <1>1, <2>1
<1>3. CASE pc' = "idle"
  BY <1>3 DEF RunIsLate
<1>4. CASE StartRun
  BY <1>1, <1>4 DEF RunIsLate, StartRun
<1>5. CASE pc # "idle" /\ cutoff' = cutoff /\ pc' # "delete"
  BY <1>1, <1>2, <1>5 DEF RunIsLate
<1>6. CASE UNCHANGED <<pc, cutoff, manifests>>
  <2>1. Active' = Active
    BY <1>6 DEF Active, Confirmed
  <2>2. QED
    BY <1>1, <1>2, <1>6, <2>1 DEF RunIsLate
<1>7. CASE CheckLate /\ pc' = "delete"
  <2>1. Active # 0 /\ cutoff >= 1
    BY <1>7, CheckedIsExpired
  <2>2. Active' = Active /\ cutoff' = cutoff /\ pc # "idle"
    BY <1>7 DEF CheckLate, EndRun, Go, Active, Confirmed, dbVars
  <2>3. QED
    BY <1>1, <1>2, <2>1, <2>2 DEF RunIsLate
<1>8. QED
  BY <1>3, <1>4, <1>5, <1>6, <1>7
  DEF Next, Observe, Download, StoreLive, LoseLive, CheckRecovery, InsertRecovered, DropRecovery, Tick,
      Inspect, Fetch, Stage, Publish, Confirm, ArchiveFails, Undo, DropOutdated, CheckLate, Delete, Die,
      Go, EndRun, dbVars, runVars

\* A held that a writer stores.
LEMMA StoredRow ==
  ASSUME TypeOK, NEW at \in Bucket, NEW observed \in Nat, db' = [db EXCEPT ![at] = observed]
  PROVE  /\ Stored(db') = Stored(db) \cup {at} /\ db'[at] = observed
         /\ \A b \in Bucket \ {at} : db'[b] = db[b]
<1>1. db \in [Bucket -> Row] /\ observed # NoRow
  BY ArchiveAssumption DEF TypeOK
<1>2. db'[at] = observed /\ \A b \in Bucket \ {at} : db'[b] = db[b]
  BY <1>1
<1>3. QED
  BY <1>1, <1>2 DEF Stored

\* A live candle or a recovered one that no confirmation time confuses.
LEMMA StoredIsLate ==
  ASSUME TypeOK, CopyIsTrue, NEW at \in Bucket, NEW observed \in Nat,
         db' = [db EXCEPT ![at] = observed], ~Unnoticed(observed),
         UNCHANGED <<manifests, pc, fetched>>
  PROVE  CopyIsTrue'
<1>1. pc \notin {"stage", "publish", "confirm"}
  BY DEF Unnoticed
<1>2. Active' = Active
  BY DEF Active, Confirmed
<1>3. ASSUME Active # 0, NEW b \in Stored(db'), db'[b] <= manifests[Active].confirmedAt
      PROVE  manifests[Active].rows[b] = db'[b]
  <2>1. ~(observed <= manifests[Active].confirmedAt)
    BY <1>3 DEF Unnoticed
  <2>2. b # at
    BY <1>3, <2>1, StoredRow
  <2>3. b \in Stored(db) /\ db'[b] = db[b]
    BY <1>3, <2>2, StoredRow DEF Stored
  <2>4. QED
    BY <1>3, <2>3 DEF CopyIsTrue
<1>4. QED
  BY <1>1, <1>2, <1>3 DEF CopyIsTrue

LEMMA CopyKeeps ==
  ASSUME TypeOK, GenerationsAgree, CopyIsTrue, Next, ~overlooked'
  PROVE  CopyIsTrue'
<1>1. manifests \in Seq(Manifest) /\ clock \in Nat /\ stamp \in Nat
  BY DEF TypeOK
<1>2. CASE /\ UNCHANGED <<db, manifests>>
           /\ pc' \in {"stage", "publish", "confirm"} => pc' = pc /\ fetched' = fetched
  <2>1. Active' = Active /\ Newest' = Newest
    BY <1>2 DEF Active, Confirmed, Newest
  <2>2. QED
    BY <1>2, <2>1 DEF CopyIsTrue
<1>3. ASSUME NEW b \in Bucket, NEW observed \in 0..clock, StoreLive(b, observed)
      PROVE  CopyIsTrue'
  <2>1. observed \in Nat
    BY <1>1
  <2>2. CASE db' = [db EXCEPT ![b] = observed] /\ overlooked' = (overlooked \/ Unnoticed(observed))
    <3>1. UNCHANGED <<manifests, pc, fetched>>
      BY <1>3 DEF StoreLive, runVars
    <3>2. ~Unnoticed(observed)
      BY <2>2
    <3>3. QED
      BY <2>1, <2>2, <3>1, <3>2, StoredIsLate
  <2>3. QED
    BY <1>2, <1>3, <2>2 DEF StoreLive, runVars
<1>4. CASE InsertRecovered
  <2>1. recovery.bucket \in Bucket /\ recovery.observed \in Nat
    BY <1>4 DEF InsertRecovered, TypeOK, Recovered
  <2>2. CASE /\ db' = [db EXCEPT ![recovery.bucket] = recovery.observed]
             /\ overlooked' = (overlooked \/ Unnoticed(recovery.observed))
    <3>1. UNCHANGED <<manifests, pc, fetched>>
      BY <1>4 DEF InsertRecovered, runVars
    <3>2. ~Unnoticed(recovery.observed)
      BY <2>2
    <3>3. QED
      BY <2>1, <2>2, <3>1, <3>2, StoredIsLate
  <2>3. QED
    BY <1>2, <1>4, <2>2 DEF InsertRecovered, runVars
<1>5. CASE Fetch
  <2>1. Active' = Active /\ db' = db /\ manifests' = manifests /\ pc' = "stage" /\ fetched' = db
    BY <1>5 DEF Fetch, Active, Confirmed, dbVars
  <2>2. QED
    BY <2>1 DEF CopyIsTrue
<1>6. CASE Stage
  <2>1. /\ Active' = Active /\ (Active # 0 => manifests'[Active] = manifests[Active])
        /\ Newest'.rows = fetched
    BY <1>1, <1>6, StagedIsAdded, ActiveStays
  <2>2. db' = db /\ fetched' = fetched /\ fetched = db
    BY <1>6 DEF Stage, Go, CopyIsTrue
  <2>3. QED
    BY <2>1, <2>2 DEF CopyIsTrue
<1>7. CASE Publish
  <2>1. UNCHANGED <<db, manifests, fetched>> /\ pc = "publish" /\ pc' = "confirm"
    BY <1>7 DEF Publish, dbVars
  <2>2. Active' = Active /\ Newest' = Newest
    BY <2>1 DEF Active, Confirmed, Newest
  <2>3. QED
    BY <2>1, <2>2 DEF CopyIsTrue
<1>8. CASE manifests' = Switched /\ pc = "confirm" /\ pc' \in {"drop", "undo"} /\ db' = db
  <2>1. manifests # <<>> /\ Newest.rows = db
    BY <1>8 DEF GenerationsAgree, CopyIsTrue
  <2>2. manifests'[Active'].rows = db
    BY <1>1, <1>8, <2>1, SwitchActivates
  <2>3. QED
    BY <1>8, <2>2 DEF CopyIsTrue
<1>9. CASE Undo
  <2>1. Active' = Active /\ (Active # 0 => manifests'[Active] = manifests[Active])
    BY <1>1, <1>9, FailedWasStaged, ActiveStays
  <2>2. db' = db /\ pc' = "idle"
    BY <1>9 DEF Undo, EndRun
  <2>3. QED
    BY <2>1, <2>2 DEF CopyIsTrue
<1>10. CASE Delete
  <2>1. Active' = Active /\ manifests' = manifests /\ pc' \in {"prune", "idle"}
    BY <1>10 DEF Delete, Go, EndRun, Active, Confirmed
  <2>2. Stored(db') \subseteq Stored(db) /\ \A b \in Stored(db') : db'[b] = db[b]
    BY <1>10 DEF Delete, Stored
  <2>3. QED
    BY <2>1, <2>2 DEF CopyIsTrue
<1>11. CASE Confirm \/ ArchiveFails
  BY <1>2, <1>8, <1>11 DEF Confirm, ArchiveFails, Go
<1>12. QED
  BY <1>2, <1>3, <1>4, <1>5, <1>6, <1>7, <1>9, <1>10, <1>11
  DEF Next, Observe, Download, LoseLive, CheckRecovery, DropRecovery, Tick, StartRun, Inspect,
      DropOutdated, CheckLate, Die, Go, EndRun, dbVars, runVars

\* A race that happened stays on record.
LEMMA HistoryStays ==
  ASSUME Next
  PROVE  (~overlooked' => ~overlooked) /\ (~overlapped' => ~overlapped)
<1>1. CASE UNCHANGED <<overlooked, overlapped>>
  BY <1>1
<1>2. CASE Delete
  <2>1. overlooked' = overlooked /\ (overlapped => overlapped')
    BY <1>2 DEF Delete
  <2>2. QED
    BY <2>1
<1>3. CASE InsertRecovered
  <2>1. overlooked => overlooked'
    BY <1>1, <1>3 DEF InsertRecovered
  <2>2. overlapped => overlapped'
    BY <1>1, <1>3 DEF InsertRecovered
  <2>3. QED
    BY <2>1, <2>2
<1>4. CASE \E b \in Bucket, observed \in 0..clock : StoreLive(b, observed)
  <2>1. overlapped' = overlapped /\ (overlooked => overlooked')
    BY <1>4 DEF StoreLive
  <2>2. QED
    BY <2>1
<1>5. QED
  BY <1>1, <1>2, <1>3, <1>4
  DEF Next, Observe, Download, LoseLive, CheckRecovery, DropRecovery, Tick, StartRun, Inspect, Fetch,
      Stage, Publish, Confirm, ArchiveFails, Undo, DropOutdated, CheckLate, Die, historyVars

\* Nothing is deleted yet, and nothing is about to be.
LEMMA NothingDeleted ==
  ASSUME deleted' = {}, pc' # "delete"
  PROVE  DeletionIsFinal'
  BY DEF DeletionIsFinal

LEMMA DeleteKeeps ==
  ASSUME ArchiveInv, CopyIsTrue, DeletionIsFinal, Delete, ~overlapped'
  PROVE  DeletionIsFinal'
<1> DEFINE rows == manifests[Active].rows
<1>1. /\ db \in [Bucket -> Row] /\ clock \in Nat /\ Active # 0 /\ ~Late
      /\ manifests[Active].confirmedAt \in Nat
  BY ActiveIsConfirmed DEF ArchiveInv, TypeOK, RunIsLate, DeletionIsFinal, Delete, Manifest
<1>2. \A b \in Stored(db) : db[b] \in Nat /\ db[b] # NoRow
  BY <1>1 DEF Stored, Row
<1>3. \A b \in Stored(db) : rows[b] = db[b]
  BY <1>1, <1>2 DEF Late, CopyIsTrue
<1>4. Stored(db) \subseteq Stored(rows)
  BY <1>2, <1>3 DEF Stored
<1>5. OldestDoomed \subseteq Stored(db)
  BY DEF OldestDoomed, Doomed
<1>6. /\ Active' = Active /\ manifests' = manifests /\ recovery' = recovery /\ clock' = clock
      /\ pc' \in {"prune", "idle"}
      /\ deleted' = deleted \cup {<<b, db[b]>> : b \in OldestDoomed}
      /\ recovery # NoRow => ~recovery.checked
  BY DEF Delete, Go, EndRun, Active, Confirmed
<1>7. Stored(db') = Stored(db) \ OldestDoomed
  BY <1>2 DEF Delete, Stored
<1>8. \A held \in deleted' : Archived(held)'
  <2>1. ASSUME NEW held \in deleted
        PROVE  Archived(held)'
    BY <1>6 DEF DeletionIsFinal, Archived
  <2>2. ASSUME NEW held, NEW b \in OldestDoomed, held = <<b, db[b]>>
        PROVE  Archived(held)'
    BY <1>1, <1>3, <1>5, <1>6, <2>2 DEF Archived
  <2>3. QED
    BY <1>6, <2>1, <2>2
<1>9. deleted' # {} => Stored(db') # Stored(rows)
  <2>1. CASE deleted # {}
    BY <1>4, <1>7, <2>1 DEF DeletionIsFinal
  <2>2. CASE deleted = {}
    BY <1>4, <1>5, <1>6, <1>7, <2>2
  <2>3. QED
    BY <2>1, <2>2
<1>10. clock > Retention
  <2>1. clock \in Nat /\ cutoff \in Int /\ Retention \in Nat /\ cutoff >= 1
        /\ cutoff + Retention <= clock
    BY ArchiveAssumption DEF ArchiveInv, TypeOK, RunIsLate, Delete
  <2>2. QED
    BY <2>1
<1>11. QED
  BY <1>4, <1>6, <1>7, <1>8, <1>9, <1>10 DEF DeletionIsFinal

LEMMA DeletionKeeps ==
  ASSUME ArchiveInv, Next, ~overlooked', ~overlapped'
  PROVE  DeletionIsFinal'
<1>1. ~overlooked /\ ~overlapped
  BY HistoryStays
<1>2. /\ TypeOK /\ GenerationsAgree /\ RunIsLate /\ CopyIsTrue /\ DeletionIsFinal
      /\ manifests \in Seq(Manifest) /\ clock \in Nat /\ Retention \in Nat
  BY <1>1, ArchiveAssumption DEF ArchiveInv, TypeOK
<1>3. deleted # {} => RetentionStarted
  <2>1. ASSUME deleted # {} PROVE Active # 0
    BY <1>2, <2>1 DEF DeletionIsFinal, Archived
  <2>2. QED
    BY <1>2, <2>1, FewerRows DEF DeletionIsFinal, RetentionStarted
<1>4. CASE /\ UNCHANGED <<db, manifests, deleted>>
           /\ pc' = "delete" => pc = "delete"
           /\ pc' \in {"fetch", "stage", "publish", "confirm"} =>
                pc \in {"fetch", "stage", "publish", "confirm"}
           /\ recovery' # NoRow => ~recovery'.checked \/ (recovery # NoRow /\ recovery.checked)
           /\ clock' \in {clock, clock + 1}
  <2>1. Active' = Active /\ Late' = Late
    BY <1>4 DEF Active, Late, Confirmed, Stored
  <2>2. \A held : Archived(held)' = Archived(held)
    BY <1>4, <2>1 DEF Archived
  <2>3. clock > Retention => clock' > Retention
    BY <1>2, <1>4
  <2>4. QED
    BY <1>2, <1>4, <2>1, <2>2, <2>3 DEF DeletionIsFinal
<1>5. ASSUME NEW b \in Bucket, NEW observed \in 0..clock, StoreLive(b, observed)
      PROVE  DeletionIsFinal'
  <2>1. clock <= Retention
    BY <1>2, <1>5, ArchiveAssumption DEF StoreLive
  <2>2. deleted = {} /\ pc # "delete"
    <3>1. cutoff \in Int
      BY <1>2 DEF TypeOK
    <3>2. QED
      BY <1>2, <2>1, <3>1 DEF DeletionIsFinal, RunIsLate
  <2>3. deleted' = deleted /\ pc' = pc
    BY <1>5 DEF StoreLive, runVars
  <2>4. QED
    BY <2>2, <2>3, NothingDeleted
<1>6. CASE CheckRecovery
  <2>1. CASE RetentionStarted
    BY <1>4, <1>6, <2>1 DEF CheckRecovery, dbVars, runVars, historyVars
  <2>2. CASE ~RetentionStarted
    <3>1. UNCHANGED <<db, manifests, deleted, pc>> /\ deleted = {}
      BY <1>3, <1>6, <2>2 DEF CheckRecovery, dbVars, runVars, historyVars
    <3>2. Late' = Late
      BY <3>1 DEF Late, Active, Confirmed, Stored
    <3>3. QED
      BY <1>2, <3>1, <3>2 DEF DeletionIsFinal
  <2>3. QED
    BY <2>1, <2>2
<1>7. CASE InsertRecovered
  <2>1. CASE db' = db
    BY <1>4, <1>7, <2>1 DEF InsertRecovered, runVars
  <2>2. CASE db' # db
    <3>1. pc # "delete" /\ recovery # NoRow /\ recovery.checked /\ deleted' = deleted /\ pc' = pc
      BY <1>7, <2>2 DEF InsertRecovered, runVars
    <3>2. deleted = {}
      BY <1>2, <3>1 DEF DeletionIsFinal
    <3>3. QED
      BY <3>1, <3>2, NothingDeleted
  <2>3. QED
    BY <2>1, <2>2
<1>8. CASE Inspect
  <2>1. UNCHANGED <<db, manifests, deleted, recovery, clock>> /\ pc' \in {"prune", "idle", "fetch"}
    BY <1>8 DEF Inspect, Go, EndRun, dbVars, historyVars
  <2>2. CASE pc' = "fetch"
    <3>1. ~RetentionStarted
      BY <1>8, <2>2 DEF Inspect, Go, EndRun
    <3>2. QED
      BY <1>3, <2>1, <2>2, <3>1, NothingDeleted
  <2>3. QED
    BY <1>4, <2>1, <2>2
<1>9. CASE CheckLate
  <2>1. UNCHANGED <<db, manifests, deleted, recovery, clock>> /\ pc' \in {"delete", "idle", "fetch"}
    BY <1>9 DEF CheckLate, Go, EndRun, dbVars, historyVars
  <2>2. CASE pc' = "fetch"
    <3>1. ~RetentionStarted
      BY <1>9, <2>2 DEF CheckLate, Go, EndRun
    <3>2. QED
      BY <1>3, <2>1, <2>2, <3>1, NothingDeleted
  <2>3. CASE pc' = "delete"
    <3>1. ~Late /\ Late' = Late /\ Active' = Active
      BY <1>2, <1>9, <2>1, <2>3, CheckedIsExpired DEF Late, Active, Confirmed, Stored
    <3>2. \A held : Archived(held)' = Archived(held)
      BY <2>1, <3>1 DEF Archived
    <3>3. QED
      BY <1>2, <2>1, <2>3, <3>1, <3>2 DEF DeletionIsFinal
  <2>4. QED
    BY <1>4, <2>1, <2>2, <2>3
<1>10. CASE Stage \/ Confirm \/ ArchiveFails
  <2>1. /\ pc \in {"stage", "publish", "confirm"} /\ pc' \in {"publish", "drop", "undo"}
        /\ deleted' = deleted
    BY <1>10 DEF Stage, Confirm, ArchiveFails, Go, historyVars
  <2>2. deleted = {}
    BY <1>2, <2>1 DEF DeletionIsFinal
  <2>3. QED
    BY <2>1, <2>2, NothingDeleted
<1>11. CASE Undo
  <2>1. Active' = Active /\ (Active # 0 => manifests'[Active] = manifests[Active])
    BY <1>2, <1>11, FailedWasStaged, ActiveStays
  <2>2. UNCHANGED <<db, deleted, recovery, clock>> /\ pc' = "idle"
    BY <1>11 DEF Undo, EndRun, historyVars
  <2>3. deleted # {} => Active # 0
    BY <1>2 DEF DeletionIsFinal, Archived
  <2>4. \A held \in deleted : Archived(held)'
    BY <1>2, <2>1, <2>3 DEF DeletionIsFinal, Archived
  <2>5. QED
    BY <1>2, <2>1, <2>2, <2>3, <2>4 DEF DeletionIsFinal
<1>12. CASE Delete
  BY <1>2, <1>12, DeleteKeeps
<1>13. CASE \E b \in Bucket : Observe(b) \/ Download(b)
  BY <1>4, <1>13 DEF Observe, Download, dbVars, runVars, historyVars
<1>14. CASE LoseLive \/ DropRecovery \/ Tick
  BY <1>4, <1>14 DEF LoseLive, DropRecovery, Tick, dbVars, runVars, historyVars
<1>15. CASE StartRun \/ Fetch \/ Publish \/ DropOutdated \/ Die
  BY <1>4, <1>15 DEF StartRun, Fetch, Publish, DropOutdated, Die, Go, EndRun, dbVars, runVars,
                     historyVars
<1>16. QED
  BY <1>5, <1>6, <1>7, <1>8, <1>9, <1>10, <1>11, <1>12, <1>13, <1>14, <1>15 DEF Next

-----------------------------------------------------------------------------
(* Results *)

LEMMA ArchiveInvHolds == Spec => []ArchiveInv
<1>1. ASSUME ArchiveInv, Next
      PROVE  ArchiveInv'
  <2>1. TypeOK' /\ GenerationsAgree' /\ RunIsLate'
    BY <1>1, TypeKeeps, GenerationsKeep, RunIsLateKeeps DEF ArchiveInv
  <2>2. ~overlooked' => CopyIsTrue'
    <3>1. ~overlooked' => ~overlooked
      BY <1>1, HistoryStays
    <3>2. QED
      BY <1>1, <3>1, CopyKeeps DEF ArchiveInv
  <2>3. ~overlooked' /\ ~overlapped' => DeletionIsFinal'
    BY <1>1, DeletionKeeps
  <2>4. QED
    BY <2>1, <2>2, <2>3 DEF ArchiveInv
<1>2. ASSUME ArchiveInv, UNCHANGED vars
      PROVE  ArchiveInv'
  <2>1. UNCHANGED <<clock, db, manifests, incoming, recovery, files, pc, cutoff, fetched, stamp,
                    refreshed, deleted, overlooked, overlapped>>
    BY <1>2 DEF vars, dbVars, runVars, historyVars
  <2>2. Active' = Active /\ Newest' = Newest /\ Late' = Late /\ Confirmed' = Confirmed
    BY <2>1 DEF Active, Confirmed, Newest, Late, Stored
  <2>3. TypeOK' /\ GenerationsAgree' /\ RunIsLate'
    BY <1>2, <2>1, <2>2, Zenon DEF ArchiveInv, TypeOK, GenerationsAgree, RunIsLate
  <2>4. (~overlooked => CopyIsTrue)'
    BY <1>2, <2>1, <2>2, Zenon DEF ArchiveInv, CopyIsTrue, Stored
  <2>5. (~overlooked /\ ~overlapped => DeletionIsFinal)'
    BY <1>2, <2>1, <2>2, Zenon DEF ArchiveInv, DeletionIsFinal, Stored, Archived
  <2>6. QED
    BY <2>3, <2>4, <2>5 DEF ArchiveInv
<1>3. QED
  BY ArchiveInit, <1>1, <1>2, PTL DEF Spec

(* The database, the generations, the files and the run are of their types.         *)
THEOREM TypeCorrect == Spec => []TypeOK
<1>1. ArchiveInv => TypeOK
  BY DEF ArchiveInv
<1>2. QED
  BY <1>1, ArchiveInvHolds, PTL

(* The confirmed generation always has its file and is the only one; and what        *)
(* retention deleted stays in it, value for value, the two races aside that the      *)
(* histories name.                                                                   *)
THEOREM ArchiveIsKept == Spec => []ArchiveHolds
<1>1. ASSUME ArchiveInv PROVE ArchiveHolds
  <2>1. Cardinality(Confirmed) <= 1
    <3>1. CASE Confirmed = {}
      BY <3>1, FS_EmptySet
    <3>2. CASE Confirmed # {}
      <4>1. PICK g \in Confirmed : Confirmed = {g}
        BY <1>1, <3>2 DEF ArchiveInv, GenerationsAgree
      <4>2. Cardinality(Confirmed) = 1
        BY <4>1, FS_Singleton
      <4>3. QED
        BY <4>2
    <3>3. QED
      BY <3>1, <3>2
  <2>2. Active # 0 => Active \in files
    BY <1>1, ActiveIsConfirmed DEF ArchiveInv, TypeOK, GenerationsAgree
  <2>3. NothingElseIsLost
    BY <1>1 DEF ArchiveInv, NothingElseIsLost, DeletionIsFinal
  <2>4. QED
    BY <1>1, <2>1, <2>2, <2>3 DEF ArchiveHolds, ConfirmedIsIntact, ArchiveInv
<1>2. QED
  BY <1>1, ArchiveInvHolds, PTL

(* Retention never deletes a held that was observed after the confirmation, and       *)
(* nothing at all while no generation is confirmed.                                  *)
THEOREM LateRowsStay == Spec => LateRowsSurvive
<1>1. ASSUME ArchiveInv, [Next]_vars, NEW b \in Bucket, db[b] # NoRow, db'[b] = NoRow
      PROVE  Active # 0 /\ db[b] <= manifests[Active].confirmedAt
  <2>1. db \in [Bucket -> Row] /\ clock \in Nat /\ NoRow \notin Nat
    BY <1>1, ArchiveAssumption DEF ArchiveInv, TypeOK
  <2>2. CASE Delete
    BY <1>1, <2>2 DEF Delete, OldestDoomed, Doomed, ArchiveInv, RunIsLate
  <2>3. ASSUME NEW at \in Bucket, NEW observed \in Nat, db' = [db EXCEPT ![at] = observed]
        PROVE  FALSE
    BY <1>1, <2>1, <2>3
  <2>4. CASE InsertRecovered
    <3>1. recovery.bucket \in Bucket /\ recovery.observed \in Nat
      BY <1>1, <2>4 DEF ArchiveInv, TypeOK, InsertRecovered, Recovered
    <3>2. QED
      BY <1>1, <2>3, <2>4, <3>1 DEF InsertRecovered
  <2>5. ASSUME NEW at \in Bucket, NEW observed \in 0..clock, StoreLive(at, observed)
        PROVE  FALSE
    <3>1. observed \in Nat
      BY <2>1
    <3>2. QED
      BY <1>1, <2>3, <2>5, <3>1 DEF StoreLive
  <2>6. CASE db' = db
    BY <1>1, <2>6
  <2>7. QED
    BY <1>1, <2>2, <2>4, <2>5, <2>6
    DEF Next, Observe, Download, LoseLive, CheckRecovery, DropRecovery, Tick, StartRun, Inspect, Fetch,
        Stage, Publish, Confirm, ArchiveFails, Undo, DropOutdated, CheckLate, Die, dbVars, vars
<1>2. ArchiveInv /\ [Next]_vars =>
        \A b \in Bucket : db[b] # NoRow /\ db'[b] = NoRow =>
                            Active # 0 /\ db[b] <= manifests[Active].confirmedAt
  BY <1>1
<1>3. QED
  BY <1>2, ArchiveInvHolds, PTL DEF Spec, LateRowsSurvive

-----------------------------------------------------------------------------
(***************************************************************************)
(* ActivityPublication: whoever is between its read and its replacement has*)
(* the lock (OneInLock), so what it replaces is what it looked at, or came *)
(* from outside after its last look (SeenOrLate).                          *)
(***************************************************************************)

\* What the activity file may be.
ActivityFile == [id : Nat, kind : FileKinds, cutoff : Nat]

\* The places of a child between taking the lock and giving it up.
InLock == {"locked", "staged", "kept", "checked"}

Projected == {"staged", "kept", "checked"}

ActivityTyped ==
  /\ cutoffClock \in Nat /\ written \in Nat
  /\ file \in ActivityFile \cup {Absent}
  /\ child \in [Children -> [step : {"none", "begun"} \cup InLock, now : Nat,
                             previous : ActivityFile \cup {Absent}, cutoff : Nat]]

\* Whoever is between its read and its replacement has the lock.
OneInLock == \A c \in Children : child[c].step \in InLock => holder = c

\* What was published when a child looked is not later than what it computed.
NotOlder ==
  \A c \in Children : child[c].step \in Projected => ~Older(child[c].previous, child[c].cutoff)

\* A corrupt content is copied before the last look.
CopiedFirst ==
  \A c \in Children : child[c].step \in {"kept", "checked"} /\ IsCorrupt(child[c].previous) =>
    child[c].previous.id \in backups

\* What a child replaces is what it looked at, or came later.
SeenOrLate ==
  \A c \in Children : child[c].step = "checked" =>
    file = child[c].previous \/ file.id \in unseen

ActivityInv ==
  /\ ActivityTyped /\ OneInLock /\ NotOlder /\ CopiedFirst /\ SeenOrLate /\ CorruptIsKept

LEMMA ActivityInitHolds == ActivityInit => ActivityInv
<1> SUFFICES ASSUME ActivityInit PROVE ActivityInv
  OBVIOUS
<1>1. \A c \in Children : child[c] = [step |-> "none", now |-> 0, previous |-> Absent, cutoff |-> 0]
  BY DEF ActivityInit, Quiet
<1>2. ActivityTyped
  BY DEF ActivityInit, Quiet, ActivityTyped, InLock
<1>3. QED
  BY <1>1, <1>2 DEF ActivityInv, ActivityInit, OneInLock, NotOlder, CopiedFirst, SeenOrLate,
                    CorruptIsKept, InLock, Projected

\* A child that ends takes nothing from the others.
LEMMA EndingKeeps ==
  ASSUME ActivityInv, NEW c \in Children, Ended(c), UNCHANGED <<cutoffClock, written, file>>,
         backups \subseteq backups', unseen \subseteq unseen', destroyed' = destroyed
  PROVE  ActivityInv'
<1>1. \A d \in Children : child'[d] = IF d = c THEN Quiet ELSE child[d]
  BY DEF ActivityInv, ActivityTyped, Ended
<1>2. ActivityTyped'
  BY DEF ActivityInv, ActivityTyped, Ended, Quiet, InLock
<1>3. \A d \in Children : child'[d].step # "none" => d # c /\ child'[d] = child[d]
  BY <1>1 DEF Quiet
<1>4. OneInLock'
  BY <1>3 DEF ActivityInv, OneInLock, InLock, Ended
<1>5. NotOlder' /\ CopiedFirst'
  BY <1>3 DEF ActivityInv, NotOlder, CopiedFirst, Projected
<1>6. SeenOrLate' /\ CorruptIsKept'
  BY <1>3 DEF ActivityInv, SeenOrLate, CorruptIsKept
<1>7. QED
  BY <1>2, <1>4, <1>5, <1>6 DEF ActivityInv

\* A child that goes on inside the lock, with the file as it is.
LEMMA GoingOnKeeps ==
  ASSUME ActivityInv, NEW c \in Children,
         child[c].step \in InLock, child'[c].step \in InLock,
         child' = [child EXCEPT ![c] = child'[c]],
         child'[c] \in [step : {"none", "begun"} \cup InLock, now : Nat,
                        previous : ActivityFile \cup {Absent}, cutoff : Nat],
         UNCHANGED <<cutoffClock, written, file, holder, unseen, destroyed>>,
         backups \subseteq backups',
         child'[c].step \in Projected => ~Older(child'[c].previous, child'[c].cutoff),
         child'[c].step \in {"kept", "checked"} /\ IsCorrupt(child'[c].previous) =>
           child'[c].previous.id \in backups',
         child'[c].step = "checked" => file = child'[c].previous
  PROVE  ActivityInv'
<1>1. \A d \in Children : d # c => child'[d] = child[d]
  BY DEF ActivityInv, ActivityTyped
<1>2. ActivityTyped'
  BY DEF ActivityInv, ActivityTyped
<1>3. OneInLock'
  BY <1>1 DEF ActivityInv, OneInLock
<1>4. NotOlder' /\ CopiedFirst'
  BY <1>1 DEF ActivityInv, NotOlder, CopiedFirst
<1>5. SeenOrLate' /\ CorruptIsKept'
  BY <1>1 DEF ActivityInv, SeenOrLate, CorruptIsKept
<1>6. QED
  BY <1>2, <1>3, <1>4, <1>5 DEF ActivityInv

LEMMA ChangedOutsideKeeps ==
  ASSUME ActivityInv, NEW kind \in FileKinds, ChangedOutside(kind)
  PROVE  ActivityInv'
<1>1. /\ file' # Absent => file'.id = written'
      /\ written' \in Nat /\ file' \in ActivityFile
      /\ file'.id = written'
  BY DEF ActivityInv, ActivityTyped, ChangedOutside, ActivityFile
<1>2. ActivityTyped'
  BY <1>1 DEF ActivityInv, ActivityTyped, ChangedOutside
<1>3. unseen \subseteq unseen' /\ UNCHANGED <<child, holder, backups, destroyed>>
  BY DEF ChangedOutside
<1>4. OneInLock' /\ NotOlder' /\ CopiedFirst' /\ CorruptIsKept'
  BY <1>3 DEF ActivityInv, OneInLock, NotOlder, CopiedFirst, CorruptIsKept
<1>5. ASSUME NEW c \in Children, child[c].step = "checked" PROVE file'.id \in unseen'
  BY <1>1, <1>5 DEF ChangedOutside
<1>6. SeenOrLate'
  BY <1>1, <1>3, <1>5 DEF SeenOrLate
<1>7. QED
  BY <1>2, <1>4, <1>6 DEF ActivityInv

LEMMA StartChildKeeps ==
  ASSUME ActivityInv, NEW c \in Children, StartChild(c)
  PROVE  ActivityInv'
<1>1. /\ \A d \in Children : d # c => child'[d] = child[d]
      /\ child'[c].step = "begun"
      /\ UNCHANGED <<cutoffClock, written, file, holder, backups, unseen, destroyed>>
  BY DEF ActivityInv, ActivityTyped, StartChild, Quiet
<1>2. ActivityTyped'
  BY DEF ActivityInv, ActivityTyped, StartChild, Quiet
<1>3. OneInLock' /\ NotOlder' /\ CopiedFirst' /\ SeenOrLate' /\ CorruptIsKept'
  BY <1>1 DEF ActivityInv, OneInLock, NotOlder, CopiedFirst, SeenOrLate, CorruptIsKept, InLock,
              Projected
<1>4. QED
  BY <1>2, <1>3 DEF ActivityInv

LEMMA EnterChildKeeps ==
  ASSUME ActivityInv, NEW c \in Children, EnterChild(c)
  PROVE  ActivityInv'
<1>1. CASE TakesLock /\ (file = Absent \/ file.kind # "foreign")
  <2>1. /\ \A d \in Children : d # c => child'[d] = child[d]
        /\ child'[c].step = "locked" /\ holder = NoChild /\ holder' = c
        /\ UNCHANGED <<cutoffClock, written, file, backups, unseen, destroyed>>
    BY <1>1 DEF ActivityInv, ActivityTyped, EnterChild, TakesLock
  <2>2. ActivityTyped'
    BY <1>1 DEF ActivityInv, ActivityTyped, EnterChild, InLock
  <2>3. \A d \in Children : d # c => child[d].step \notin InLock
    BY <2>1, ActivityAssumption DEF ActivityInv, OneInLock
  <2>4. OneInLock' /\ NotOlder' /\ CopiedFirst' /\ SeenOrLate' /\ CorruptIsKept'
    BY <2>1, <2>3 DEF ActivityInv, OneInLock, NotOlder, CopiedFirst, SeenOrLate, CorruptIsKept,
                      InLock, Projected
  <2>5. QED
    BY <2>2, <2>4 DEF ActivityInv
<1>2. CASE ~(TakesLock /\ (file = Absent \/ file.kind # "foreign"))
  BY <1>2, EndingKeeps DEF EnterChild
<1>3. QED
  BY <1>1, <1>2

LEMMA ProjectKeeps ==
  ASSUME ActivityInv, NEW c \in Children, Project(c)
  PROVE  ActivityInv'
<1>1. CASE Older(child[c].previous, child[c].now)
  BY <1>1, EndingKeeps DEF Project
<1>2. CASE ~Older(child[c].previous, child[c].now)
  <2>1. child'[c] = [child[c] EXCEPT !.step = "staged", !.cutoff = child[c].now]
    BY <1>2 DEF ActivityInv, ActivityTyped, Project
  <2>2. child' = [child EXCEPT ![c] = child'[c]]
    BY <1>2, <2>1 DEF ActivityInv, ActivityTyped, Project
  <2>3. /\ child'[c].step = "staged" /\ child'[c].previous = child[c].previous
        /\ child'[c].cutoff = child[c].now
        /\ child'[c] \in [step : {"none", "begun"} \cup InLock, now : Nat,
                          previous : ActivityFile \cup {Absent}, cutoff : Nat]
    BY <2>1 DEF ActivityInv, ActivityTyped, InLock
  <2>4. QED
    BY <1>2, <2>2, <2>3, GoingOnKeeps DEF Project, InLock
<1>3. QED
  BY <1>1, <1>2

LEMMA KeepKeeps ==
  ASSUME ActivityInv, NEW c \in Children, Keep(c)
  PROVE  ActivityInv'
<1>1. CASE file # child[c].previous
  BY <1>1, EndingKeeps DEF Keep
<1>2. CASE file = child[c].previous
  <2>1. child'[c] = [child[c] EXCEPT !.step = "kept"]
    BY <1>2 DEF ActivityInv, ActivityTyped, Keep
  <2>2. child' = [child EXCEPT ![c] = child'[c]]
    BY <1>2, <2>1 DEF ActivityInv, ActivityTyped, Keep
  <2>3. /\ child'[c].step = "kept" /\ child'[c].previous = child[c].previous
        /\ child'[c].cutoff = child[c].cutoff
        /\ child'[c] \in [step : {"none", "begun"} \cup InLock, now : Nat,
                          previous : ActivityFile \cup {Absent}, cutoff : Nat]
    BY <2>1 DEF ActivityInv, ActivityTyped, InLock
  <2>4. /\ backups \subseteq backups'
        /\ IsCorrupt(child[c].previous) => child[c].previous.id \in backups'
    BY <1>2 DEF Keep, Backup
  <2>5. ~Older(child[c].previous, child[c].cutoff)
    BY DEF Keep, ActivityInv, NotOlder, Projected
  <2>6. QED
    BY <1>2, <2>2, <2>3, <2>4, <2>5, GoingOnKeeps DEF Keep, InLock
<1>3. QED
  BY <1>1, <1>2

LEMMA CheckAgainKeeps ==
  ASSUME ActivityInv, NEW c \in Children, CheckAgain(c)
  PROVE  ActivityInv'
<1>1. CASE file # child[c].previous
  BY <1>1, EndingKeeps DEF CheckAgain
<1>2. CASE file = child[c].previous
  <2>1. child'[c] = [child[c] EXCEPT !.step = "checked"]
    BY <1>2 DEF ActivityInv, ActivityTyped, CheckAgain
  <2>2. child' = [child EXCEPT ![c] = child'[c]]
    BY <1>2, <2>1 DEF ActivityInv, ActivityTyped, CheckAgain
  <2>3. /\ child'[c].step = "checked" /\ child'[c].previous = child[c].previous
        /\ child'[c].cutoff = child[c].cutoff
        /\ child'[c] \in [step : {"none", "begun"} \cup InLock, now : Nat,
                          previous : ActivityFile \cup {Absent}, cutoff : Nat]
    BY <2>1 DEF ActivityInv, ActivityTyped, InLock
  <2>4. /\ ~Older(child[c].previous, child[c].cutoff)
        /\ IsCorrupt(child[c].previous) => child[c].previous.id \in backups
    BY DEF CheckAgain, ActivityInv, NotOlder, CopiedFirst, Projected
  <2>5. QED
    BY <1>2, <2>2, <2>3, <2>4, GoingOnKeeps DEF CheckAgain, InLock
<1>3. QED
  BY <1>1, <1>2

LEMMA ReplaceKeeps ==
  ASSUME ActivityInv, NEW c \in Children, Replace(c)
  PROVE  ActivityInv'
<1>1. child[c].step = "checked" /\ \A d \in Children : d # c => child[d].step \notin InLock
  BY DEF Replace, ActivityInv, OneInLock, InLock
<1>2. \A d \in Children : child'[d] = IF d = c THEN Quiet ELSE child[d]
  BY DEF ActivityInv, ActivityTyped, Replace, Ended
<1>3. \A d \in Children : child'[d].step \notin InLock
  BY <1>1, <1>2 DEF Quiet, InLock
<1>4. ActivityTyped'
  BY DEF ActivityInv, ActivityTyped, ActivityFile, FileKinds, Replace, Ended, Quiet, InLock
<1>5. OneInLock' /\ NotOlder' /\ CopiedFirst' /\ SeenOrLate'
  BY <1>3 DEF OneInLock, NotOlder, CopiedFirst, SeenOrLate, InLock, Projected
<1>6. IsCorrupt(file) /\ file.id \notin backups => file.id \in unseen
  BY <1>1 DEF ActivityInv, SeenOrLate, CopiedFirst
<1>7. CorruptIsKept'
  BY <1>6 DEF ActivityInv, CorruptIsKept, Replace
<1>8. QED
  BY <1>4, <1>5, <1>7 DEF ActivityInv

LEMMA AsideKeeps ==
  ASSUME ActivityInv, UNCHANGED <<written, file, child, holder, backups, unseen, destroyed>>,
         cutoffClock' \in Nat
  PROVE  ActivityInv'
BY DEF ActivityInv, ActivityTyped, OneInLock, NotOlder, CopiedFirst, SeenOrLate, CorruptIsKept

LEMMA ActivityNextKeeps ==
  ASSUME ActivityInv, [ActivityNext]_activityVars
  PROVE  ActivityInv'
<1>1. CASE ActivityTick \/ ServiceDies \/ UNCHANGED activityVars
  <2>1. cutoffClock' \in Nat
    BY <1>1 DEF ActivityInv, ActivityTyped, ActivityTick, ServiceDies, activityVars
  <2>2. QED
    BY <1>1, <2>1, AsideKeeps DEF ActivityTick, ServiceDies, activityVars
<1>2. CASE \E kind \in FileKinds : ChangedOutside(kind)
  BY <1>2, ChangedOutsideKeeps
<1>3. ASSUME NEW c \in Children, KillChild(c) \/ ChildFails(c) PROVE ActivityInv'
  BY <1>3, EndingKeeps DEF KillChild, ChildFails
<1>4. QED
  BY <1>1, <1>2, <1>3, StartChildKeeps, EnterChildKeeps, ProjectKeeps, KeepKeeps, CheckAgainKeeps,
     ReplaceKeeps DEF ActivityNext

LEMMA ReplacingIsLater ==
  ASSUME ActivityInv, NEW c \in Children, Replace(c), file # Absent, file.kind = "valid"
  PROVE  file.id \in unseen \/ file'.cutoff >= file.cutoff
<1>1. child[c].step = "checked" /\ ~Older(child[c].previous, child[c].cutoff)
  BY DEF Replace, ActivityInv, NotOlder, Projected
<1>2. CASE file = child[c].previous
  <2>1. ~(file.cutoff > child[c].cutoff)
    BY <1>1, <1>2 DEF Older
  <2>2. file.cutoff \in Nat /\ child[c].cutoff \in Nat
    BY DEF ActivityInv, ActivityTyped, ActivityFile
  <2>3. QED
    BY <2>1, <2>2 DEF Replace
<1>3. QED
  BY <1>1, <1>2 DEF ActivityInv, SeenOrLate

LEMMA FileStays ==
  ASSUME ActivityInv, [ActivityNext]_activityVars
  PROVE  \/ file' = file
         \/ \E c \in Children : Replace(c)
         \/ file # Absent => file'.cutoff = file.cutoff
<1>1. CASE \E kind \in FileKinds : ChangedOutside(kind)
  BY <1>1 DEF ChangedOutside
<1>2. CASE ActivityTick \/ ServiceDies \/ UNCHANGED activityVars
  BY <1>2 DEF ActivityTick, ServiceDies, activityVars
<1>3. ASSUME NEW c \in Children,
             StartChild(c) \/ KillChild(c) \/ EnterChild(c) \/ Project(c) \/ Keep(c)
               \/ CheckAgain(c) \/ ChildFails(c)
      PROVE  file' = file
  BY <1>3 DEF StartChild, KillChild, EnterChild, Project, Keep, CheckAgain, ChildFails
<1>4. QED
  BY <1>1, <1>2, <1>3 DEF ActivityNext

\* Whatever children are left over from a service that died, the activity that is shown is
\* never replaced by an older one, unless somebody else's file came in the last moment.
THEOREM CutoffStaysUp == ActivitySpec => CutoffNeverFalls
<1> DEFINE Later ==
      \/ file = Absent \/ file' = Absent
      \/ file.kind # "valid" \/ file'.kind # "valid"
      \/ file.id \in unseen
      \/ file'.cutoff >= file.cutoff
<1>1. ActivityInv /\ [ActivityNext]_activityVars => [Later]_activityVars
  <2> SUFFICES ASSUME ActivityInv, [ActivityNext]_activityVars PROVE Later
    OBVIOUS
  <2>1. file # Absent => file.cutoff \in Nat
    BY DEF ActivityInv, ActivityTyped, ActivityFile
  <2>2. QED
    BY <2>1, FileStays, ReplacingIsLater
<1>2. QED
  BY <1>1, ActivityInitHolds, ActivityNextKeeps, PTL DEF ActivitySpec, CutoffNeverFalls

\* A corrupt content that a publication replaced is in a backup, unless it came between that
\* publication's last look and its replacement.
THEOREM CorruptStaysKept == ActivitySpec => []CorruptIsKept
<1>1. ActivityInv => CorruptIsKept
  BY DEF ActivityInv
<1>2. QED
  BY <1>1, ActivityInitHolds, ActivityNextKeeps, PTL DEF ActivitySpec

-----------------------------------------------------------------------------
(* Every content is one that was written, and every cutoff one that passed. *)
ContentIsBounded(f, n) ==
  f # Absent => f.id \in 1..n /\ f.kind \in FileKinds /\ f.cutoff \in 0..MaxCutoff

ChildIsBounded(c) ==
  /\ child[c].now \in 0..MaxCutoff /\ child[c].cutoff \in 0..MaxCutoff
  /\ ContentIsBounded(child[c].previous, written)

ActivityBounded ==
  /\ cutoffClock \in 0..MaxCutoff /\ written \in Nat
  /\ ContentIsBounded(file, written)
  /\ backups \subseteq 1..written
  /\ holder \in Children \cup {NoChild} /\ awaited \in Children \cup {NoChild}
  /\ DOMAIN child = Children
  /\ \A c \in Children :
       /\ DOMAIN child[c] = {"step", "now", "previous", "cutoff"}
       /\ ChildIsBounded(c)

LEMMA BoundedInitHolds == ActivityInit => ActivityBounded
  BY ActivityAssumption
     DEF ActivityInit, ActivityBounded, ContentIsBounded, ChildIsBounded, Quiet

LEMMA BoundedSays == ActivityBounded => ActivityTypeOK
  BY DEF ActivityBounded, ContentIsBounded, ActivityTypeOK

LEMMA ContentStaysBounded ==
  ASSUME NEW n \in Nat, NEW f, ContentIsBounded(f, n) PROVE ContentIsBounded(f, n + 1)
  BY DEF ContentIsBounded

(* Only the child that moves changes, and nothing else of its record but what is said. *)
LEMMA ChildrenStayBounded ==
  ASSUME ActivityBounded, NEW c \in Children, NEW new,
         DOMAIN new = {"step", "now", "previous", "cutoff"},
         new.now \in 0..MaxCutoff, new.cutoff \in 0..MaxCutoff,
         ContentIsBounded(new.previous, written),
         child' = [child EXCEPT ![c] = new], written' \in {written, written + 1},
         ContentIsBounded(file', written'), backups' \subseteq 1..written', cutoffClock' = cutoffClock,
         holder' \in Children \cup {NoChild}, awaited' \in Children \cup {NoChild}
  PROVE  ActivityBounded'
<1>1. written \in Nat /\ written' \in Nat
  BY DEF ActivityBounded
<1>2. ASSUME NEW f, ContentIsBounded(f, written) PROVE ContentIsBounded(f, written')
  BY <1>1, <1>2, ContentStaysBounded
<1>3. DOMAIN child' = Children /\ child'[c] = new
      /\ \A d \in Children : d # c => child'[d] = child[d]
  BY DEF ActivityBounded
<1>4. ASSUME NEW d \in Children
      PROVE  DOMAIN child'[d] = {"step", "now", "previous", "cutoff"} /\ ChildIsBounded(d)'
  <2>1. CASE d = c
    BY <1>2, <1>3, <2>1 DEF ChildIsBounded
  <2>2. CASE d # c
    <3>1. child'[d] = child[d] /\ ChildIsBounded(d)
          /\ DOMAIN child[d] = {"step", "now", "previous", "cutoff"}
      BY <1>3, <2>2 DEF ActivityBounded
    <3>. QED
      BY <1>2, <3>1 DEF ChildIsBounded
  <2>. QED
    BY <2>1, <2>2
<1>. QED
  BY <1>1, <1>3, <1>4 DEF ActivityBounded

LEMMA EndingStaysBounded ==
  ASSUME ActivityBounded, NEW c \in Children, Ended(c), written' \in {written, written + 1},
         ContentIsBounded(file', written'), backups' \subseteq 1..written', cutoffClock' = cutoffClock
  PROVE  ActivityBounded'
<1>1. /\ DOMAIN Quiet = {"step", "now", "previous", "cutoff"}
      /\ Quiet.now \in 0..MaxCutoff /\ Quiet.cutoff \in 0..MaxCutoff
      /\ ContentIsBounded(Quiet.previous, written)
  BY ActivityAssumption DEF Quiet, ContentIsBounded
<1>2. /\ child' = [child EXCEPT ![c] = Quiet]
      /\ holder' \in Children \cup {NoChild} /\ awaited' \in Children \cup {NoChild}
  BY DEF Ended, ActivityBounded
<1>. HIDE DEF Quiet
<1>. QED
  BY <1>1, <1>2, ChildrenStayBounded

LEMMA ActivityStaysBounded ==
  ASSUME ActivityBounded, [ActivityNext]_activityVars PROVE ActivityBounded'
<1>0. /\ cutoffClock \in 0..MaxCutoff /\ written \in Nat /\ MaxCutoff \in Nat
      /\ ContentIsBounded(file, written) /\ backups \subseteq 1..written
      /\ \A c \in Children : /\ ChildIsBounded(c)
                             /\ DOMAIN child[c] = {"step", "now", "previous", "cutoff"}
  BY ActivityAssumption DEF ActivityBounded
<1>1. CASE ActivityTick \/ ServiceDies \/ UNCHANGED activityVars
  <2>1. /\ UNCHANGED <<file, backups, child, holder, written>>
        /\ awaited' \in Children \cup {NoChild} /\ cutoffClock' \in 0..MaxCutoff
    BY <1>0, <1>1 DEF ActivityTick, ServiceDies, activityVars, ActivityBounded
  <2>. QED
    BY <2>1 DEF ActivityBounded, ChildIsBounded
<1>2. ASSUME NEW kind \in FileKinds, ChangedOutside(kind) PROVE ActivityBounded'
  <2>1. /\ written' = written + 1 /\ UNCHANGED <<cutoffClock, backups, child, holder, awaited>>
        /\ file' = [id |-> written', kind |-> kind,
                    cutoff |-> IF file = Absent THEN 0 ELSE file.cutoff]
    BY <1>2 DEF ChangedOutside
  <2>2. (IF file = Absent THEN 0 ELSE file.cutoff) \in 0..MaxCutoff
    BY <1>0 DEF ContentIsBounded
  <2>3. file'.id = written' /\ file'.kind = kind /\ file'.cutoff \in 0..MaxCutoff
    BY <2>1, <2>2
  <2>4. written' \in Nat /\ ContentIsBounded(file', written')
    BY <1>0, <2>1, <2>3 DEF ContentIsBounded
  <2>5. backups' \subseteq 1..written'
    BY <1>0, <2>1
  <2>6. ASSUME NEW c \in Children PROVE ChildIsBounded(c)'
    BY <1>0, <2>1, ContentStaysBounded DEF ChildIsBounded
  <2>. QED
    BY <1>0, <2>1, <2>4, <2>5, <2>6 DEF ActivityBounded
<1>3. ASSUME NEW c \in Children, StartChild(c) PROVE ActivityBounded'
  <2>. DEFINE new == [Quiet EXCEPT !.step = "begun", !.now = cutoffClock]
  <2>1. /\ DOMAIN new = {"step", "now", "previous", "cutoff"}
        /\ new.now = cutoffClock /\ new.cutoff = 0 /\ new.previous = Absent
    BY DEF Quiet
  <2>2. child' = [child EXCEPT ![c] = new]
    BY <1>3 DEF StartChild
  <2>. HIDE DEF new
  <2>3. new.cutoff \in 0..MaxCutoff /\ ContentIsBounded(new.previous, written)
    BY <1>0, <2>1 DEF ContentIsBounded
  <2>. QED
    BY <1>0, <1>3, <2>1, <2>2, <2>3, ChildrenStayBounded DEF StartChild, ActivityBounded
<1>4. ASSUME NEW c \in Children, KillChild(c) \/ ChildFails(c) PROVE ActivityBounded'
  BY <1>0, <1>4, EndingStaysBounded DEF KillChild, ChildFails
<1>5. ASSUME NEW c \in Children, EnterChild(c) PROVE ActivityBounded'
  <2>1. CASE Ended(c)
    BY <1>0, <1>5, <2>1, EndingStaysBounded DEF EnterChild
  <2>2. CASE ~Ended(c)
    <3>. DEFINE new == [child[c] EXCEPT !.step = "locked", !.previous = file]
    <3>1. /\ DOMAIN new = {"step", "now", "previous", "cutoff"}
          /\ new.now = child[c].now /\ new.cutoff = child[c].cutoff /\ new.previous = file
      BY <1>0
    <3>2. child' = [child EXCEPT ![c] = new] /\ holder' = c /\ awaited' = awaited
      BY <1>0, <1>5, <2>2 DEF EnterChild, ActivityBounded
    <3>. HIDE DEF new
    <3>. QED
      BY <1>0, <1>5, <3>1, <3>2, ChildrenStayBounded DEF EnterChild, ActivityBounded, ChildIsBounded
  <2>. QED
    BY <2>1, <2>2
<1>6. ASSUME NEW c \in Children, Project(c) PROVE ActivityBounded'
  <2>1. CASE Ended(c)
    BY <1>0, <1>6, <2>1, EndingStaysBounded DEF Project
  <2>2. CASE ~Ended(c)
    <3>. DEFINE new == [child[c] EXCEPT !.step = "staged", !.cutoff = child[c].now]
    <3>1. /\ DOMAIN new = {"step", "now", "previous", "cutoff"}
          /\ new.now = child[c].now /\ new.cutoff = child[c].now
          /\ new.previous = child[c].previous
      BY <1>0
    <3>2. child' = [child EXCEPT ![c] = new] /\ UNCHANGED <<holder, awaited>>
      BY <1>0, <1>6, <2>2 DEF Project, ActivityBounded
    <3>. HIDE DEF new
    <3>. QED
      BY <1>0, <1>6, <3>1, <3>2, ChildrenStayBounded DEF Project, ActivityBounded, ChildIsBounded
  <2>. QED
    BY <2>1, <2>2
<1>7. ASSUME NEW c \in Children, Keep(c) \/ CheckAgain(c) PROVE ActivityBounded'
  <2>1. backups' \subseteq 1..written /\ UNCHANGED <<file, written, cutoffClock>>
    <3>1. IsCorrupt(child[c].previous) => child[c].previous.id \in 1..written
      BY <1>0 DEF IsCorrupt, ChildIsBounded, ContentIsBounded
    <3>. QED
      BY <1>0, <1>7, <3>1 DEF Keep, CheckAgain, Backup
  <2>2. CASE Ended(c)
    BY <1>0, <2>1, <2>2, EndingStaysBounded
  <2>3. CASE ~Ended(c)
    <3>1. PICK step \in {"kept", "checked"} :
            child' = [child EXCEPT ![c].step = step] /\ UNCHANGED <<holder, awaited>>
      BY <1>7, <2>3 DEF Keep, CheckAgain
    <3>. DEFINE new == [child[c] EXCEPT !.step = step]
    <3>2. /\ DOMAIN new = {"step", "now", "previous", "cutoff"}
          /\ new.now = child[c].now /\ new.cutoff = child[c].cutoff
          /\ new.previous = child[c].previous
      BY <1>0
    <3>3. child' = [child EXCEPT ![c] = new]
      BY <1>0, <3>1 DEF ActivityBounded
    <3>. HIDE DEF new
    <3>. QED
      BY <1>0, <2>1, <3>1, <3>2, <3>3, ChildrenStayBounded DEF ActivityBounded, ChildIsBounded
  <2>. QED
    BY <2>2, <2>3
<1>8. ASSUME NEW c \in Children, Replace(c) PROVE ActivityBounded'
  <2>1. /\ written' = written + 1 /\ Ended(c) /\ UNCHANGED <<cutoffClock, backups>>
        /\ file' = [id |-> written', kind |-> "valid", cutoff |-> child[c].cutoff]
    BY <1>8 DEF Replace
  <2>2. file'.id = written' /\ file'.kind = "valid" /\ file'.cutoff \in 0..MaxCutoff
    BY <1>0, <2>1 DEF ChildIsBounded
  <2>3. ContentIsBounded(file', written') /\ backups' \subseteq 1..written'
    BY <1>0, <2>1, <2>2 DEF ContentIsBounded, FileKinds
  <2>. QED
    BY <2>1, <2>3, EndingStaysBounded
<1>. QED
  BY <1>1, <1>2, <1>3, <1>4, <1>5, <1>6, <1>7, <1>8 DEF ActivityNext

-----------------------------------------------------------------------------
(***************************************************************************)
(* Artifacts: a reader takes its files one by one between two looks at the *)
(* service state.  What the publisher knows to be listed is on disk and of *)
(* one selection as long as the state is not written over, and a file that *)
(* is written is not listed at that moment (WrittenIsNotListed).           *)
(***************************************************************************)

ArtifactTypeOK ==
  /\ primary \in Selection
  /\ disk \in [Part -> File \cup {NoFile}]
  /\ service \in State \cup {NoFile}
  /\ known \in Listing \cup {NoFile}
  /\ publisher \in [step : Part \cup {"idle", "service"}, full : BOOLEAN,
                    at : Nat \cup {NoFile}, for : Selection, listed : Listing]
  /\ skewed \in BOOLEAN
  /\ reader \in [step : {"idle", "before", "files"}, wanted : SUBSET Part,
                 before : Nat \cup {NoFile}, got : UNION {[S -> File] : S \in SUBSET Part},
                 attempt : Nat]
  /\ {publications, selects, failures, crashes} \subseteq Nat

(* Times are numbers of publications: nothing is of a later one than the last. *)
NothingIsLater(listing, time) == \A p \in Part : listing[p] # NoFile => listing[p] <= time

TimesAgree ==
  /\ publisher.step # "idle" =>
       /\ publisher.at = publications
       /\ NothingIsLater(publisher.listed, publications)
  /\ known # NoFile => NothingIsLater(known, publications)
  /\ service # NoFile =>
       /\ service.at <= publications
       /\ publisher.step # "idle" => service.at < publications
       /\ NothingIsLater(service.listed, service.at)
  /\ reader.step = "before" => DOMAIN reader.got = {}
  /\ reader.step = "files" =>
       /\ service # NoFile /\ reader.before \in Nat /\ reader.before <= service.at

(* Once the chart is settled, and the selected file, they are of the publication's *)
(* selection if they are the listed ones.                                          *)
IsFor(part) ==
  disk[part] # NoFile /\ disk[part].at = publisher.listed[part] => disk[part].for = publisher.for

PublicationIsFor ==
  /\ publisher.step \in {"selected", "service"} => IsFor("chart")
  /\ publisher.step = "service" => IsFor("selected")

(* What is on disk, or was when the reader took it under the present service state. *)
Seen(part) ==
  {f \in {disk[part]} : f # NoFile}
    \cup {reader.got[p] : p \in {q \in DOMAIN reader.got :
                                   q = part /\ reader.step = "files" /\ service # NoFile
                                     /\ reader.before = service.at}}

ListedIsOneSelection ==
  service # NoFile =>
    \A c \in Seen("chart"), s \in Seen("selected") :
      c.at = service.listed["chart"] /\ s.at = service.listed["selected"] => c.for = s.for

OnDisk(listing) ==
  \A p \in Part : listing[p] # NoFile => disk[p] # NoFile /\ disk[p].at = listing[p]

ListedIsOnDisk ==
  /\ publisher.step # "idle" /\ (publisher.full \/ ~skewed) => OnDisk(publisher.listed)
  /\ publisher.step = "idle" /\ ~skewed /\ known # NoFile => OnDisk(known)
  /\ ~skewed /\ known # NoFile => service # NoFile /\ service.listed = known

ArtifactInv ==
  /\ ArtifactTypeOK /\ TimesAgree /\ PublicationIsFor /\ ListedIsOneSelection /\ ListedIsOnDisk
  /\ BundleIsOneSelection

LEMMA EmptyIsRead ==
  [p \in {} |-> NoFile] \in UNION {[S -> File] : S \in SUBSET Part}
<1>1. [p \in {} |-> NoFile] \in [{} -> File] /\ {} \in SUBSET Part
  OBVIOUS
<1>. QED
  BY <1>1

LEMMA ArtifactInitHolds == ArtifactInit => ArtifactInv
<1> SUFFICES ASSUME ArtifactInit PROVE ArtifactInv
  OBVIOUS
<1>. USE ArtifactAssumption, NoFileIsNone DEF ArtifactInit, NoPublication, NoReading, NoListing
<1>1. ArtifactTypeOK
  <2>1. reader \in [step : {"idle", "before", "files"}, wanted : SUBSET Part,
                   before : Nat \cup {NoFile}, got : UNION {[S -> File] : S \in SUBSET Part},
                   attempt : Nat]
    BY EmptyIsRead
  <2>2. publisher \in [step : Part \cup {"idle", "service"}, full : BOOLEAN,
                      at : Nat \cup {NoFile}, for : Selection, listed : Listing]
    BY DEF Listing, Selection
  <2>. QED
    BY <2>1, <2>2 DEF ArtifactTypeOK, Selection
<1>2. TimesAgree
  BY DEF TimesAgree
<1>3. PublicationIsFor /\ ListedIsOneSelection /\ ListedIsOnDisk /\ BundleIsOneSelection
  BY DEF PublicationIsFor, ListedIsOneSelection, ListedIsOnDisk, BundleIsOneSelection
<1>. QED
  BY <1>1, <1>2, <1>3 DEF ArtifactInv

LEMMA GotIsFiles ==
  ASSUME ArtifactTypeOK
  PROVE  /\ DOMAIN reader.got \in SUBSET Part
         /\ \A p \in DOMAIN reader.got : reader.got[p] \in File
<1>1. PICK S \in SUBSET Part : reader.got \in [S -> File]
  BY DEF ArtifactTypeOK
<1>. QED
  BY <1>1

LEMMA SeenAreFiles ==
  ASSUME ArtifactTypeOK, NEW p \in Part
  PROVE  Seen(p) \subseteq File
  BY GotIsFiles DEF ArtifactTypeOK, Seen

(* Steps of the reader. *)
LEMMA ReaderKeeps ==
  ASSUME ArtifactInv, reader'.step \in {"idle", "before"}, reader'.got = [p \in {} |-> NoFile],
         reader' \in [step : {"idle", "before", "files"}, wanted : SUBSET Part,
                      before : Nat \cup {NoFile},
                      got : UNION {[S -> File] : S \in SUBSET Part}, attempt : Nat],
         BundleIsOneSelection',
         UNCHANGED <<primary, disk, service, known, publisher, skewed, boundVars>>
  PROVE  ArtifactInv'
<1>. USE DEF boundVars
<1>1. ArtifactTypeOK'
  BY DEF ArtifactInv, ArtifactTypeOK
<1>2. TimesAgree'
  BY DEF ArtifactInv, TimesAgree, NothingIsLater
<1>3. PublicationIsFor' /\ ListedIsOnDisk'
  BY DEF ArtifactInv, PublicationIsFor, ListedIsOnDisk, OnDisk, IsFor
<1>4. \A p \in Part : Seen(p)' \subseteq Seen(p)
  BY DEF Seen
<1>5. ListedIsOneSelection'
  BY <1>4 DEF ArtifactInv, ListedIsOneSelection, Part
<1>. QED
  BY <1>1, <1>2, <1>3, <1>5 DEF ArtifactInv

LEMMA ReadersKeep ==
  ASSUME ArtifactInv,
         \/ \E wanted \in {Part, {"universe"}} : StartReading(wanted)
         \/ Refuse \/ ReadServiceBefore \/ ReadServiceAfter
         \/ \E part \in Part : ReadFile(part)
  PROVE  ArtifactInv'
<1>. USE DEF boundVars
<1>0. NoReading \in [step : {"idle", "before", "files"}, wanted : SUBSET Part,
                      before : Nat \cup {NoFile},
                      got : UNION {[S -> File] : S \in SUBSET Part}, attempt : Nat]
  BY EmptyIsRead DEF NoReading
<1>1. CASE \E wanted \in {Part, {"universe"}} : StartReading(wanted)
  <2>1. PICK wanted \in {Part, {"universe"}} : StartReading(wanted)
    BY <1>1
  <2>2. reader' = [NoReading EXCEPT !.step = "before", !.wanted = wanted, !.attempt = 1]
        /\ wanted \in SUBSET Part
    BY <2>1 DEF StartReading, Part
  <2>3. BundleIsOneSelection'
    BY <2>1 DEF StartReading, BundleIsOneSelection
  <2>4. /\ reader'.step = "before" /\ reader'.got = [p \in {} |-> NoFile]
        /\ reader' \in [step : {"idle", "before", "files"}, wanted : SUBSET Part,
                         before : Nat \cup {NoFile},
                         got : UNION {[S -> File] : S \in SUBSET Part}, attempt : Nat]
    BY <1>0, <2>2 DEF NoReading
  <2>5. UNCHANGED <<primary, disk, service, known, publisher, skewed, boundVars>>
    BY <2>1 DEF StartReading
  <2>. QED
    BY <2>3, <2>4, <2>5, ReaderKeeps
<1>2. CASE Refuse
  BY <1>0, <1>2, ReaderKeeps DEF Refuse, NoReading, BundleIsOneSelection, ArtifactInv
<1>3. CASE ReadServiceBefore
  <2>. USE <1>3 DEF ReadServiceBefore
  <2>1. ArtifactTypeOK'
    BY DEF ArtifactInv, ArtifactTypeOK, State
  <2>2. TimesAgree' /\ DOMAIN reader'.got = {}
    BY DEF ArtifactInv, ArtifactTypeOK, TimesAgree, NothingIsLater, State
  <2>3. PublicationIsFor' /\ ListedIsOnDisk' /\ BundleIsOneSelection'
    BY DEF ArtifactInv, PublicationIsFor, ListedIsOnDisk, OnDisk, IsFor, BundleIsOneSelection
  <2>4. \A p \in Part : Seen(p)' \subseteq Seen(p)
    BY <2>2 DEF Seen
  <2>5. ListedIsOneSelection'
    BY <2>4 DEF ArtifactInv, ListedIsOneSelection, Part
  <2>. QED
    BY <2>1, <2>2, <2>3, <2>5 DEF ArtifactInv
<1>4. CASE ReadServiceAfter
  <2>. USE <1>4 DEF ReadServiceAfter
  <2>1. CASE Accepted
    <3>1. reader' = NoReading /\ shown' = [p \in DOMAIN reader.got |-> reader.got[p].for]
      BY <2>1
    <3>2. ASSUME DOMAIN reader.got = Part PROVE reader.got["chart"].for = reader.got["selected"].for
      <4>1. service # NoFile /\ reader.before = service.at /\ reader.step = "files"
        BY <2>1 DEF Accepted, ArtifactInv, TimesAgree
      <4>2. reader.got["chart"] \in Seen("chart") /\ reader.got["selected"] \in Seen("selected")
        BY <3>2, <4>1 DEF Seen, Part
      <4>. QED
        BY <2>1, <3>2, <4>1, <4>2
           DEF Accepted, IsPublishedGeneration, ArtifactInv, ListedIsOneSelection, Part
    <3>3. BundleIsOneSelection'
      BY <3>1, <3>2 DEF BundleIsOneSelection, Part
    <3>. QED
      BY <1>0, <3>1, <3>3, ReaderKeeps DEF NoReading
  <2>2. CASE ~Accepted /\ reader.attempt = Attempts
    BY <1>0, <2>2, ReaderKeeps DEF NoReading, BundleIsOneSelection, ArtifactInv
  <2>3. CASE ~Accepted /\ reader.attempt # Attempts
    <3>1. reader' = [NoReading EXCEPT !.step = "before", !.wanted = reader.wanted,
                                      !.attempt = reader.attempt + 1]
          /\ UNCHANGED <<shown, primary, disk, service, known, publisher, skewed, boundVars>>
      BY <2>3
    <3>2. reader.wanted \in SUBSET Part /\ reader.attempt + 1 \in Nat
      BY DEF ArtifactInv, ArtifactTypeOK
    <3>3. BundleIsOneSelection'
      BY <3>1 DEF ArtifactInv, BundleIsOneSelection
    <3>. QED
      BY <1>0, <3>1, <3>2, <3>3, ReaderKeeps DEF NoReading
  <2>. QED
    BY <2>1, <2>2, <2>3
<1>5. ASSUME NEW part \in Part, ReadFile(part) PROVE ArtifactInv'
  <2>. USE <1>5 DEF ReadFile
  <2>1. disk[part] \in File /\ reader'.got = [p \in DOMAIN reader.got \cup {part} |->
                                                IF p = part THEN disk[part] ELSE reader.got[p]]
    BY DEF ArtifactInv, ArtifactTypeOK
  <2>2. reader'.got \in [DOMAIN reader.got \cup {part} -> File]
        /\ DOMAIN reader.got \cup {part} \in SUBSET Part
    BY <2>1, GotIsFiles DEF ArtifactInv
  <2>3. reader'.got \in UNION {[S -> File] : S \in SUBSET Part}
    BY <2>2
  <2>4. ArtifactTypeOK'
    BY <2>3 DEF ArtifactInv, ArtifactTypeOK
  <2>5. reader'.step = "files" /\ reader'.before = reader.before
    BY DEF ArtifactInv, ArtifactTypeOK
  <2>6. TimesAgree'
    BY <2>5 DEF ArtifactInv, TimesAgree, NothingIsLater
  <2>7. PublicationIsFor' /\ ListedIsOnDisk' /\ BundleIsOneSelection'
    BY DEF ArtifactInv, PublicationIsFor, ListedIsOnDisk, OnDisk, IsFor, BundleIsOneSelection
  <2>8. \A p \in Part : Seen(p)' \subseteq Seen(p)
    <3>. SUFFICES ASSUME NEW p \in Part, NEW f \in Seen(p)' PROVE f \in Seen(p)
      OBVIOUS
    <3>1. CASE f \in {g \in {disk'[p]} : g # NoFile}
      BY <3>1 DEF Seen
    <3>2. CASE p \in DOMAIN reader'.got /\ f = reader'.got[p] /\ reader'.step = "files"
               /\ service' # NoFile /\ reader'.before = service'.at
      BY <2>1, <2>5, <3>2 DEF Seen
    <3>. QED
      BY <3>1, <3>2 DEF Seen
  <2>9. ListedIsOneSelection'
    BY <2>8 DEF ArtifactInv, ListedIsOneSelection, Part
  <2>. QED
    BY <2>4, <2>6, <2>7, <2>9 DEF ArtifactInv
<1>. QED
  BY <1>1, <1>2, <1>3, <1>4, <1>5

(* A file that is written is later than the present service state. *)
LEMMA WrittenIsNotListed ==
  ASSUME ArtifactInv, NEW part \in Part, publisher.step = part,
         disk' = [disk EXCEPT ![part] = Written(part)], UNCHANGED <<service, reader>>
  PROVE  ListedIsOneSelection'
<1>0. Written(part) \in File /\ Written(part) # NoFile /\ Written(part).at = publications
  BY NoFileIsNone DEF Written, File, ArtifactInv, ArtifactTypeOK, TimesAgree, Part, Selection
<1> SUFFICES ASSUME service # NoFile, NEW c \in Seen("chart")', NEW s \in Seen("selected")',
                    c.at = service.listed["chart"], s.at = service.listed["selected"]
             PROVE  c.for = s.for
  BY DEF ListedIsOneSelection
<1>1. \A p \in Part : \A f \in Seen(p)' : f \in Seen(p) \/ f = Written(part)
  BY DEF Seen, ArtifactInv, ArtifactTypeOK
<1>2. service \in State /\ \A p \in Part : service.listed[p] # publications
  <2>1. service \in State /\ publications \in Nat
    BY DEF ArtifactInv, ArtifactTypeOK
  <2>2. service.at \in Nat /\ service.listed \in [Part -> Nat \cup {NoFile}]
    BY <2>1 DEF State, Listing
  <2>3. service.at < publications /\ NothingIsLater(service.listed, service.at)
    BY DEF ArtifactInv, TimesAgree, Part
  <2>. QED
    BY <2>1, <2>2, <2>3, NoFileIsNone DEF NothingIsLater
<1>3. c # Written(part) /\ s # Written(part)
  BY <1>0, <1>2 DEF Part
<1>. QED
  BY <1>1, <1>3 DEF ArtifactInv, ListedIsOneSelection, Part

LEMMA PublisherStaysTyped ==
  ASSUME ArtifactInv, NEW part \in Part, NEW t \in Nat \cup {NoFile},
         publisher' = [publisher EXCEPT !.step = Order[part],
                                        !.listed = [publisher.listed EXCEPT ![part] = t]]
  PROVE  /\ publisher' \in [step : Part \cup {"idle", "service"}, full : BOOLEAN,
                            at : Nat \cup {NoFile}, for : Selection, listed : Listing]
         /\ publisher'.step = Order[part] /\ publisher'.full = publisher.full
         /\ publisher'.at = publisher.at /\ publisher'.for = publisher.for
         /\ publisher'.listed = [publisher.listed EXCEPT ![part] = t]
         /\ publisher.listed \in Listing /\ publisher'.step # "idle"
<1>1. Order[part] \in Part \cup {"idle", "service"} /\ Order[part] # "idle"
  BY DEF Order, Part
<1>2. publisher.listed \in Listing /\ [publisher.listed EXCEPT ![part] = t] \in Listing
  BY DEF ArtifactInv, ArtifactTypeOK, Listing
<1>. QED
  BY <1>1, <1>2 DEF ArtifactInv, ArtifactTypeOK

(* The next write of a publication, that succeeds, is replaced or is not. *)
LEMMA WriteKeeps ==
  ASSUME ArtifactInv, NEW part \in Part, publisher.step = part, NEW replaced \in BOOLEAN,
         NEW t \in {publisher.at, NoFile}, t = NoFile \/ replaced,
         disk' = IF replaced THEN [disk EXCEPT ![part] = Written(part)] ELSE disk,
         publisher' = [publisher EXCEPT !.step = Order[part],
                                        !.listed = [publisher.listed EXCEPT ![part] = t]],
         failures' \in Nat,
         UNCHANGED <<primary, service, known, skewed, reader, shown, publications, selects, crashes>>
  PROVE  ArtifactInv'
<1>0. publisher.at \in Nat /\ publisher.at = publications /\ publisher.step # "idle"
  BY DEF ArtifactInv, ArtifactTypeOK, TimesAgree, Part
<1>1. /\ Written(part) \in File /\ Written(part).at = publications
      /\ part # "universe" => Written(part).for = publisher.for
      /\ Written(part) # NoFile
  BY <1>0, NoFileIsNone DEF Written, File, ArtifactInv, ArtifactTypeOK, Selection
<1>2. /\ publisher' \in [step : Part \cup {"idle", "service"}, full : BOOLEAN,
                            at : Nat \cup {NoFile}, for : Selection, listed : Listing]
      /\ publisher'.step = Order[part] /\ publisher'.full = publisher.full
      /\ publisher'.at = publisher.at /\ publisher'.for = publisher.for
      /\ publisher'.listed = [publisher.listed EXCEPT ![part] = t]
      /\ publisher.listed \in Listing /\ publisher'.step # "idle"
  BY <1>0, PublisherStaysTyped
<1>3. disk' \in [Part -> File \cup {NoFile}]
  BY <1>1 DEF ArtifactInv, ArtifactTypeOK
<1>4. ArtifactTypeOK'
  BY <1>2, <1>3 DEF ArtifactInv, ArtifactTypeOK
<1>5. NothingIsLater(publisher'.listed, publications)
  BY <1>0, <1>2 DEF ArtifactInv, ArtifactTypeOK, TimesAgree, NothingIsLater, Listing
<1>6. TimesAgree'
  BY <1>0, <1>2, <1>5 DEF ArtifactInv, TimesAgree, NothingIsLater
<1>7. t # NoFile => disk'[part] = Written(part)
  BY DEF ArtifactInv, ArtifactTypeOK
<1>8. IsFor(part)' \/ part = "universe"
  BY <1>0, <1>1, <1>2, <1>7, NoFileIsNone, <1>3 DEF IsFor, Listing, File
<1>9. \A p \in Part \ {part} : disk'[p] = disk[p] /\ publisher'.listed[p] = publisher.listed[p]
  BY <1>2 DEF ArtifactInv, ArtifactTypeOK, Listing
<1>10. PublicationIsFor'
  BY <1>2, <1>8, <1>9 DEF ArtifactInv, PublicationIsFor, IsFor, Order, Part
<1>11. ListedIsOnDisk'
  BY <1>0, <1>1, <1>2, <1>7, <1>9 DEF ArtifactInv, ListedIsOnDisk, OnDisk, Listing
<1>12. ListedIsOneSelection'
  <2>1. CASE replaced
    BY <2>1, WrittenIsNotListed
  <2>2. CASE ~replaced
    BY <2>2 DEF ArtifactInv, ListedIsOneSelection, Seen
  <2>. QED
    BY <2>1, <2>2
<1>13. BundleIsOneSelection'
  BY DEF ArtifactInv, BundleIsOneSelection
<1>. QED
  BY <1>4, <1>6, <1>10, <1>11, <1>12, <1>13 DEF ArtifactInv

(* The service state at the end of a publication, whether or not it is known to be there. *)
LEMMA ServiceKeeps ==
  ASSUME ArtifactInv, publisher.step = "service", publisher' = NoPublication,
         NEW replaced \in BOOLEAN, NEW told \in BOOLEAN, told => replaced,
         service' = IF replaced THEN [at |-> publisher.at, listed |-> publisher.listed]
                                ELSE service,
         known' = IF told THEN publisher.listed ELSE known,
         skewed' = IF told THEN skewed /\ ~publisher.full ELSE TRUE,
         failures' \in Nat,
         UNCHANGED <<primary, disk, reader, shown, publications, selects, crashes>>
  PROVE  ArtifactInv'
<1>0. /\ publisher.at \in Nat /\ publisher.at = publications
      /\ publisher.listed \in Listing /\ NothingIsLater(publisher.listed, publications)
  BY DEF ArtifactInv, ArtifactTypeOK, TimesAgree, Part
<1>1. [at |-> publisher.at, listed |-> publisher.listed] \in State
  BY <1>0 DEF State
<1>2. NoPublication \in [step : Part \cup {"idle", "service"}, full : BOOLEAN,
                         at : Nat \cup {NoFile}, for : Selection, listed : Listing]
  BY DEF NoPublication, NoListing, Listing, Selection
<1>3. ArtifactTypeOK'
  BY <1>0, <1>1, <1>2 DEF ArtifactInv, ArtifactTypeOK
<1>4. publisher'.step = "idle"
  BY DEF NoPublication
<1>5. /\ service' # NoFile => service'.at <= publications /\ NothingIsLater(service'.listed, service'.at)
      /\ known' # NoFile => NothingIsLater(known', publications)
      /\ reader.step = "files" =>
           service' # NoFile /\ reader.before \in Nat /\ reader.before <= service'.at
  BY <1>0, <1>1, NoFileIsNone DEF ArtifactInv, ArtifactTypeOK, TimesAgree, State
<1>6. TimesAgree'
  BY <1>4, <1>5 DEF ArtifactInv, TimesAgree, NothingIsLater
<1>7. PublicationIsFor'
  BY <1>4 DEF PublicationIsFor
<1>8. ListedIsOnDisk'
  <2>. SUFFICES ASSUME ~skewed' PROVE ListedIsOnDisk'
    BY <1>4 DEF ListedIsOnDisk
  <2>1. told /\ (publisher.full \/ ~skewed) /\ known' = publisher.listed
        /\ service' = [at |-> publisher.at, listed |-> publisher.listed]
    OBVIOUS
  <2>2. OnDisk(publisher.listed) /\ service' # NoFile
    BY <1>1, <2>1, NoFileIsNone DEF ArtifactInv, ListedIsOnDisk
  <2>. QED
    BY <1>4, <2>1, <2>2 DEF ListedIsOnDisk, OnDisk
<1>9. ListedIsOneSelection'
  <2>1. CASE replaced
    <3>1. service'.at = publications /\ service'.listed = publisher.listed
      BY <1>0, <2>1
    <3>2. \A p \in Part : \A f \in Seen(p)' : disk[p] # NoFile /\ f = disk[p]
      BY <1>0, <3>1 DEF Seen, ArtifactInv, ArtifactTypeOK, TimesAgree, State
    <3>. QED
      BY <3>1, <3>2 DEF ArtifactInv, PublicationIsFor, IsFor, ListedIsOneSelection, Part
  <2>2. CASE ~replaced
    BY <2>2 DEF ArtifactInv, ListedIsOneSelection, Seen
  <2>. QED
    BY <2>1, <2>2
<1>10. BundleIsOneSelection'
  BY DEF ArtifactInv, BundleIsOneSelection
<1>. QED
  BY <1>3, <1>6, <1>7, <1>8, <1>9, <1>10 DEF ArtifactInv

LEMMA ArtifactStepKeeps ==
  ASSUME ArtifactInv, [ArtifactNext]_artifactVars
  PROVE  ArtifactInv'
<1>. USE DEF boundVars
<1>1. CASE UNCHANGED artifactVars
  BY <1>1 DEF artifactVars, ArtifactInv, ArtifactTypeOK, TimesAgree, NothingIsLater, PublicationIsFor,
              IsFor, ListedIsOneSelection, Seen, ListedIsOnDisk, OnDisk, BundleIsOneSelection
<1>2. ASSUME NEW p \in Selection, Select(p) PROVE ArtifactInv'
  <2>1. ArtifactTypeOK'
    BY <1>2 DEF Select, ArtifactInv, ArtifactTypeOK
  <2>. QED
    BY <1>2, <2>1
       DEF Select, ArtifactInv, TimesAgree, NothingIsLater, PublicationIsFor, IsFor,
           ListedIsOneSelection, Seen, ListedIsOnDisk, OnDisk, BundleIsOneSelection
<1>3. ASSUME NEW full \in BOOLEAN, StartPublication(full) PROVE ArtifactInv'
  <2>. USE <1>3 DEF StartPublication
  <2>0. publications \in Nat /\ publications' = publications + 1 /\ publications' \in Nat
    BY DEF ArtifactInv, ArtifactTypeOK
  <2>1. (IF full THEN NoListing ELSE known) \in Listing
    BY DEF NoListing, Listing, ArtifactInv, ArtifactTypeOK
  <2>2. publisher' \in [step : Part \cup {"idle", "service"}, full : BOOLEAN,
                        at : Nat \cup {NoFile}, for : Selection, listed : Listing]
    BY <2>0, <2>1 DEF ArtifactInv, ArtifactTypeOK, Part
  <2>3. ArtifactTypeOK'
    BY <2>0, <2>2 DEF ArtifactInv, ArtifactTypeOK
  <2>4. NothingIsLater(publisher'.listed, publications') /\ (known # NoFile => NothingIsLater(known, publications'))
    BY <2>0 DEF ArtifactInv, ArtifactTypeOK, TimesAgree, NothingIsLater, NoListing, Listing
  <2>5. TimesAgree'
    BY <2>0, <2>4 DEF ArtifactInv, ArtifactTypeOK, TimesAgree, NothingIsLater, State
  <2>6. PublicationIsFor' /\ BundleIsOneSelection'
    BY DEF ArtifactInv, PublicationIsFor, BundleIsOneSelection
  <2>7. ListedIsOnDisk'
    BY DEF ArtifactInv, ListedIsOnDisk, OnDisk, NoListing
  <2>8. ListedIsOneSelection'
    BY DEF ArtifactInv, ListedIsOneSelection, Seen
  <2>. QED
    BY <2>3, <2>5, <2>6, <2>7, <2>8 DEF ArtifactInv
<1>4. CASE SkipChart
  <2>. USE <1>4 DEF SkipChart, Skips
  <2>1. /\ publisher'.step = "selected" /\ publisher'.listed = publisher.listed
        /\ publisher'.at = publisher.at /\ publisher'.for = publisher.for
        /\ publisher'.full = publisher.full
    BY DEF ArtifactInv, ArtifactTypeOK
  <2>2. ArtifactTypeOK'
    BY DEF ArtifactInv, ArtifactTypeOK, Part
  <2>3. TimesAgree'
    BY <2>1 DEF ArtifactInv, TimesAgree, NothingIsLater
  <2>4. PublicationIsFor' /\ BundleIsOneSelection'
    BY <2>1 DEF ArtifactInv, PublicationIsFor, IsFor, KeepsChart, BundleIsOneSelection
  <2>5. ListedIsOnDisk'
    BY <2>1 DEF ArtifactInv, ListedIsOnDisk, OnDisk
  <2>6. ListedIsOneSelection'
    BY DEF ArtifactInv, ListedIsOneSelection, Seen
  <2>. QED
    BY <2>2, <2>3, <2>4, <2>5, <2>6 DEF ArtifactInv
<1>5. CASE WriteArtifact
  <2>1. publisher.step \in Part /\ Listed(publisher.step) =
          [publisher.listed EXCEPT ![publisher.step] = publisher.at]
    BY <1>5 DEF WriteArtifact, Listed
  <2>. QED
    BY <1>5, <2>1, WriteKeeps DEF WriteArtifact, ArtifactInv, ArtifactTypeOK
<1>6. CASE WriteServiceState
  BY <1>6, ServiceKeeps DEF WriteServiceState, ArtifactInv, ArtifactTypeOK
<1>7. ASSUME NEW replaced \in BOOLEAN, WriteFails(replaced) PROVE ArtifactInv'
  <2>1. publisher.step \in Part /\ failures' \in Nat
    BY <1>7 DEF WriteFails, ArtifactInv, ArtifactTypeOK
  <2>2. publisher' = [publisher EXCEPT !.step = Order[publisher.step],
                        !.listed = [publisher.listed EXCEPT ![publisher.step] = NoFile]]
    BY <1>7 DEF WriteFails, ArtifactInv, ArtifactTypeOK
  <2>. QED
    BY <1>7, <2>1, <2>2, WriteKeeps DEF WriteFails
<1>8. ASSUME NEW replaced \in BOOLEAN, ServiceStateFails(replaced) PROVE ArtifactInv'
  <2>. DEFINE told == FALSE
  <2>1. /\ known' = IF told THEN publisher.listed ELSE known
        /\ skewed' = IF told THEN skewed /\ ~publisher.full ELSE TRUE
        /\ failures' \in Nat
    BY <1>8 DEF ServiceStateFails, ArtifactInv, ArtifactTypeOK
  <2>2. told \in BOOLEAN /\ (told => replaced)
    OBVIOUS
  <2>. HIDE DEF told
  <2>. QED
    BY <1>8, <2>1, <2>2, ServiceKeeps DEF ServiceStateFails, boundVars
<1>9. CASE Dies
  <2>. USE <1>9 DEF Dies
  <2>1. NoPublication \in [step : Part \cup {"idle", "service"}, full : BOOLEAN,
                           at : Nat \cup {NoFile}, for : Selection, listed : Listing]
        /\ publisher'.step = "idle"
    BY DEF NoPublication, NoListing, Listing, Selection
  <2>2. ArtifactTypeOK'
    BY <2>1 DEF ArtifactInv, ArtifactTypeOK
  <2>3. TimesAgree' /\ PublicationIsFor' /\ ListedIsOnDisk'
    BY <2>1 DEF ArtifactInv, TimesAgree, NothingIsLater, PublicationIsFor, ListedIsOnDisk
  <2>4. ListedIsOneSelection' /\ BundleIsOneSelection'
    BY DEF ArtifactInv, ListedIsOneSelection, Seen, BundleIsOneSelection
  <2>. QED
    BY <2>2, <2>3, <2>4 DEF ArtifactInv
<1>10. ASSUME \/ \E wanted \in {Part, {"universe"}} : StartReading(wanted)
              \/ Refuse \/ ReadServiceBefore \/ ReadServiceAfter
              \/ \E part \in Part : ReadFile(part)
       PROVE  ArtifactInv'
  BY <1>10, ReadersKeep
<1>. QED
  BY <1>1, <1>2, <1>3, <1>4, <1>5, <1>6, <1>7, <1>8, <1>9, <1>10 DEF ArtifactNext, PublisherStep

LEMMA ArtifactInvSays == ArtifactInv => BundleIsOneSelection /\ PublishedIsReadable
<1> SUFFICES ASSUME ArtifactInv, publisher.step = "idle", ~skewed, known # NoFile,
                    NoFile \notin {known[p] : p \in Part}
             PROVE  Readable
  BY DEF ArtifactInv, PublishedIsReadable
<1>. QED
  BY DEF ArtifactInv, ListedIsOnDisk, OnDisk, Readable

-----------------------------------------------------------------------------
(***************************************************************************)
(* UserWorkspace: whatever a page was given is the file, or was the file at*)
(* an earlier revision (WasTheFile); so a write that asks for the revision *)
(* it saw replaces what it saw.                                            *)
(***************************************************************************)

(* What a page was given is the given as it is, or as it was under an earlier revision. *)
Precedes(w, given) == w.revision <= given.revision /\ (w.revision = given.revision => w = given)
WasTheFile(w) == Precedes(w, workspace)

CallIsSound(p, lane) ==
  LET c == calls[p][lane] IN
  /\ c.seen # NoCopy => WasTheFile(c.seen)
  /\ c.reply # NoCopy => WasTheFile(c.reply)
  /\ c.op = "favorite" =>
       /\ lane \in FavoriteKeys /\ c.key = lane
       /\ c.terms \in Terms /\ c.body \in {c.terms, Unset}
       /\ intent[p][lane] \in BOOLEAN
       /\ c.reply # NoCopy => c.reply.favorites[lane] = c.body
  /\ c.op = "pin" =>
       lane = "pin" /\ c.key \in FavoriteKeys /\ c.body \in Terms \cup {Unset} /\ c.seen # NoCopy
  /\ c.op = "view" =>
       lane = "view" /\ c.key \in ViewIds /\ c.body \in ViewBodies \cup {Unset} /\ c.seen # NoCopy

WorkspaceInv ==
  /\ workspace \in WorkspaceFile
  /\ copies \in [WorkspacePages -> WorkspaceFile \cup {NoCopy}]
  /\ intent \in [WorkspacePages -> [FavoriteKeys -> BOOLEAN \cup {Unset}]]
  /\ calls \in [WorkspacePages -> [Lanes -> WorkspaceCall \cup {NoCall}]]
  /\ \A p \in WorkspacePages : copies[p] # NoCopy => WasTheFile(copies[p])
  /\ \A p \in WorkspacePages : \A lane \in Lanes :
       calls[p][lane] # NoCall => CallIsSound(p, lane)

LEMMA WorkspaceInitHolds == WorkspaceInit => WorkspaceInv
<1> SUFFICES ASSUME WorkspaceInit PROVE WorkspaceInv
  OBVIOUS
<1>1. workspace \in WorkspaceFile
  BY DEF WorkspaceInit, EmptyWorkspace, WorkspaceFile
<1>. QED
  BY <1>1 DEF WorkspaceInit, WorkspaceInv

(* What is accepted is the given as it is, or the next one with the change. *)
LEMMA ChangedFiles ==
  ASSUME NEW w \in WorkspaceFile
  PROVE  /\ [w EXCEPT !.revision = @ + 1] \in WorkspaceFile
         /\ [w EXCEPT !.revision = @ + 1].revision = w.revision + 1
         /\ [w EXCEPT !.revision = @ + 1].favorites = w.favorites
         /\ \A k \in FavoriteKeys, body \in Terms \cup {Unset} :
              /\ [w EXCEPT !.favorites[k] = body] \in WorkspaceFile
              /\ [w EXCEPT !.favorites[k] = body].revision = w.revision
              /\ [w EXCEPT !.favorites[k] = body].favorites[k] = body
              /\ [w EXCEPT !.pins[k] = body] \in WorkspaceFile
              /\ [w EXCEPT !.pins[k] = body].revision = w.revision
         /\ \A k \in ViewIds, body \in ViewBodies \cup {Unset} :
              /\ [w EXCEPT !.views[k] = body] \in WorkspaceFile
              /\ [w EXCEPT !.views[k] = body].revision = w.revision
<1>1. /\ [w EXCEPT !.revision = @ + 1] \in WorkspaceFile
      /\ [w EXCEPT !.revision = @ + 1].revision = w.revision + 1
      /\ [w EXCEPT !.revision = @ + 1].favorites = w.favorites
  BY DEF WorkspaceFile
<1>2. ASSUME NEW k \in FavoriteKeys, NEW body \in Terms \cup {Unset}
      PROVE  /\ [w EXCEPT !.favorites[k] = body] \in WorkspaceFile
             /\ [w EXCEPT !.favorites[k] = body].revision = w.revision
             /\ [w EXCEPT !.favorites[k] = body].favorites[k] = body
             /\ [w EXCEPT !.pins[k] = body] \in WorkspaceFile
             /\ [w EXCEPT !.pins[k] = body].revision = w.revision
  BY DEF WorkspaceFile
<1>3. ASSUME NEW k \in ViewIds, NEW body \in ViewBodies \cup {Unset}
      PROVE  /\ [w EXCEPT !.views[k] = body] \in WorkspaceFile
             /\ [w EXCEPT !.views[k] = body].revision = w.revision
  BY DEF WorkspaceFile
<1>. QED
  BY <1>1, <1>2, <1>3

LEMMA ChangedFavorite ==
  ASSUME NEW w \in WorkspaceFile, NEW k \in FavoriteKeys, NEW body \in Terms \cup {Unset}
  PROVE  /\ [w EXCEPT !.favorites[k] = body] \in WorkspaceFile
         /\ [w EXCEPT !.favorites[k] = body].revision = w.revision
         /\ [w EXCEPT !.favorites[k] = body].favorites[k] = body
  BY ChangedFiles

LEMMA ChangedPin ==
  ASSUME NEW w \in WorkspaceFile, NEW k \in FavoriteKeys, NEW body \in Terms \cup {Unset}
  PROVE  /\ [w EXCEPT !.pins[k] = body] \in WorkspaceFile
         /\ [w EXCEPT !.pins[k] = body].revision = w.revision
  BY ChangedFiles

LEMMA ChangedView ==
  ASSUME NEW w \in WorkspaceFile, NEW k \in ViewIds, NEW body \in ViewBodies \cup {Unset}
  PROVE  /\ [w EXCEPT !.views[k] = body] \in WorkspaceFile
         /\ [w EXCEPT !.views[k] = body].revision = w.revision
  BY ChangedFiles

LEMMA OutcomeIsNext ==
  ASSUME WorkspaceInv, NEW p \in WorkspacePages, NEW lane \in Lanes,
         calls[p][lane] # NoCall, Outcome(calls[p][lane]).ok
  PROVE  LET c == calls[p][lane]
             given == Outcome(calls[p][lane]).file
         IN  /\ given \in WorkspaceFile
             /\ given = workspace \/ given.revision = workspace.revision + 1
             /\ c.op = "favorite" => given.favorites[lane] = c.body
             /\ given # workspace =>
                  IF c.seen # NoCopy THEN c.seen = workspace
                  ELSE /\ lane \in FavoriteKeys /\ Unset \in {workspace.favorites[lane], c.body}
                       /\ given = [[workspace EXCEPT !.favorites[lane] = c.body]
                                    EXCEPT !.revision = @ + 1]
<1> DEFINE c == calls[p][lane]
           given == Outcome(c).file
<1>1. c \in WorkspaceCall /\ CallIsSound(p, lane) /\ workspace \in WorkspaceFile
  BY DEF WorkspaceInv
<1>2. c.op \in {"favorite", "pin", "view", "read"} /\ c.seen \in WorkspaceFile \cup {NoCopy}
  BY <1>1 DEF WorkspaceCall
<1>3. c.seen # NoCopy /\ SeenIsCurrent(c) => c.seen = workspace
  BY <1>1 DEF CallIsSound, WasTheFile, Precedes, SeenIsCurrent
<1>4. \A w \in WorkspaceFile : w.revision = workspace.revision /\ Accept(w).ok =>
        /\ Accept(w).file = [w EXCEPT !.revision = @ + 1] /\ Accept(w).file \in WorkspaceFile
        /\ Accept(w).file.revision = workspace.revision + 1
        /\ Accept(w).file.favorites = w.favorites
  BY ChangedFiles DEF Accept, Refused
<1>5. CASE c.op = "favorite"
  <2>1. Outcome(c) = FavoriteOutcome(c) /\ lane \in FavoriteKeys /\ c.key = lane
        /\ c.body \in Terms \cup {Unset}
    BY <1>1, <1>5 DEF Outcome, CallIsSound
  <2>2. CASE workspace.favorites[lane] = c.body
    BY <1>1, <1>5, <2>1, <2>2 DEF FavoriteOutcome, AsItIs
  <2>3. CASE workspace.favorites[lane] # c.body
    <3>1. /\ ~(c.seen = NoCopy /\ c.body # Unset /\ workspace.favorites[lane] # Unset)
          /\ c.seen # NoCopy => SeenIsCurrent(c)
          /\ Outcome(c) = Accept([workspace EXCEPT !.favorites[lane] = c.body])
      BY <2>1, <2>3 DEF FavoriteOutcome, Refused
    <3>2. /\ [workspace EXCEPT !.favorites[lane] = c.body] \in WorkspaceFile
          /\ [workspace EXCEPT !.favorites[lane] = c.body].revision = workspace.revision
          /\ [workspace EXCEPT !.favorites[lane] = c.body].favorites[lane] = c.body
      BY ONLY <1>1, <2>1, ChangedFavorite, Zenon
    <3>3. /\ given = [[workspace EXCEPT !.favorites[lane] = c.body] EXCEPT !.revision = @ + 1]
          /\ given \in WorkspaceFile /\ given.revision = workspace.revision + 1
          /\ given.favorites[lane] = c.body
      BY <1>4, <3>1, <3>2
    <3>. QED
      BY <1>3, <1>5, <2>1, <3>1, <3>3
  <2>. QED
    BY <2>2, <2>3
<1>6. CASE c.op = "pin"
  <2>1. Outcome(c) = PinOutcome(c) /\ c.key \in FavoriteKeys /\ c.body \in Terms \cup {Unset}
        /\ c.seen # NoCopy
    BY <1>1, <1>6 DEF Outcome, CallIsSound
  <2>2. CASE workspace.pins[c.key] = c.body
    BY <1>1, <1>6, <2>1, <2>2 DEF PinOutcome, AsItIs
  <2>3. CASE workspace.pins[c.key] # c.body
    <3>1. SeenIsCurrent(c) /\ Outcome(c) = Accept([workspace EXCEPT !.pins[c.key] = c.body])
      BY <2>1, <2>3 DEF PinOutcome, Refused
    <3>2. /\ [workspace EXCEPT !.pins[c.key] = c.body] \in WorkspaceFile
          /\ [workspace EXCEPT !.pins[c.key] = c.body].revision = workspace.revision
      BY ONLY <1>1, <2>1, ChangedPin, Zenon
    <3>. QED
      BY <1>3, <1>4, <1>6, <2>1, <3>1, <3>2
  <2>. QED
    BY <2>2, <2>3
<1>7. CASE c.op = "view"
  <2>1. Outcome(c) = ViewOutcome(c) /\ c.key \in ViewIds /\ c.body \in ViewBodies \cup {Unset}
        /\ c.seen # NoCopy
    BY <1>1, <1>7 DEF Outcome, CallIsSound
  <2>2. SeenIsCurrent(c) /\ Outcome(c) = Accept([workspace EXCEPT !.views[c.key] = c.body])
    BY <2>1 DEF ViewOutcome, Refused
  <2>3. /\ [workspace EXCEPT !.views[c.key] = c.body] \in WorkspaceFile
        /\ [workspace EXCEPT !.views[c.key] = c.body].revision = workspace.revision
    BY ONLY <1>1, <2>1, ChangedView, Zenon
  <2>. QED
    BY <1>3, <1>4, <1>7, <2>1, <2>2, <2>3
<1>8. CASE c.op = "read"
  BY <1>1, <1>8 DEF Outcome, AsItIs
<1>. QED
  BY <1>2, <1>5, <1>6, <1>7, <1>8

(* A call that is sent: the rest of the page's calls are as they were. *)
LEMMA SentStaysTyped ==
  ASSUME WorkspaceInv, NEW p \in WorkspacePages, NEW lane \in Lanes,
         NEW c \in WorkspaceCall \cup {NoCall}, Send(p, lane, c)
  PROVE  /\ calls' \in [WorkspacePages -> [Lanes -> WorkspaceCall \cup {NoCall}]]
         /\ calls'[p][lane] = c
         /\ \A q \in WorkspacePages, l \in Lanes :
              <<q, l>> # <<p, lane>> => calls'[q][l] = calls[q][l]
  BY DEF Send, WorkspaceInv

(* A step that leaves the given alone, and puts one call that is sound, or none. *)
LEMMA QuietCallKeeps ==
  ASSUME WorkspaceInv, NEW p \in WorkspacePages, NEW lane \in Lanes,
         NEW c \in WorkspaceCall \cup {NoCall}, Send(p, lane, c),
         c # NoCall => CallIsSound(p, lane)',
         workspace' = workspace,
         copies' \in [WorkspacePages -> WorkspaceFile \cup {NoCopy}],
         \A q \in WorkspacePages : copies'[q] # NoCopy => WasTheFile(copies'[q]),
         intent' \in [WorkspacePages -> [FavoriteKeys -> BOOLEAN \cup {Unset}]],
         \A q \in WorkspacePages, l \in FavoriteKeys :
           <<q, l>> # <<p, lane>> => intent'[q][l] = intent[q][l]
  PROVE  WorkspaceInv'
<1>1. /\ calls' \in [WorkspacePages -> [Lanes -> WorkspaceCall \cup {NoCall}]]
      /\ calls'[p][lane] = c
      /\ \A q \in WorkspacePages, l \in Lanes :
           <<q, l>> # <<p, lane>> => calls'[q][l] = calls[q][l]
  BY SentStaysTyped
<1>2. ASSUME NEW q \in WorkspacePages, NEW l \in Lanes, calls'[q][l] # NoCall
      PROVE  CallIsSound(q, l)'
  <2>1. CASE q = p /\ l = lane
    BY <1>1, <1>2, <2>1
  <2>2. CASE <<q, l>> # <<p, lane>>
    BY <1>1, <1>2, <2>2 DEF WorkspaceInv, CallIsSound, WasTheFile, Precedes
  <2>. QED
    BY <2>1, <2>2
<1>. QED
  BY <1>1, <1>2 DEF WorkspaceInv, WasTheFile, Precedes

LEMMA TogglesKeep ==
  ASSUME WorkspaceInv, NEW p \in WorkspacePages, NEW k \in FavoriteKeys, ToggleFavorite(p, k)
  PROVE  WorkspaceInv'
<1>. k \in Lanes
  BY DEF Lanes
<1>1. CASE IsBusy(p, k)
  <2>1. intent' = [intent EXCEPT ![p][k] = ~@] /\ intent[p][k] \in BOOLEAN
        /\ UNCHANGED <<calls, workspace, copies>>
    BY <1>1 DEF ToggleFavorite, WorkspaceInv
  <2>2. /\ intent' \in [WorkspacePages -> [FavoriteKeys -> BOOLEAN \cup {Unset}]]
        /\ intent'[p][k] \in BOOLEAN
        /\ \A q \in WorkspacePages, l \in FavoriteKeys :
             <<q, l>> # <<p, k>> => intent'[q][l] = intent[q][l]
    BY <2>1 DEF WorkspaceInv
  <2>3. ASSUME NEW q \in WorkspacePages, NEW l \in Lanes, calls[q][l] # NoCall
        PROVE  CallIsSound(q, l)'
    <3>1. l \in FavoriteKeys /\ intent[q][l] \in BOOLEAN => intent'[q][l] \in BOOLEAN
      BY <2>2
    <3>2. CallIsSound(q, l) /\ calls' = calls /\ workspace' = workspace
      BY <2>1, <2>3 DEF WorkspaceInv
    <3>. QED
      BY <3>1, <3>2 DEF CallIsSound, WasTheFile, Precedes
  <2>. QED
    BY <2>1, <2>2, <2>3 DEF WorkspaceInv, WasTheFile, Precedes
<1>2. CASE ~IsBusy(p, k)
  <2>1. PICK terms \in Terms :
          LET saved == SavedTerms(p, k)
              desired == saved # terms
          IN  /\ intent' = [intent EXCEPT ![p][k] = desired]
              /\ Send(p, k, FavoriteCall(k, desired, terms, desired /\ saved # Unset, copies[p]))
    BY <1>2 DEF ToggleFavorite
  <2>. DEFINE desired == SavedTerms(p, k) # terms
              c == FavoriteCall(k, desired, terms, desired /\ SavedTerms(p, k) # Unset, copies[p])
  <2>2. c \in WorkspaceCall
    BY DEF FavoriteCall, SentCall, WorkspaceCall, WorkspaceInv
  <2>3. /\ c.seen # NoCopy => WasTheFile(c.seen)
        /\ c.reply = NoCopy /\ c.op = "favorite" /\ c.key = k /\ c.terms = terms
        /\ c.body \in {terms, Unset}
    BY DEF FavoriteCall, SentCall, WorkspaceInv
  <2>. HIDE DEF c
  <2>4. /\ intent' \in [WorkspacePages -> [FavoriteKeys -> BOOLEAN \cup {Unset}]]
        /\ intent'[p][k] \in BOOLEAN
        /\ \A q \in WorkspacePages, l \in FavoriteKeys :
             <<q, l>> # <<p, k>> => intent'[q][l] = intent[q][l]
    BY <2>1 DEF WorkspaceInv
  <2>5. Send(p, k, c) /\ UNCHANGED <<workspace, copies>>
    BY <2>1 DEF c, ToggleFavorite
  <2>6. calls'[p][k] = c
    BY <2>2, <2>5, SentStaysTyped
  <2>7. CallIsSound(p, k)'
    BY <2>3, <2>4, <2>5, <2>6 DEF CallIsSound, WasTheFile, Precedes
  <2>8. \A q \in WorkspacePages : copies'[q] # NoCopy => WasTheFile(copies'[q])
    BY <2>5 DEF WorkspaceInv
  <2>. QED
    BY <2>2, <2>4, <2>5, <2>7, <2>8, QuietCallKeeps DEF WorkspaceInv
<1>. QED
  BY <1>1, <1>2

LEMMA ChangesKeep ==
  ASSUME WorkspaceInv, NEW p \in WorkspacePages, ChangePin(p) \/ ChangeView(p)
  PROVE  WorkspaceInv'
<1>1. CASE ChangePin(p)
  <2>1. PICK k \in FavoriteKeys, body \in Terms \cup {Unset} :
          Send(p, "pin", SentCall("pin", k, body, copies[p], Unset, FALSE))
    BY <1>1 DEF ChangePin
  <2>. DEFINE c == SentCall("pin", k, body, copies[p], Unset, FALSE)
  <2>2. c \in WorkspaceCall /\ c.op = "pin" /\ c.key = k /\ c.body = body /\ c.seen = copies[p]
        /\ c.reply = NoCopy
    BY DEF SentCall, WorkspaceCall, WorkspaceInv
  <2>. HIDE DEF c
  <2>3. Send(p, "pin", c) /\ copies[p] # NoCopy /\ UNCHANGED <<workspace, copies, intent>>
        /\ "pin" \in Lanes
    BY <1>1, <2>1 DEF c, ChangePin, Lanes
  <2>4. calls'[p]["pin"] = c
    BY <2>2, <2>3, SentStaysTyped
  <2>5. CallIsSound(p, "pin")'
    BY <2>2, <2>3, <2>4 DEF CallIsSound, WasTheFile, Precedes, WorkspaceInv
  <2>. QED
    BY <2>2, <2>3, <2>5, QuietCallKeeps DEF WorkspaceInv
<1>2. CASE ChangeView(p)
  <2>1. PICK k \in ViewIds, body \in ViewBodies \cup {Unset} :
          Send(p, "view", SentCall("view", k, body, copies[p], Unset, FALSE))
    BY <1>2 DEF ChangeView
  <2>. DEFINE c == SentCall("view", k, body, copies[p], Unset, FALSE)
  <2>2. c \in WorkspaceCall /\ c.op = "view" /\ c.key = k /\ c.body = body /\ c.seen = copies[p]
        /\ c.reply = NoCopy
    BY DEF SentCall, WorkspaceCall, WorkspaceInv
  <2>. HIDE DEF c
  <2>3. Send(p, "view", c) /\ copies[p] # NoCopy /\ UNCHANGED <<workspace, copies, intent>>
        /\ "view" \in Lanes
    BY <1>2, <2>1 DEF c, ChangeView, Lanes
  <2>4. calls'[p]["view"] = c
    BY <2>2, <2>3, SentStaysTyped
  <2>5. CallIsSound(p, "view")'
    BY <2>2, <2>3, <2>4 DEF CallIsSound, WasTheFile, Precedes, WorkspaceInv
  <2>. QED
    BY <2>2, <2>3, <2>5, QuietCallKeeps DEF WorkspaceInv
<1>. QED
  BY <1>1, <1>2

LEMMA ClearedIntent ==
  ASSUME WorkspaceInv, NEW p \in WorkspacePages, NEW lane \in Lanes,
         intent' \in {intent, ClearIntent(p, lane)}
  PROVE  /\ intent' \in [WorkspacePages -> [FavoriteKeys -> BOOLEAN \cup {Unset}]]
         /\ \A q \in WorkspacePages, l \in FavoriteKeys :
              <<q, l>> # <<p, lane>> => intent'[q][l] = intent[q][l]
<1>1. CASE intent' = intent
  BY <1>1 DEF WorkspaceInv
<1>2. CASE lane \in FavoriteKeys /\ intent' = [intent EXCEPT ![p][lane] = Unset]
  BY <1>2 DEF WorkspaceInv
<1>. QED
  BY <1>1, <1>2 DEF ClearIntent

LEMMA AnswersKeep ==
  ASSUME WorkspaceInv, NEW p \in WorkspacePages, NEW lane \in Lanes, TakeAnswer(p, lane)
  PROVE  WorkspaceInv'
<1>. DEFINE c == calls[p][lane]
            again == c.op = "favorite" /\ intent[p][c.key] # (c.body # Unset)
            next == FavoriteCall(c.key, intent[p][c.key], c.terms, c.confirmed, c.reply)
<1>1. c \in WorkspaceCall /\ CallIsSound(p, lane) /\ c.reply \in WorkspaceFile
      /\ c.reply # NoCopy /\ WasTheFile(c.reply)
  <2>1. c \in WorkspaceCall /\ CallIsSound(p, lane) /\ c.reply # NoCopy
    BY DEF TakeAnswer, IsBusy, WorkspaceInv
  <2>. QED
    BY <2>1 DEF WorkspaceCall, CallIsSound
<1>2. /\ copies' = [copies EXCEPT ![p] = c.reply]
      /\ Send(p, lane, IF again THEN next ELSE NoCall)
      /\ intent' = IF again THEN intent ELSE ClearIntent(p, lane)
      /\ workspace' = workspace
  BY DEF TakeAnswer, Send
<1>3. /\ copies' \in [WorkspacePages -> WorkspaceFile \cup {NoCopy}]
      /\ \A q \in WorkspacePages : copies'[q] # NoCopy => WasTheFile(copies'[q])
  BY <1>1, <1>2 DEF WorkspaceInv
<1>4. /\ intent' \in [WorkspacePages -> [FavoriteKeys -> BOOLEAN \cup {Unset}]]
      /\ \A q \in WorkspacePages, l \in FavoriteKeys :
           <<q, l>> # <<p, lane>> => intent'[q][l] = intent[q][l]
  BY <1>2, ClearedIntent
<1>5. CASE again
  <2>1. lane \in FavoriteKeys /\ c.key = lane /\ c.terms \in Terms /\ intent[p][lane] \in BOOLEAN
        /\ c.confirmed \in BOOLEAN
    BY <1>1, <1>5 DEF CallIsSound, WorkspaceCall
  <2>2. /\ next \in WorkspaceCall /\ next.op = "favorite" /\ next.key = lane
        /\ next.terms = c.terms /\ next.body \in {c.terms, Unset} /\ next.reply = NoCopy
        /\ next.seen \in {NoCopy, c.reply}
    BY <1>1, <2>1 DEF FavoriteCall, SentCall, WorkspaceCall
  <2>3. Send(p, lane, next)
    BY <1>2, <1>5
  <2>. HIDE DEF next, c
  <2>4. calls'[p][lane] = next
    BY <2>2, <2>3, SentStaysTyped
  <2>5. CallIsSound(p, lane)'
    BY <1>1, <1>2, <1>5, <2>1, <2>2, <2>4 DEF CallIsSound, WasTheFile, Precedes
  <2>. QED
    BY <1>2, <1>3, <1>4, <2>2, <2>3, <2>5, QuietCallKeeps
<1>6. CASE ~again
  <2>1. Send(p, lane, NoCall)
    BY <1>2, <1>6
  <2>. QED
    BY <1>2, <1>3, <1>4, <2>1, QuietCallKeeps
<1>. QED
  BY <1>5, <1>6

LEMMA FailuresKeep ==
  ASSUME WorkspaceInv, NEW p \in WorkspacePages, NEW lane \in Lanes, FailCall(p, lane)
  PROVE  WorkspaceInv'
<1>. DEFINE again == calls[p][lane].op \in {"favorite", "pin"}
            next == IF again THEN ReadCall ELSE NoCall
<1>1. /\ Send(p, lane, next) /\ UNCHANGED <<workspace, copies>>
      /\ intent' \in {intent, ClearIntent(p, lane)}
  BY DEF FailCall, Send
<1>2. /\ ReadCall \in WorkspaceCall /\ ReadCall.op = "read" /\ ReadCall.seen = NoCopy
      /\ ReadCall.reply = NoCopy
  BY DEF ReadCall, SentCall, WorkspaceCall
<1>3. next \in WorkspaceCall \cup {NoCall}
  BY <1>2
<1>4. calls'[p][lane] = next
  BY <1>1, <1>3, SentStaysTyped
<1>5. next # NoCall => CallIsSound(p, lane)'
  BY <1>2, <1>4 DEF CallIsSound
<1>6. /\ intent' \in [WorkspacePages -> [FavoriteKeys -> BOOLEAN \cup {Unset}]]
      /\ \A q \in WorkspacePages, l \in FavoriteKeys :
           <<q, l>> # <<p, lane>> => intent'[q][l] = intent[q][l]
  BY <1>1, ClearedIntent
<1>. HIDE DEF next
<1>. QED
  BY <1>1, <1>3, <1>5, <1>6, QuietCallKeeps DEF WorkspaceInv

LEMMA ServedKeep ==
  ASSUME WorkspaceInv, NEW p \in WorkspacePages, NEW lane \in Lanes, ServeCall(p, lane)
  PROVE  WorkspaceInv'
<1>. DEFINE c == calls[p][lane]
            given == Outcome(calls[p][lane]).file
<1>1. c # NoCall /\ c.reply = NoCopy /\ Outcome(c).ok /\ workspace' = given
      /\ calls' = [calls EXCEPT ![p][lane].reply = given] /\ UNCHANGED <<copies, intent, clicks>>
  BY DEF ServeCall, IsBusy
<1>2. /\ given \in WorkspaceFile /\ (given = workspace \/ given.revision = workspace.revision + 1)
      /\ c.op = "favorite" => given.favorites[lane] = c.body
  BY <1>1, OutcomeIsNext
<1>. HIDE DEF given
<1>3. /\ c \in WorkspaceCall /\ CallIsSound(p, lane) /\ workspace.revision \in Nat
  BY <1>1 DEF WorkspaceInv, WorkspaceFile
<1>4. \A w \in WorkspaceFile : WasTheFile(w) => Precedes(w, given)
  <2>. SUFFICES ASSUME NEW w \in WorkspaceFile, WasTheFile(w) PROVE Precedes(w, given)
    OBVIOUS
  <2>1. w.revision \in Nat
    BY DEF WorkspaceFile
  <2>. QED
    BY <1>2, <1>3, <2>1 DEF WasTheFile, Precedes
<1>5. /\ calls' \in [WorkspacePages -> [Lanes -> WorkspaceCall \cup {NoCall}]]
      /\ calls'[p][lane] = [c EXCEPT !.reply = given]
      /\ \A q \in WorkspacePages, l \in Lanes :
           <<q, l>> # <<p, lane>> => calls'[q][l] = calls[q][l]
  <2>1. [c EXCEPT !.reply = given] \in WorkspaceCall
    BY <1>2, <1>3 DEF WorkspaceCall
  <2>. QED
    BY <1>1, <2>1 DEF WorkspaceInv
<1>6. Precedes(given, given)
  <2>1. given.revision \in Nat
    BY <1>2 DEF WorkspaceFile
  <2>. QED
    BY <2>1 DEF Precedes
<1>7. CallIsSound(p, lane)'
  <2>1. /\ calls'[p][lane].seen = c.seen /\ calls'[p][lane].op = c.op /\ calls'[p][lane].key = c.key
        /\ calls'[p][lane].terms = c.terms /\ calls'[p][lane].body = c.body
        /\ calls'[p][lane].reply = given
    BY <1>3, <1>5 DEF WorkspaceCall
  <2>2. c.seen # NoCopy => Precedes(c.seen, given)
    BY <1>3, <1>4 DEF WorkspaceCall, CallIsSound
  <2>3. intent' = intent /\ workspace' = given
    BY <1>1
  <2>. QED
    BY <1>2, <1>3, <1>6, <2>1, <2>2, <2>3 DEF CallIsSound, WasTheFile
<1>8. ASSUME NEW q \in WorkspacePages, NEW l \in Lanes, calls'[q][l] # NoCall,
             <<q, l>> # <<p, lane>>
      PROVE  CallIsSound(q, l)'
  <2>1. calls'[q][l] = calls[q][l] /\ calls[q][l] \in WorkspaceCall /\ CallIsSound(q, l)
    BY <1>5, <1>8 DEF WorkspaceInv
  <2>2. /\ calls[q][l].seen \in WorkspaceFile \cup {NoCopy}
        /\ calls[q][l].reply \in WorkspaceFile \cup {NoCopy}
    BY <2>1 DEF WorkspaceCall
  <2>3. intent' = intent /\ workspace' = given
    BY <1>1
  <2>. QED
    BY <1>4, <2>1, <2>2, <2>3 DEF CallIsSound, WasTheFile
<1>9. \A q \in WorkspacePages : copies[q] # NoCopy => Precedes(copies[q], given)
  BY <1>4 DEF WorkspaceInv
<1>10. (\A q \in WorkspacePages : copies[q] # NoCopy => WasTheFile(copies[q]))'
  BY <1>1, <1>9 DEF WasTheFile
<1>. QED
  BY <1>1, <1>2, <1>5, <1>7, <1>8, <1>10 DEF WorkspaceInv

LEMMA WorkspaceStepKeeps ==
  ASSUME WorkspaceInv, [WorkspaceNext]_workspaceVars
  PROVE  WorkspaceInv'
<1>1. CASE UNCHANGED workspaceVars
  BY <1>1 DEF workspaceVars, WorkspaceInv, CallIsSound, WasTheFile, Precedes
<1>2. ASSUME NEW p \in WorkspacePages, LoadCopy(p) PROVE WorkspaceInv'
  <2>1. copies' = [copies EXCEPT ![p] = workspace] /\ UNCHANGED <<workspace, intent, calls>>
    BY <1>2 DEF LoadCopy
  <2>2. workspace.revision \in Nat
    BY DEF WorkspaceInv, WorkspaceFile
  <2>3. copies' \in [WorkspacePages -> WorkspaceFile \cup {NoCopy}]
        /\ \A q \in WorkspacePages : copies'[q] # NoCopy => WasTheFile(copies'[q])
    BY <2>1, <2>2 DEF WorkspaceInv, WasTheFile, Precedes
  <2>. QED
    BY <2>1, <2>3 DEF WorkspaceInv, CallIsSound, WasTheFile, Precedes
<1>3. ASSUME NEW p \in WorkspacePages, NEW lane \in Lanes,
             ServeCall(p, lane) \/ TakeAnswer(p, lane) \/ FailCall(p, lane)
      PROVE  WorkspaceInv'
  BY <1>3, ServedKeep, AnswersKeep, FailuresKeep
<1>. QED
  BY <1>1, <1>2, <1>3, TogglesKeep, ChangesKeep DEF WorkspaceNext

(* The steps of the two action properties. *)
OnlySeen ==
  workspace' # workspace =>
    \E p \in WorkspacePages, lane \in Lanes :
      LET c == calls[p][lane] IN
      /\ c # NoCall /\ calls'[p][lane] # c
      /\ IF c.seen # NoCopy THEN c.seen = workspace
         ELSE \E k \in FavoriteKeys :
                /\ Unset \in {workspace.favorites[k], workspace'.favorites[k]}
                /\ workspace' = [workspace EXCEPT !.revision = @ + 1,
                                   !.favorites[k] = workspace'.favorites[k]]

LEMMA OnlySeenSteps ==
  ASSUME WorkspaceInv, [WorkspaceNext]_workspaceVars
  PROVE  OnlySeen
<1> SUFFICES ASSUME workspace' # workspace PROVE OnlySeen
  BY DEF OnlySeen
<1>1. PICK p \in WorkspacePages, lane \in Lanes : ServeCall(p, lane)
  BY DEF WorkspaceNext, workspaceVars, LoadCopy, ChangePin, ChangeView, ToggleFavorite, TakeAnswer,
         FailCall
<1>. DEFINE c == calls[p][lane]
            given == Outcome(calls[p][lane]).file
<1>2. c # NoCall /\ c.reply = NoCopy /\ Outcome(c).ok /\ workspace' = given
      /\ calls' = [calls EXCEPT ![p][lane].reply = given]
  BY <1>1 DEF ServeCall, IsBusy
<1>3. /\ given \in WorkspaceFile
      /\ IF c.seen # NoCopy THEN c.seen = workspace
         ELSE /\ lane \in FavoriteKeys /\ Unset \in {workspace.favorites[lane], c.body}
              /\ given = [[workspace EXCEPT !.favorites[lane] = c.body] EXCEPT !.revision = @ + 1]
  BY <1>2, OutcomeIsNext
<1>4. c \in WorkspaceCall /\ workspace \in WorkspaceFile
  BY <1>2 DEF WorkspaceInv
<1>. HIDE DEF given
<1>5. calls'[p][lane].reply = given /\ given # NoCopy
  BY <1>2, <1>3, <1>4, UnsetIsNothing DEF WorkspaceInv, WorkspaceCall
<1>6. c.seen = NoCopy => workspace'.favorites[lane] = c.body /\
        workspace' = [workspace EXCEPT !.revision = @ + 1, !.favorites[lane] = workspace'.favorites[lane]]
  <2>1. SUFFICES ASSUME c.seen = NoCopy
                 PROVE  given.favorites[lane] = c.body /\
        given = [workspace EXCEPT !.revision = @ + 1, !.favorites[lane] = given.favorites[lane]]
    BY <1>2
  <2>2. lane \in FavoriteKeys
    BY <1>3, <2>1
  <2>3. given = [[workspace EXCEPT !.favorites[lane] = c.body] EXCEPT !.revision = @ + 1]
    BY <1>3, <2>1
  <2>. HIDE DEF c
  <2>. QED
    BY ONLY <1>4, <2>2, <2>3 DEF WorkspaceFile
<1>. QED
  BY <1>2, <1>3, <1>5, <1>6 DEF OnlySeen

LastClick ==
  \A p \in WorkspacePages, k \in FavoriteKeys :
    LET c == calls[p][k] IN
    (c # NoCall /\ c.op = "favorite" /\ calls'[p][k] = NoCall) =>
      copies'[p].favorites[k] = IF intent[p][k] THEN c.terms ELSE Unset

LEMMA LastClickSteps ==
  ASSUME WorkspaceInv, [WorkspaceNext]_workspaceVars
  PROVE  LastClick
<1> SUFFICES ASSUME NEW p \in WorkspacePages, NEW k \in FavoriteKeys,
                    calls[p][k] # NoCall, calls[p][k].op = "favorite", calls'[p][k] = NoCall
             PROVE  copies'[p].favorites[k] = IF intent[p][k] THEN calls[p][k].terms ELSE Unset
  BY DEF LastClick
<1>. DEFINE c == calls[p][k]
<1>0. k \in Lanes /\ k # "pin" /\ k # "view"
  BY WorkspaceAssumption DEF Lanes
<1>1. c \in WorkspaceCall /\ CallIsSound(p, k)
  BY <1>0 DEF WorkspaceInv
<1>2. TakeAnswer(p, k)
  <2>1. CASE UNCHANGED calls
    BY <2>1
  <2>2. ASSUME NEW q \in WorkspacePages, NEW l \in Lanes, NEW call, Send(q, l, call),
               ~IsBusy(q, l)
        PROVE  FALSE
    BY <1>0, <2>2 DEF Send, IsBusy, WorkspaceInv
  <2>3. ASSUME NEW q \in WorkspacePages, NEW l \in Lanes, ServeCall(q, l)
        PROVE  FALSE
    <3>1. q = p /\ l = k
      BY <1>0, <2>3 DEF ServeCall, WorkspaceInv
    <3>2. Outcome(c).file \in WorkspaceFile
      BY <1>0, <2>3, <3>1, OutcomeIsNext DEF ServeCall, IsBusy
    <3>3. calls'[p][k] = [c EXCEPT !.reply = Outcome(c).file]
      BY <1>0, <2>3, <3>1 DEF ServeCall, WorkspaceInv
    <3>4. calls'[p][k] \in WorkspaceCall
      BY <1>1, <3>2, <3>3 DEF WorkspaceCall
    <3>. QED
      BY <3>4, UnsetIsNothing
  <2>4. ASSUME NEW q \in WorkspacePages, NEW l \in Lanes, FailCall(q, l)
        PROVE  FALSE
    <3>1. q = p /\ l = k
      BY <1>0, <2>4 DEF FailCall, WorkspaceInv
    <3>2. calls'[p][k] = ReadCall
      BY <1>0, <2>4, <3>1 DEF FailCall, WorkspaceInv
    <3>3. ReadCall \in WorkspaceCall
      BY DEF ReadCall, SentCall, WorkspaceCall
    <3>. QED
      BY <3>2, <3>3, UnsetIsNothing
  <2>5. ASSUME NEW q \in WorkspacePages, NEW l \in Lanes, TakeAnswer(q, l)
        PROVE  TakeAnswer(p, k)
    <3>1. PICK call : calls' = [calls EXCEPT ![q][l] = call]
      BY <2>5 DEF TakeAnswer
    <3>2. q = p /\ l = k
      BY <1>0, <3>1 DEF WorkspaceInv
    <3>. QED
      BY <2>5, <3>2
  <2>6. ASSUME NEW q \in WorkspacePages, NEW l \in FavoriteKeys, ToggleFavorite(q, l) PROVE FALSE
    BY <2>1, <2>2, <2>6 DEF ToggleFavorite, Lanes
  <2>7. ASSUME NEW q \in WorkspacePages, ChangePin(q) \/ ChangeView(q) PROVE FALSE
    BY <2>2, <2>7 DEF ChangePin, ChangeView, Lanes
  <2>8. ASSUME NEW q \in WorkspacePages, LoadCopy(q) PROVE FALSE
    BY <2>1, <2>8 DEF LoadCopy
  <2>. QED
    BY <2>1, <2>3, <2>4, <2>5, <2>6, <2>7, <2>8 DEF WorkspaceNext, workspaceVars
<1>3. c.key = k /\ c.terms \in Terms /\ c.body \in {c.terms, Unset} /\ intent[p][k] \in BOOLEAN
      /\ c.reply # NoCopy /\ c.reply.favorites[k] = c.body
  BY <1>0, <1>1, <1>2 DEF CallIsSound, TakeAnswer
<1>4. copies'[p] = c.reply
  BY <1>2 DEF TakeAnswer, WorkspaceInv
<1>5. intent[p][k] = (c.body # Unset)
  <2>. DEFINE next == FavoriteCall(c.key, intent[p][c.key], c.terms, c.confirmed, c.reply)
  <2>. SUFFICES ASSUME intent[p][k] # (c.body # Unset) PROVE FALSE
    OBVIOUS
  <2>1. calls' = [calls EXCEPT ![p][k] = next]
    BY <1>2, <1>3 DEF TakeAnswer
  <2>2. next \in WorkspaceCall
    BY <1>1, <1>3 DEF FavoriteCall, SentCall, WorkspaceCall
  <2>. HIDE DEF next
  <2>3. calls'[p][k] = next
    BY <1>0, <2>1 DEF WorkspaceInv
  <2>. QED
    BY <2>2, <2>3, UnsetIsNothing
<1>. QED
  BY <1>3, <1>4, <1>5, UnsetIsNothing

-----------------------------------------------------------------------------
(***************************************************************************)
(* PastNotes: the file lists each note once, in the order of the notes, and*)
(* a panel's token is what the file held once.  That the list can be       *)
(* written down needs an ordering of any finite set of positions, found by *)
(* the least counterexample (OrderExists).                                 *)
(***************************************************************************)

(* A set of positions can be listed in order, and the listing misses none of them. *)
Ascends(s) == \A i, j \in DOMAIN s : i < j => s[i] < s[j]

LEMMA OrderExists ==
  ASSUME NEW b \in Nat, NEW K \in SUBSET (1..b)
  PROVE  \E s \in [1..Cardinality(K) -> K] : Ascends(s)
<1> DEFINE Listable(n) ==
             \A L \in SUBSET (1..b) : Cardinality(L) = n => \E s \in [1..n -> L] : Ascends(s)
           Bad == {n \in Nat : ~Listable(n)}
<1>1. \A L \in SUBSET (1..b) : IsFiniteSet(L) /\ Cardinality(L) \in Nat
  <2>1. IsFiniteSet(1..b)
    BY FS_Interval
  <2>. QED
    BY <2>1, FS_Subset, FS_CardinalityType
<1>2. ASSUME NEW n \in Nat, \A m \in Nat : m < n => Listable(m)
      PROVE  Listable(n)
  <2>. SUFFICES ASSUME NEW L \in SUBSET (1..b), Cardinality(L) = n
                PROVE  \E s \in [1..n -> L] : Ascends(s)
    OBVIOUS
  <2>1. CASE n = 0
    <3>1. [i \in 1..n |-> 0] \in [1..n -> L] /\ Ascends([i \in 1..n |-> 0])
      BY <2>1 DEF Ascends
    <3>. QED
      BY <3>1
  <2>2. CASE n # 0
    <3>. DEFINE top == Max(L)
                rest == L \ {top}
    <3>1. L # {}
      BY <1>1, <2>2, FS_EmptySet
    <3>2. top \in L /\ \A y \in L : top >= y
      BY <3>1, MaxOfIndices
    <3>. HIDE DEF top
    <3>3. rest \in SUBSET (1..b) /\ Cardinality(rest) = n - 1 /\ n - 1 \in Nat
      <4>1. IsFiniteSet(L) /\ Cardinality(L) = n
        BY <1>1, <2>2
      <4>2. Cardinality(rest) = Cardinality(L) - 1
        BY <3>2, <4>1, FS_RemoveElement
      <4>3. n - 1 \in Nat
        BY <2>2
      <4>. HIDE DEF rest
      <4>4. rest \in SUBSET (1..b)
        BY DEF rest
      <4>. QED
        BY <4>1, <4>2, <4>3, <4>4
    <3>4. PICK s \in [1..(n - 1) -> rest] : Ascends(s)
      BY <1>2, <3>3
    <3>5. L \in SUBSET Nat /\ top \in Nat
      BY <3>2
    <3>6. /\ DOMAIN s = 1..(n - 1)
          /\ \A i \in 1..(n - 1) : s[i] \in L /\ s[i] \in Nat /\ s[i] < top
          /\ top \in Nat
      <4>1. DOMAIN s = 1..(n - 1) /\ \A i \in 1..(n - 1) : s[i] \in L /\ s[i] # top
        BY <3>4
      <4>2. \A y \in L : y \in Nat /\ y <= top
        BY <3>2, <3>5
      <4>3. ASSUME NEW x \in L, x # top PROVE x \in Nat /\ x < top
        <5>1. x \in Nat /\ x <= top /\ top \in Nat
          BY <3>5, <4>2
        <5>. QED
          BY <4>3, <5>1
      <4>. QED
        BY <3>5, <4>1, <4>3
    <3>. DEFINE t == [i \in 1..n |-> IF i = n THEN top ELSE s[i]]
    <3>7. t \in [1..n -> L]
      BY <3>2, <3>3, <3>6
    <3>8. ASSUME NEW i \in 1..n, NEW j \in 1..n, i < j PROVE t[i] < t[j]
      <4>1. CASE j = n
        BY <3>6, <3>8, <4>1
      <4>2. CASE j # n
        BY <3>4, <3>6, <3>8, <4>2 DEF Ascends
      <4>. QED
        BY <4>1, <4>2
    <3>. QED
      BY <3>7, <3>8 DEF Ascends
  <2>. QED
    BY <2>1, <2>2
<1>3. \A n \in Nat : Listable(n)
  <2>. SUFFICES ASSUME Bad # {} PROVE FALSE
    OBVIOUS
  <2>1. PICK n \in Bad : \A m \in Bad : n <= m
    BY LeastExists
  <2>2. \A m \in Nat : m < n => m \notin Bad
    BY <2>1
  <2>3. Listable(n)
    <3>. HIDE DEF Listable
    <3>. QED
      BY <1>2, <2>1, <2>2
  <2>. HIDE DEF Listable
  <2>. QED
    BY <2>1, <2>3
<1>. HIDE DEF Listable
<1>4. Listable(Cardinality(K))
  BY <1>1, <1>3
<1>. QED
  BY <1>4 DEF Listable

LEMMA OrderMissesNone ==
  ASSUME NEW b \in Nat, NEW K \in SUBSET (1..b)
  PROVE  /\ InOrder(K) \in [1..Cardinality(K) -> K]
         /\ Cardinality(K) \in Nat
         /\ \A k \in K : \E i \in 1..Cardinality(K) : InOrder(K)[i] = k
<1>1. IsFiniteSet(K) /\ Cardinality(K) \in Nat
  <2>1. IsFiniteSet(1..b)
    BY FS_Interval
  <2>. QED
    BY <2>1, FS_Subset, FS_CardinalityType
<1>. DEFINE n == Cardinality(K)
            s == InOrder(K)
<1>2. s \in [1..n -> K] /\ Ascends(s)
  BY OrderExists DEF InOrder, Ascends
<1>. HIDE DEF n, s
<1>3. ASSUME NEW k \in K, \A i \in 1..n : s[i] # k PROVE FALSE
  <2>1. s \in [1..n -> K \ {k}]
    BY <1>2, <1>3
  <2>2. IsFiniteSet(K \ {k}) /\ Cardinality(K \ {k}) = n - 1
    BY <1>1, FS_RemoveElement DEF n
  <2>3. IsFiniteSet(1..n) /\ Cardinality(1..n) = n
    <3>1. n \in Int /\ 1 \in Int /\ n >= 0
      BY <1>1 DEF n
    <3>2. IsFiniteSet(1..n) /\ Cardinality(1..n) = IF 1 > n THEN 0 ELSE n - 1 + 1
      BY <3>1, FS_Interval
    <3>. QED
      BY <3>1, <3>2
  <2>4. Cardinality(K \ {k}) < Cardinality(1..n)
    BY <1>1, <2>2, <2>3 DEF n
  <2>5. \E x, y \in 1..n : x # y /\ s[x] = s[y]
    <3>1. IsFiniteSet(1..n) /\ IsFiniteSet(K \ {k})
      BY <2>2, <2>3
    <3>. DEFINE S == 1..n
                T == K \ {k}
    <3>. HIDE DEF S, T
    <3>2. IsFiniteSet(S) /\ IsFiniteSet(T) /\ Cardinality(T) < Cardinality(S) /\ s \in [S -> T]
      BY <2>1, <2>4, <3>1 DEF S, T
    <3>3. \E x, y \in S : x # y /\ s[x] = s[y]
      BY <3>2, FS_PigeonHole
    <3>. QED
      BY <3>3 DEF S
  <2>6. \A x, y \in 1..n : x < y => s[x] < s[y]
    BY <1>2 DEF Ascends
  <2>7. \A x \in 1..n : s[x] \in Nat
    <3>1. K \in SUBSET Nat
      OBVIOUS
    <3>. QED
      BY <1>2, <3>1
  <2>8. n \in Nat
    BY <1>1 DEF n
  <2>. QED
    BY <2>5, <2>6, <2>7, <2>8
<1>. QED
  BY <1>1, <1>2, <1>3 DEF n, s

Panel ==
  [viewing : BOOLEAN, token : Seq(Note) \cup {NoToken}, draft : Draft \cup {Blank}, edits : Nat,
   save : Save \cup {NoSave}]

SaveIsSent(panel) ==
  panel.save # NoSave =>
    /\ panel.save.edits <= panel.edits
    /\ panel.save.edits = panel.edits => panel.draft \in {panel.save.draft, Blank}

NotesInv ==
  /\ noteTime \in Nat /\ texts \in Nat
  /\ noteFile \in Seq(Note)
  /\ panels \in [Panels -> Panel]
  /\ \A p \in Panels : SaveIsSent(panels[p])

LEMMA NotesInitHolds == NotesInit => NotesInv
  BY DEF NotesInit, NotesInv, ClosedPanel, Panel, SaveIsSent

(* The listed after a save: the note, and all that have not expired under other reasons. *)
LEMMA SavedFile ==
  ASSUME NotesInv, NEW draft \in Draft
  PROVE  /\ NotesWith(draft) \in Seq(Note)
         /\ \A note \in ToSet(noteFile) :
              IsActive(note) /\ note.reason # draft.reason => note \in ToSet(NotesWith(draft))
<1>. DEFINE K == Staying(draft)
            order == InOrder(K)
            n == Cardinality(K)
            rest == [i \in DOMAIN order |-> noteFile[order[i]]]
            first == [reason |-> draft.reason, text |-> draft.text, at |-> noteTime]
<1>1. Len(noteFile) \in Nat /\ DOMAIN noteFile = 1..Len(noteFile)
      /\ \A i \in DOMAIN noteFile : noteFile[i] \in Note
  BY DEF NotesInv
<1>2. K \in SUBSET (1..Len(noteFile))
  BY <1>1 DEF Staying
<1>3. order \in [1..n -> K] /\ n \in Nat /\ \A k \in K : \E i \in 1..n : order[i] = k
  BY <1>1, <1>2, OrderMissesNone
<1>4. NotesWith(draft) = <<first>> \o rest
  BY DEF NotesWith
<1>. HIDE DEF K, order, n
<1>5. rest \in Seq(Note) /\ Len(rest) = n /\ first \in Note
  <2>1. DOMAIN order = 1..n /\ \A i \in 1..n : noteFile[order[i]] \in Note
    BY <1>1, <1>2, <1>3
  <2>2. first \in Note
    BY DEF Note, Draft, NotesInv
  <2>. QED
    BY <1>3, <2>1, <2>2
<1>6. ASSUME NEW note \in ToSet(noteFile), IsActive(note), note.reason # draft.reason
      PROVE  note \in ToSet(NotesWith(draft))
  <2>1. PICK k \in DOMAIN noteFile : noteFile[k] = note
    BY DEF ToSet
  <2>2. k \in K
    BY <1>6, <2>1 DEF K, Staying
  <2>3. PICK i \in 1..n : order[i] = k
    BY <1>3, <2>2
  <2>4. rest[i] = note
    BY <1>3, <2>1, <2>3
  <2>5. i + 1 \in DOMAIN (<<first>> \o rest) /\ (<<first>> \o rest)[i + 1] = rest[i]
    <3>. HIDE DEF rest, first
    <3>. QED
      BY <1>3, <1>5
  <2>. QED
    BY <1>4, <2>4, <2>5 DEF ToSet
<1>. HIDE DEF rest, first
<1>. QED
  BY <1>4, <1>5, <1>6

(* One panel changes, and is sound. *)
LEMMA PanelStepKeeps ==
  ASSUME NotesInv, NEW p \in Panels, NEW panel \in Panel, SaveIsSent(panel),
         panels' = [panels EXCEPT ![p] = panel],
         noteTime' \in Nat, texts' \in Nat, noteFile' \in Seq(Note)
  PROVE  NotesInv'
<1>1. panels' \in [Panels -> Panel] /\ \A q \in Panels : SaveIsSent(panels'[q])
  BY DEF NotesInv, Panel, SaveIsSent
<1>. QED
  BY <1>1 DEF NotesInv, Panel, SaveIsSent

LEMMA NotesStepKeeps ==
  ASSUME NotesInv, [NotesNext]_noteVars
  PROVE  NotesInv'
<1>0. noteTime \in Nat /\ texts \in Nat /\ noteFile \in Seq(Note) /\ panels \in [Panels -> Panel]
      /\ \A p \in Panels : panels[p] \in Panel /\ SaveIsSent(panels[p])
  BY DEF NotesInv, Panel, SaveIsSent
<1>1. CASE UNCHANGED noteVars
  BY <1>1 DEF noteVars, NotesInv
<1>2. CASE NoteTick
  BY <1>2 DEF NoteTick, NotesInv
<1>3. ASSUME NEW p \in Panels, VisitNotes(p) \/ LeaveNotes(p) PROVE NotesInv'
  <2>1. PICK on \in BOOLEAN :
          panels' = [panels EXCEPT ![p] = [@ EXCEPT !.viewing = on, !.token = NoToken]]
    BY <1>3 DEF VisitNotes, LeaveNotes
  <2>. DEFINE panel == [panels[p] EXCEPT !.viewing = on, !.token = NoToken]
  <2>2. panel \in Panel /\ SaveIsSent(panel)
    BY <1>0 DEF Panel, SaveIsSent
  <2>3. panels' = [panels EXCEPT ![p] = panel] /\ UNCHANGED <<noteTime, noteFile, texts>>
    BY <1>0, <1>3, <2>1 DEF VisitNotes, LeaveNotes
  <2>. HIDE DEF panel
  <2>. QED
    BY <1>0, <2>2, <2>3, PanelStepKeeps
<1>4. ASSUME NEW p \in Panels, ListNotes(p) PROVE NotesInv'
  <2>. DEFINE panel == [panels[p] EXCEPT !.token = noteFile]
  <2>1. panel \in Panel /\ SaveIsSent(panel)
    BY <1>0 DEF Panel, SaveIsSent
  <2>2. panels' = [panels EXCEPT ![p] = panel] /\ UNCHANGED <<noteTime, noteFile, texts>>
    BY <1>0, <1>4 DEF ListNotes
  <2>. HIDE DEF panel
  <2>. QED
    BY <1>0, <2>1, <2>2, PanelStepKeeps
<1>5. ASSUME NEW p \in Panels, TypeText(p) PROVE NotesInv'
  <2>1. PICK reason \in NoteReasons :
          panels' = [panels EXCEPT ![p] =
            [panels[p] EXCEPT !.draft = [reason |-> reason, text |-> texts + 1],
                              !.edits = panels[p].edits + 1]]
    BY <1>5 DEF TypeText
  <2>. DEFINE draft == [reason |-> reason, text |-> texts + 1]
              edits == panels[p].edits + 1
              panel == [panels[p] EXCEPT !.draft = draft, !.edits = edits]
  <2>2. draft \in Draft
    BY <1>0 DEF Draft
  <2>10. panels' = [panels EXCEPT ![p] = panel]
    BY <2>1
  <2>11. edits \in Nat /\ edits = panels[p].edits + 1
    BY <1>0 DEF Panel
  <2>. HIDE DEF draft, edits
  <2>3. panel \in Panel /\ panel.edits = panels[p].edits + 1 /\ panel.save = panels[p].save
    <3>1. panels[p] \in Panel
      BY <1>0
    <3>2. panel \in Panel /\ panel.edits = edits /\ panel.save = panels[p].save
      BY <2>2, <2>11, <3>1 DEF Panel
    <3>. QED
      BY <2>11, <3>2
  <2>4. panels[p].save # NoSave => panels[p].save.edits \in Nat
    BY <1>0 DEF Panel, Save
  <2>5. SaveIsSent(panel)
    <3>1. panels[p].edits \in Nat
      BY <1>0 DEF Panel
    <3>. QED
      BY <1>0, <2>3, <2>4, <3>1 DEF SaveIsSent
  <2>6. panels' = [panels EXCEPT ![p] = panel] /\ UNCHANGED <<noteTime, noteFile>> /\ texts' \in Nat
    <3>1. panels' = [panels EXCEPT ![p] = panel]
      BY <2>10
    <3>2. UNCHANGED <<noteTime, noteFile>> /\ texts' \in Nat
      BY <1>0, <1>5 DEF TypeText
    <3>. QED
      BY <3>1, <3>2
  <2>. HIDE DEF panel
  <2>. QED
    BY <1>0, <2>3, <2>5, <2>6, PanelStepKeeps
<1>6. ASSUME NEW p \in Panels, SaveNote(p) PROVE NotesInv'
  <2>. DEFINE save == [draft |-> panels[p].draft, edits |-> panels[p].edits,
                       token |-> panels[p].token, reply |-> NoToken]
              panel == [panels[p] EXCEPT !.save = save]
  <2>1. save \in Save
    BY <1>0, <1>6 DEF SaveNote, Panel, Save
  <2>2. panel \in Panel /\ panel.save = save /\ panel.edits = panels[p].edits
        /\ panel.draft = panels[p].draft /\ panels[p].edits \in Nat
    BY <1>0, <2>1 DEF Panel
  <2>3. SaveIsSent(panel)
    BY <2>2 DEF SaveIsSent
  <2>4. panels' = [panels EXCEPT ![p] = panel] /\ UNCHANGED <<noteTime, noteFile, texts>>
    BY <1>0, <1>6 DEF SaveNote
  <2>. HIDE DEF panel
  <2>. QED
    BY <1>0, <2>2, <2>3, <2>4, PanelStepKeeps
<1>7. ASSUME NEW p \in Panels, ServeSave(p) PROVE NotesInv'
  <2>. DEFINE listed == NotesWith(panels[p].save.draft)
              save == [panels[p].save EXCEPT !.reply = listed]
              panel == [panels[p] EXCEPT !.save = save]
  <2>1. panels[p].save \in Save /\ panels[p].save # NoSave
    BY <1>0, <1>7 DEF ServeSave, Panel
  <2>2. listed \in Seq(Note)
    BY <2>1, SavedFile DEF Save
  <2>. HIDE DEF listed
  <2>3. save \in Save /\ save.edits = panels[p].save.edits /\ save.draft = panels[p].save.draft
    BY <2>1, <2>2 DEF Save
  <2>. HIDE DEF save
  <2>4. panel \in Panel /\ panel.save = save /\ panel.edits = panels[p].edits
        /\ panel.draft = panels[p].draft
    BY <1>0, <2>3 DEF Panel
  <2>5. SaveIsSent(panel)
    BY <1>0, <2>1, <2>3, <2>4 DEF SaveIsSent
  <2>6. panels' = [panels EXCEPT ![p] = panel] /\ noteFile' = listed /\ UNCHANGED <<noteTime, texts>>
    BY <1>0, <1>7 DEF ServeSave, listed, save
  <2>. HIDE DEF panel
  <2>. QED
    BY <1>0, <2>2, <2>4, <2>5, <2>6, PanelStepKeeps
<1>8. ASSUME NEW p \in Panels, TakeSaved(p) PROVE NotesInv'
  <2>. DEFINE cleared == panels[p].viewing /\ DraftIsAsSent(panels[p])
              token == IF panels[p].viewing THEN panels[p].save.reply ELSE panels[p].token
              draft == IF cleared THEN Blank ELSE panels[p].draft
              edits == IF cleared THEN panels[p].edits + 1 ELSE panels[p].edits
              panel == [panels[p] EXCEPT !.save = NoSave, !.token = token, !.draft = draft,
                                         !.edits = edits]
  <2>1. panels[p].save \in Save /\ panels[p].save.reply \in Seq(Note)
    BY <1>0, <1>8 DEF TakeSaved, Panel, Save
  <2>5. token \in Seq(Note) \cup {NoToken} /\ draft \in Draft \cup {Blank} /\ edits \in Nat
    BY <1>0, <2>1 DEF Panel
  <2>6. panels' = [panels EXCEPT ![p] = panel]
    BY <1>0, <1>8 DEF TakeSaved
  <2>. HIDE DEF token, draft, edits
  <2>2. panel \in Panel /\ panel.save = NoSave
    BY <1>0, <2>5 DEF Panel
  <2>3. SaveIsSent(panel)
    BY <2>2 DEF SaveIsSent
  <2>4. panels' = [panels EXCEPT ![p] = panel] /\ UNCHANGED <<noteTime, noteFile, texts>>
    BY <1>0, <1>8, <2>6 DEF TakeSaved
  <2>. HIDE DEF panel
  <2>. QED
    BY <1>0, <2>2, <2>3, <2>4, PanelStepKeeps
<1>9. ASSUME NEW p \in Panels, FailSave(p) PROVE NotesInv'
  <2>. DEFINE panel == [panels[p] EXCEPT !.save = NoSave]
  <2>1. panel \in Panel /\ SaveIsSent(panel)
    BY <1>0 DEF Panel, SaveIsSent
  <2>2. panels' = [panels EXCEPT ![p] = panel] /\ UNCHANGED <<noteTime, noteFile, texts>>
    BY <1>0, <1>9 DEF FailSave
  <2>. HIDE DEF panel
  <2>. QED
    BY <1>0, <2>1, <2>2, PanelStepKeeps
<1>. QED
  BY <1>1, <1>2, <1>3, <1>4, <1>5, <1>6, <1>7, <1>8, <1>9 DEF NotesNext

(* The steps of the two action properties. *)
KeepsNotes ==
  \A note \in ToSet(noteFile) \ ToSet(noteFile') :
    \/ ~IsActive(note)
    \/ \E p \in Panels :
         LET save == panels[p].save IN
         /\ save # NoSave /\ panels'[p].save # save
         /\ save.draft.reason = note.reason /\ note \in ToSet(save.token)

LEMMA NotesSteps ==
  ASSUME NotesInv, [NotesNext]_noteVars
  PROVE  KeepsNotes
<1>1. CASE noteFile' = noteFile
  BY <1>1 DEF KeepsNotes
<1>2. CASE noteFile' # noteFile
  <2>1. PICK p \in Panels : ServeSave(p)
    BY <1>2 DEF NotesNext, noteVars, VisitNotes, ListNotes, LeaveNotes, TypeText, SaveNote,
                TakeSaved, FailSave, NoteTick
  <2>. DEFINE save == panels[p].save
  <2>2. panels[p] \in Panel /\ save \in Save /\ save # NoSave /\ save.reply = NoToken
        /\ save.token = noteFile /\ noteFile' = NotesWith(save.draft) /\ save.draft \in Draft
    BY <2>1 DEF ServeSave, NotesInv, Panel, TokenMatches, Save
  <2>3. /\ NotesWith(save.draft) \in Seq(Note)
        /\ \A note \in ToSet(noteFile) :
             IsActive(note) /\ note.reason # save.draft.reason => note \in ToSet(noteFile')
    BY <2>2, SavedFile
  <2>4. panels'[p].save = [save EXCEPT !.reply = NotesWith(save.draft)]
    BY <2>1, <2>2 DEF ServeSave, NotesInv, Panel
  <2>5. panels'[p].save.reply # NoToken
    BY <2>2, <2>3, <2>4, BlankIsNothing DEF Save
  <2>. QED
    BY <2>2, <2>3, <2>5 DEF KeepsNotes
<1>. QED
  BY <1>1, <1>2

KeepsDrafts ==
  \A p \in Panels :
    panels'[p].draft = Blank => panels[p].draft \in {Blank}
      \cup (IF panels[p].save = NoSave THEN {} ELSE {panels[p].save.draft})

LEMMA DraftSteps ==
  ASSUME NotesInv, [NotesNext]_noteVars
  PROVE  KeepsDrafts
<1> SUFFICES ASSUME NEW p \in Panels, panels'[p].draft = Blank, panels[p].draft # Blank
             PROVE  panels[p].save # NoSave /\ panels[p].draft = panels[p].save.draft
  BY DEF KeepsDrafts
<1>0. panels \in [Panels -> Panel] /\ SaveIsSent(panels[p]) /\ panels'[p].draft # panels[p].draft
  BY DEF NotesInv, Panel, SaveIsSent
<1>1. ASSUME NEW q \in Panels, TypeText(q) PROVE FALSE
  <2>1. PICK reason \in NoteReasons :
          panels' = [panels EXCEPT ![q] =
            [panels[q] EXCEPT !.draft = [reason |-> reason, text |-> texts + 1],
                              !.edits = panels[q].edits + 1]]
    BY <1>1 DEF TypeText
  <2>2. [reason |-> reason, text |-> texts + 1] \in Draft
    BY DEF NotesInv, Draft
  <2>3. panels'[p].draft \in {panels[p].draft, [reason |-> reason, text |-> texts + 1]}
    BY <1>0, <2>1 DEF Panel
  <2>. QED
    BY <1>0, <2>2, <2>3, BlankIsNothing
<1>2. ASSUME NEW q \in Panels, TakeSaved(q)
      PROVE  panels[p].save # NoSave /\ panels[p].draft = panels[p].save.draft
  <2>1. q = p
    BY <1>0, <1>2 DEF TakeSaved
  <2>2. panels[p].save # NoSave /\ DraftIsAsSent(panels[p])
    <3>1. CASE panels[p].viewing /\ DraftIsAsSent(panels[p])
      BY <1>2, <2>1, <3>1 DEF TakeSaved
    <3>2. CASE ~(panels[p].viewing /\ DraftIsAsSent(panels[p]))
      <4>1. PICK token, edits :
              panels' = [panels EXCEPT ![p] =
                [panels[p] EXCEPT !.save = NoSave, !.token = token, !.draft = panels[p].draft,
                                  !.edits = edits]]
        BY <1>0, <1>2, <2>1, <3>2, ZenonT(30) DEF TakeSaved
      <4>. QED
        BY <1>0, <4>1 DEF Panel
    <3>. QED
      BY <3>1, <3>2
  <2>. QED
    BY <1>0, <2>2 DEF SaveIsSent, DraftIsAsSent
<1>3. ASSUME NEW q \in Panels,
             VisitNotes(q) \/ ListNotes(q) \/ LeaveNotes(q) \/ SaveNote(q) \/ ServeSave(q) \/ FailSave(q)
      PROVE  FALSE
  <2>1. CASE VisitNotes(q) \/ LeaveNotes(q)
    <3>1. PICK on \in BOOLEAN :
            panels' = [panels EXCEPT ![q] = [@ EXCEPT !.viewing = on, !.token = NoToken]]
      BY <2>1 DEF VisitNotes, LeaveNotes
    <3>2. q = p
      BY <1>0, <3>1
    <3>3. panels'[p] = [panels[p] EXCEPT !.viewing = on, !.token = NoToken]
      BY <1>0, <3>1, <3>2
    <3>. QED
      BY <1>0, <3>3 DEF Panel
  <2>2. CASE ListNotes(q) \/ FailSave(q)
    BY <1>0, <2>2 DEF ListNotes, FailSave, Panel
  <2>3. ASSUME NEW save, panels' = [panels EXCEPT ![q].save = save] PROVE FALSE
    BY <1>0, <2>3 DEF Panel
  <2>4. CASE SaveNote(q)
    BY <2>3, <2>4 DEF SaveNote
  <2>5. CASE ServeSave(q)
    <3>1. PICK listed : panels' = [panels EXCEPT ![q] = [panels[q] EXCEPT !.save.reply = listed]]
      BY <2>5 DEF ServeSave
    <3>2. q = p
      BY <1>0, <3>1
    <3>3. panels'[p] = [panels[p] EXCEPT !.save.reply = listed]
      BY <1>0, <3>1, <3>2
    <3>. QED
      BY <1>0, <3>3 DEF Panel
  <2>. QED
    BY <1>3, <2>1, <2>2, <2>4, <2>5
<1>. QED
  BY <1>0, <1>1, <1>2, <1>3 DEF NotesNext, noteVars, NoteTick

-----------------------------------------------------------------------------
(***************************************************************************)
(* PriceChangeService: who waits for a candle waits for a load under way,  *)
(* and what was answered of a day is the baseline kept for that day, for as*)
(* long as the day lasts.                                                  *)
(***************************************************************************)

Caller ==
  [stage : {"resting", "latest", "latest awaited", "baseline", "baseline awaited"},
   at : 0..LastTick, newest : Candle({1}) \cup {NoPrice}]

ServiceTypeOK ==
  /\ serviceTime \in 0..LastTick
  /\ callers \in [Callers -> Caller]
  /\ latest \in [LatestMinutes -> KeptCandle({1}) \cup {NoPrice}]
  /\ baselines \in [BaselineDays -> KeptCandle(BaselineCloses) \cup {NoPrice}]
  /\ answered \in Answer \cup {NoPrice}

(* A baseline that was found is kept to the end of its day, and not asked for again. *)
FoundIsKept ==
  \A d \in BaselineDays :
    /\ baselines[d] # NoPrice /\ baselines[d].value.close # NoPrice =>
         baselines[d].expires = (d + 1) * DayLength
    /\ <<"baseline", d>> \in loading => baselines[d] = NoPrice

(* While its day lasts, an answer measures from the baseline that is kept. *)
AnswerIsKept ==
  answered # NoPrice /\ serviceTime < (answered.day + 1) * DayLength =>
    /\ answered.day \in BaselineDays /\ baselines[answered.day] # NoPrice
    /\ baselines[answered.day].value.close = answered.close /\ answered.close # NoPrice

ServiceInv == ServiceTypeOK /\ FoundIsKept /\ AnswerIsKept /\ AwaitedIsLoading

LEMMA ServiceInitHolds == ServiceInit => ServiceInv
<1> SUFFICES ASSUME ServiceInit PROVE ServiceInv
  OBVIOUS
<1>1. 0 \in 0..LastTick
  BY ServiceAssumption
<1>2. ServiceTypeOK
  BY <1>1 DEF ServiceInit, ServiceTypeOK, Caller, Resting
<1>3. FoundIsKept /\ AnswerIsKept /\ AwaitedIsLoading
  BY DEF ServiceInit, Resting, FoundIsKept, AnswerIsKept, AwaitedIsLoading
<1>. QED
  BY <1>2, <1>3 DEF ServiceInv

LEMMA PartsAreBounded ==
  ASSUME NEW a \in Nat, NEW b \in Nat, a <= b, NEW n \in Nat \ {0}
  PROVE  a \div n \in 0..b \div n
<1>. DEFINE p == a \div n
            q == b \div n
<1>1. /\ p \in Int /\ q \in Int
      /\ n * p <= a /\ a < n * p + n /\ n * q <= b /\ b < n * q + n
  OBVIOUS
<1>. HIDE DEF p, q
<1>2. p >= 0
  <2>1. CASE p <= -1
    <3>1. n * p <= -n
      BY <1>1, <2>1
    <3>. QED
      BY <1>1, <3>1
  <2>. QED
    BY <1>1, <2>1
<1>3. p <= q
  <2>1. CASE p >= q + 1
    <3>1. n * p >= n * (q + 1)
      BY <1>1, <2>1
    <3>2. n * (q + 1) = n * q + n
      BY <1>1
    <3>. QED
      BY <1>1, <3>1, <3>2
  <2>. QED
    BY <1>1, <2>1
<1>4. p \in 0..q
  BY <1>1, <1>2, <1>3
<1>. QED
  BY <1>4 DEF p, q

LEMMA DaysAreKnown ==
  ASSUME ServiceTypeOK, NEW c \in Callers
  PROVE  DayOf(c) \in BaselineDays /\ DayOf(c) \in Nat /\ MinuteOf(c) \in LatestMinutes
<1>1. callers[c].at \in Nat /\ callers[c].at <= LastTick /\ LastTick \in Nat
  <2>1. callers[c].at \in 0..LastTick
    BY DEF ServiceTypeOK, Caller
  <2>2. LastTick \in Nat
    BY ServiceAssumption
  <2>. QED
    BY <2>1, <2>2
<1>2. DayLength \in Nat \ {0} /\ MinuteLength \in Nat \ {0}
  BY ServiceAssumption
<1>3. callers[c].at \div DayLength \in 0..LastTick \div DayLength
  BY <1>1, <1>2, PartsAreBounded
<1>4. callers[c].at \div MinuteLength \in 0..LastTick \div MinuteLength
  BY <1>1, <1>2, PartsAreBounded
<1>. QED
  BY <1>3, <1>4 DEF DayOf, MinuteOf, BaselineDays, LatestMinutes

(* A caller that changes: the others are as they were. *)
LEMMA CallerMoves ==
  ASSUME ServiceTypeOK, NEW c \in Callers, NEW x \in Caller,
         callers' = [callers EXCEPT ![c] = x]
  PROVE  /\ callers' \in [Callers -> Caller] /\ callers'[c] = x
         /\ \A e \in Callers \ {c} : callers'[e] = callers[e]
  BY DEF ServiceTypeOK

LEMMA BeginKeeps ==
  ASSUME ServiceInv, NEW c \in Callers, BeginChange(c)
  PROVE  ServiceInv'
<1>. DEFINE x == [Resting EXCEPT !.stage = "latest", !.at = serviceTime]
<1>1. x \in Caller /\ x.stage = "latest"
  BY DEF ServiceInv, ServiceTypeOK, Caller, Resting
<1>2. callers' = [callers EXCEPT ![c] = x]
      /\ UNCHANGED <<serviceTime, latest, baselines, loading, answered>>
  BY DEF BeginChange
<1>. HIDE DEF x
<1>3. /\ callers' \in [Callers -> Caller] /\ callers'[c] = x
      /\ \A e \in Callers \ {c} : callers'[e] = callers[e]
  BY <1>1, <1>2, CallerMoves DEF ServiceInv
<1>. QED
  BY <1>1, <1>2, <1>3
     DEF ServiceInv, ServiceTypeOK, FoundIsKept, AnswerIsKept, AwaitedIsLoading, MinuteOf, DayOf

LEMMA SeekLatestKeeps ==
  ASSUME ServiceInv, NEW c \in Callers, SeekLatest(c)
  PROVE  ServiceInv'
<1>. DEFINE m == MinuteOf(c)
            kept == latest[m]
            fresh == FreshCandle(kept)
            x == IF fresh THEN [callers[c] EXCEPT !.stage = "baseline", !.newest = kept.value]
                          ELSE [callers[c] EXCEPT !.stage = "latest awaited"]
<1>1. m \in LatestMinutes /\ kept \in KeptCandle({1}) \cup {NoPrice} /\ callers[c] \in Caller
  BY DaysAreKnown DEF ServiceInv, ServiceTypeOK
<1>2. x \in Caller /\ x.at = callers[c].at
      /\ x.stage = IF fresh THEN "baseline" ELSE "latest awaited"
  BY <1>1 DEF FreshCandle, KeptCandle, Candle, Caller
<1>3. callers' = [callers EXCEPT ![c] = x] /\ UNCHANGED <<serviceTime, baselines, answered>>
      /\ latest' = [latest EXCEPT ![m] = IF fresh THEN kept ELSE NoPrice]
      /\ loading' = (IF fresh THEN loading ELSE loading \cup {<<"latest", m>>})
  BY DEF SeekLatest, SeekCandle
<1>. HIDE DEF x, fresh
<1>4. /\ callers' \in [Callers -> Caller] /\ callers'[c] = x
      /\ \A e \in Callers \ {c} : callers'[e] = callers[e]
  BY <1>2, <1>3, CallerMoves DEF ServiceInv
<1>5. ServiceTypeOK'
  BY <1>1, <1>3, <1>4 DEF ServiceInv, ServiceTypeOK
<1>6. FoundIsKept' /\ AnswerIsKept'
  BY <1>3 DEF ServiceInv, FoundIsKept, AnswerIsKept
<1>7. AwaitedIsLoading'
  BY <1>2, <1>3, <1>4 DEF ServiceInv, AwaitedIsLoading, MinuteOf, DayOf
<1>. QED
  BY <1>5, <1>6, <1>7 DEF ServiceInv

LEMMA ReplyIsTyped ==
  ASSUME ServiceTypeOK, NEW c \in Callers, NEW newest, NEW baseline \in Candle(BaselineCloses)
  PROVE  /\ ReplyTo(c, newest, baseline) \in Answer \cup {NoPrice}
         /\ AnswerReady(c, newest, baseline) =>
              /\ ReplyTo(c, newest, baseline) \in Answer
              /\ ReplyTo(c, newest, baseline).day = DayOf(c)
              /\ ReplyTo(c, newest, baseline).close = baseline.close
              /\ ReplyTo(c, newest, baseline).at = serviceTime
              /\ baseline.close # NoPrice
         /\ ~AnswerReady(c, newest, baseline) => ReplyTo(c, newest, baseline) = answered
<1>1. DayOf(c) \in Nat /\ serviceTime \in Nat /\ answered \in Answer \cup {NoPrice}
  BY DaysAreKnown, ServiceAssumption DEF ServiceTypeOK
<1>2. CASE AnswerReady(c, newest, baseline)
  <2>1. baseline.close \in BaselineCloses /\ baseline.close # NoPrice
    BY <1>2 DEF AnswerReady, Candle
  <2>. QED
    BY <1>1, <1>2, <2>1 DEF ReplyTo, Answer
<1>3. CASE ~AnswerReady(c, newest, baseline)
  BY <1>1, <1>3 DEF ReplyTo
<1>. QED
  BY <1>2, <1>3

LEMMA SeekBaselineKeeps ==
  ASSUME ServiceInv, NEW c \in Callers, SeekBaseline(c)
  PROVE  ServiceInv'
<1>. DEFINE d == DayOf(c)
            kept == baselines[d]
            fresh == FreshCandle(kept)
            x == IF fresh THEN Resting ELSE [callers[c] EXCEPT !.stage = "baseline awaited"]
<1>1. /\ d \in BaselineDays /\ d \in Nat
      /\ kept \in KeptCandle(BaselineCloses) \cup {NoPrice} /\ callers[c] \in Caller
      /\ fresh => kept.value \in Candle(BaselineCloses) /\ kept # NoPrice
      /\ serviceTime \in Nat /\ DayLength \in Nat
  BY DaysAreKnown, ServiceAssumption
     DEF ServiceInv, ServiceTypeOK, FreshCandle, KeptCandle
<1>2. x \in Caller /\ (~fresh => x.at = callers[c].at)
      /\ x.stage = IF fresh THEN "resting" ELSE "baseline awaited"
  <2>1. 0 \in 0..LastTick
    BY ServiceAssumption
  <2>. QED
    BY <1>1, <2>1 DEF Caller, Resting
<1>3. /\ callers' = [callers EXCEPT ![c] = x] /\ UNCHANGED <<serviceTime, latest>>
      /\ baselines' = [baselines EXCEPT ![d] = IF fresh THEN kept ELSE NoPrice]
      /\ loading' = (IF fresh THEN loading ELSE loading \cup {<<"baseline", d>>})
      /\ answered' = IF fresh THEN ReplyTo(c, callers[c].newest, kept.value) ELSE answered
  BY DEF SeekBaseline, SeekCandle
<1>. HIDE DEF x, fresh
<1>4. /\ callers' \in [Callers -> Caller] /\ callers'[c] = x
      /\ \A e \in Callers \ {c} : callers'[e] = callers[e]
  BY <1>2, <1>3, CallerMoves DEF ServiceInv
<1>5. answered' \in Answer \cup {NoPrice}
  BY <1>1, <1>3, ReplyIsTyped DEF ServiceInv, ServiceTypeOK
<1>6. ServiceTypeOK'
  BY <1>1, <1>3, <1>4, <1>5 DEF ServiceInv, ServiceTypeOK
<1>7. AwaitedIsLoading'
  BY <1>2, <1>3, <1>4 DEF ServiceInv, AwaitedIsLoading, MinuteOf, DayOf
<1>8. CASE fresh
  <2>1. baselines' = baselines /\ loading' = loading
    BY <1>1, <1>3, <1>8 DEF ServiceInv, ServiceTypeOK
  <2>2. FoundIsKept'
    BY <2>1 DEF ServiceInv, FoundIsKept
  <2>3. AnswerIsKept'
    <3>1. CASE answered' = answered
      BY <1>3, <2>1, <3>1 DEF ServiceInv, AnswerIsKept
    <3>2. CASE AnswerReady(c, callers[c].newest, kept.value)
      <4>1. answered'.day = d /\ answered'.close = kept.value.close /\ kept.value.close # NoPrice
        BY <1>1, <1>3, <1>8, <3>2, ReplyIsTyped DEF ServiceInv
      <4>. QED
        BY <1>1, <1>8, <2>1, <4>1 DEF AnswerIsKept
    <3>. QED
      BY <1>1, <1>3, <1>8, <3>1, <3>2, ReplyIsTyped DEF ServiceInv
  <2>. QED
    BY <1>6, <1>7, <2>2, <2>3 DEF ServiceInv
<1>9. CASE ~fresh
  <2>1. kept # NoPrice /\ kept.value.close # NoPrice => serviceTime >= (d + 1) * DayLength
    <3>1. kept # NoPrice => kept.expires \in Int /\ ~(kept.expires > serviceTime)
      BY <1>1, <1>9 DEF FreshCandle, KeptCandle, fresh
    <3>2. kept # NoPrice /\ kept.value.close # NoPrice => kept.expires = (d + 1) * DayLength
      BY <1>1 DEF ServiceInv, FoundIsKept
    <3>. QED
      BY <1>1, <3>1, <3>2
  <2>2. FoundIsKept'
    BY <1>1, <1>3, <1>9 DEF ServiceInv, ServiceTypeOK, FoundIsKept
  <2>3. AnswerIsKept'
    <3>. SUFFICES ASSUME answered # NoPrice, serviceTime < (answered.day + 1) * DayLength
                  PROVE  /\ answered.day \in BaselineDays /\ baselines'[answered.day] # NoPrice
                         /\ baselines'[answered.day].value.close = answered.close
                         /\ answered.close # NoPrice
      BY <1>3, <1>9 DEF AnswerIsKept
    <3>1. /\ answered.day \in BaselineDays /\ baselines[answered.day] # NoPrice
          /\ baselines[answered.day].value.close = answered.close /\ answered.close # NoPrice
      BY DEF ServiceInv, AnswerIsKept
    <3>2. answered.day \in Nat
      BY DEF ServiceInv, ServiceTypeOK, Answer
    <3>3. answered.day # d
      BY <1>1, <2>1, <3>1, <3>2
    <3>. QED
      BY <1>1, <1>3, <3>1, <3>3 DEF ServiceInv, ServiceTypeOK
  <2>. QED
    BY <1>6, <1>7, <2>2, <2>3 DEF ServiceInv
<1>. QED
  BY <1>8, <1>9

LEMMA LatestLoadedKeeps ==
  ASSUME ServiceInv, NEW m \in LatestMinutes, LatestLoaded(m)
  PROVE  ServiceInv'
<1>1. PICK bucket \in {serviceTime - MinuteLength, serviceTime}, close \in {1, NoPrice} :
        /\ latest' = [latest EXCEPT ![m] = KeptUntil(CandleAt(bucket, close), (m + 1) * MinuteLength)]
        /\ callers' = [c \in Callers |->
             IF c \in AwaitLatest(m)
             THEN [callers[c] EXCEPT !.stage = "baseline", !.newest = CandleAt(bucket, close)]
             ELSE callers[c]]
  BY DEF LatestLoaded
<1>. DEFINE value == CandleAt(bucket, close)
<1>2. /\ loading' = loading \ {<<"latest", m>>} /\ UNCHANGED <<serviceTime, baselines, answered>>
  BY DEF LatestLoaded
<1>3. /\ serviceTime \in Int /\ MinuteLength \in Int /\ MissingTime \in Int /\ m \in Int
  BY ServiceAssumption DEF ServiceInv, ServiceTypeOK, LatestMinutes
<1>4. value \in Candle({1})
  BY <1>3 DEF CandleAt, Candle
<1>. HIDE DEF value
<1>5. KeptUntil(value, (m + 1) * MinuteLength) \in KeptCandle({1})
  <2>1. (m + 1) * MinuteLength \in Int /\ serviceTime + MissingTime \in Int
    BY <1>3
  <2>. QED
    BY <1>4, <2>1 DEF KeptUntil, KeptCandle
<1>6. \A c \in Callers : callers'[c] = IF c \in AwaitLatest(m)
             THEN [callers[c] EXCEPT !.stage = "baseline", !.newest = value] ELSE callers[c]
  BY <1>1 DEF value
<1>7. \A c \in Callers : [callers[c] EXCEPT !.stage = "baseline", !.newest = value] \in Caller
        /\ [callers[c] EXCEPT !.stage = "baseline", !.newest = value].at = callers[c].at
        /\ [callers[c] EXCEPT !.stage = "baseline", !.newest = value].stage = "baseline"
  BY <1>4 DEF ServiceInv, ServiceTypeOK, Caller
<1>8. ServiceTypeOK'
  <2>1. callers' \in [Callers -> Caller]
    BY <1>1, <1>6, <1>7 DEF ServiceInv, ServiceTypeOK
  <2>2. latest' \in [LatestMinutes -> KeptCandle({1}) \cup {NoPrice}]
    BY <1>1, <1>5 DEF ServiceInv, ServiceTypeOK, value
  <2>. QED
    BY <1>2, <2>1, <2>2 DEF ServiceInv, ServiceTypeOK
<1>9. FoundIsKept' /\ AnswerIsKept'
  BY <1>2 DEF ServiceInv, FoundIsKept, AnswerIsKept
<1>10. AwaitedIsLoading'
  BY <1>2, <1>6, <1>7 DEF ServiceInv, AwaitedIsLoading, MinuteOf, DayOf, AwaitLatest
<1>. QED
  BY <1>8, <1>9, <1>10 DEF ServiceInv

LEMMA BaselineLoadedKeeps ==
  ASSUME ServiceInv, NEW d \in BaselineDays, BaselineLoaded(d)
  PROVE  /\ ServiceInv'
         /\ answered' = answered \/ (answered'.day = d /\ answered'.at = serviceTime)
<1>1. PICK close \in BaselineCloses \cup {NoPrice} :
        LET value == CandleAt(d * DayLength - MinuteLength, close)
            ready == {c \in AwaitBaseline(d) : AnswerReady(c, callers[c].newest, value)}
        IN  /\ baselines' = [baselines EXCEPT ![d] = KeptUntil(value, (d + 1) * DayLength)]
            /\ answered' \in IF ready = {} THEN {answered}
                             ELSE {ReplyTo(c, callers[c].newest, value) : c \in ready}
  BY DEF BaselineLoaded
<1>. DEFINE value == CandleAt(d * DayLength - MinuteLength, close)
            kept == KeptUntil(value, (d + 1) * DayLength)
<1>2. /\ <<"baseline", d>> \in loading
      /\ loading' = loading \ {<<"baseline", d>>} /\ UNCHANGED <<serviceTime, latest>>
      /\ callers' = [c \in Callers |-> IF c \in AwaitBaseline(d) THEN Resting ELSE callers[c]]
  BY DEF BaselineLoaded
<1>3. /\ serviceTime \in Int /\ MinuteLength \in Int /\ DayLength \in Int /\ MissingTime \in Int
      /\ d \in Int /\ d * DayLength \in Int /\ (d + 1) * DayLength \in Int
  BY ServiceAssumption DEF ServiceInv, ServiceTypeOK, BaselineDays
<1>4. value \in Candle(BaselineCloses) /\ value.close = close
  BY <1>3 DEF CandleAt, Candle
<1>5. /\ baselines' = [baselines EXCEPT ![d] = kept]
      /\ answered' = answered \/
           \E c \in AwaitBaseline(d) : /\ AnswerReady(c, callers[c].newest, value)
                                       /\ answered' = ReplyTo(c, callers[c].newest, value)
  BY <1>1
<1>. HIDE DEF value
<1>6. /\ kept \in KeptCandle(BaselineCloses) /\ kept # NoPrice /\ kept.value = value
      /\ value.close # NoPrice => kept.expires = (d + 1) * DayLength
  <2>1. serviceTime + MissingTime \in Int
    BY <1>3
  <2>2. kept \in KeptCandle(BaselineCloses)
    BY <1>3, <1>4, <2>1 DEF KeptUntil, KeptCandle
  <2>. QED
    BY <2>2, NoPriceIsNothing DEF KeptUntil
<1>. HIDE DEF kept
<1>7. /\ baselines'[d] = kept /\ \A e \in BaselineDays \ {d} : baselines'[e] = baselines[e]
      /\ baselines' \in [BaselineDays -> KeptCandle(BaselineCloses) \cup {NoPrice}]
  BY <1>5, <1>6 DEF ServiceInv, ServiceTypeOK
<1>8. \/ answered' = answered
      \/ /\ answered' \in Answer /\ answered'.day = d /\ answered'.close = value.close
         /\ value.close # NoPrice /\ answered'.at = serviceTime
  <2>. SUFFICES ASSUME NEW c \in AwaitBaseline(d), AnswerReady(c, callers[c].newest, value),
                       answered' = ReplyTo(c, callers[c].newest, value)
                PROVE  /\ answered' \in Answer /\ answered'.day = d /\ answered'.close = value.close
                       /\ value.close # NoPrice /\ answered'.at = serviceTime
    BY <1>5
  <2>1. c \in Callers /\ DayOf(c) = d
    BY DEF AwaitBaseline
  <2>. QED
    BY <1>4, <2>1, ReplyIsTyped DEF ServiceInv
<1>9. ServiceTypeOK'
  <2>1. Resting \in Caller
    <3>1. 0 \in 0..LastTick
      BY ServiceAssumption
    <3>. QED
      BY <3>1 DEF Resting, Caller
  <2>. QED
    BY <1>2, <1>7, <1>8, <2>1 DEF ServiceInv, ServiceTypeOK
<1>10. FoundIsKept'
  BY <1>2, <1>6, <1>7 DEF ServiceInv, FoundIsKept
<1>11. AnswerIsKept'
  <2>1. CASE answered' = answered
    <3>1. answered # NoPrice /\ serviceTime < (answered.day + 1) * DayLength =>
            answered.day \in BaselineDays /\ answered.day # d
      BY <1>2 DEF ServiceInv, AnswerIsKept, FoundIsKept
    <3>. QED
      BY <1>2, <1>7, <2>1, <3>1 DEF ServiceInv, AnswerIsKept
  <2>2. CASE /\ answered' \in Answer /\ answered'.day = d /\ answered'.close = value.close
             /\ value.close # NoPrice
    BY <1>6, <1>7, <2>2 DEF AnswerIsKept
  <2>. QED
    BY <1>8, <2>1, <2>2
<1>12. AwaitedIsLoading'
  BY <1>2 DEF ServiceInv, AwaitedIsLoading, MinuteOf, DayOf, AwaitBaseline, Resting
<1>. QED
  BY <1>8, <1>9, <1>10, <1>11, <1>12 DEF ServiceInv

LEMMA LoadFailsKeeps ==
  ASSUME ServiceInv, LoadFails
  PROVE  ServiceInv'
<1>1. PICK load \in loading :
        /\ loading' = loading \ {load}
        /\ callers' = [c \in Callers |->
             IF c \in (IF load[1] = "latest" THEN AwaitLatest(load[2]) ELSE AwaitBaseline(load[2]))
             THEN Resting ELSE callers[c]]
  BY DEF LoadFails
<1>2. UNCHANGED <<serviceTime, latest, baselines, answered>>
  BY DEF LoadFails
<1>3. ServiceTypeOK'
  <2>1. Resting \in Caller
    <3>1. 0 \in 0..LastTick
      BY ServiceAssumption
    <3>. QED
      BY <3>1 DEF Resting, Caller
  <2>. QED
    BY <1>1, <1>2, <2>1 DEF ServiceInv, ServiceTypeOK
<1>4. FoundIsKept' /\ AnswerIsKept'
  BY <1>1, <1>2 DEF ServiceInv, FoundIsKept, AnswerIsKept
<1>5. AwaitedIsLoading'
  <2>. SUFFICES ASSUME NEW c \in Callers
                PROVE  /\ callers'[c].stage = "latest awaited" =>
                            <<"latest", callers'[c].at \div MinuteLength>> \in loading'
                       /\ callers'[c].stage = "baseline awaited" =>
                            <<"baseline", callers'[c].at \div DayLength>> \in loading'
    BY DEF AwaitedIsLoading, MinuteOf, DayOf
  <2>1. CASE callers'[c] = Resting
    BY <2>1 DEF Resting
  <2>2. CASE callers'[c] = callers[c] /\
             ~(c \in (IF load[1] = "latest" THEN AwaitLatest(load[2]) ELSE AwaitBaseline(load[2])))
    <3>1. /\ callers[c].stage = "latest awaited" => <<"latest", MinuteOf(c)>> \in loading
          /\ callers[c].stage = "baseline awaited" => <<"baseline", DayOf(c)>> \in loading
      BY DEF ServiceInv, AwaitedIsLoading
    <3>2. callers[c].stage = "latest awaited" => load # <<"latest", MinuteOf(c)>>
      <4>1. <<"latest", MinuteOf(c)>>[1] = "latest" /\ <<"latest", MinuteOf(c)>>[2] = MinuteOf(c)
        OBVIOUS
      <4>. QED
        BY <2>2, <4>1 DEF AwaitLatest
    <3>3. callers[c].stage = "baseline awaited" => load # <<"baseline", DayOf(c)>>
      <4>1. <<"baseline", DayOf(c)>>[1] # "latest" /\ <<"baseline", DayOf(c)>>[2] = DayOf(c)
        OBVIOUS
      <4>. QED
        BY <2>2, <4>1 DEF AwaitBaseline
    <3>. QED
      BY <1>1, <2>2, <3>1, <3>2, <3>3 DEF MinuteOf, DayOf
  <2>. QED
    BY <1>1, <2>1, <2>2
<1>. QED
  BY <1>3, <1>4, <1>5 DEF ServiceInv

LEMMA ServiceTickKeeps ==
  ASSUME ServiceInv, ServiceTick
  PROVE  ServiceInv'
<1>1. /\ serviceTime \in Nat /\ serviceTime' = serviceTime + 1 /\ serviceTime' \in 0..LastTick
      /\ UNCHANGED <<callers, latest, baselines, loading, answered>> /\ DayLength \in Nat
  BY ServiceAssumption DEF ServiceInv, ServiceTypeOK, ServiceTick
<1>2. ServiceTypeOK' /\ FoundIsKept' /\ AwaitedIsLoading'
  BY <1>1 DEF ServiceInv, ServiceTypeOK, FoundIsKept, AwaitedIsLoading, MinuteOf, DayOf
<1>3. AnswerIsKept'
  <2>1. answered # NoPrice => (answered.day + 1) * DayLength \in Int
    BY <1>1 DEF ServiceInv, ServiceTypeOK, Answer
  <2>. QED
    BY <1>1, <2>1 DEF ServiceInv, AnswerIsKept
<1>. QED
  BY <1>2, <1>3 DEF ServiceInv

LEMMA ServiceStepKeeps ==
  ASSUME ServiceInv, [ServiceNext]_serviceVars
  PROVE  ServiceInv'
<1>1. CASE UNCHANGED serviceVars
  BY <1>1 DEF serviceVars, ServiceInv, ServiceTypeOK, FoundIsKept, AnswerIsKept, AwaitedIsLoading,
              MinuteOf, DayOf
<1>. QED
  BY <1>1, BeginKeeps, SeekLatestKeeps, SeekBaselineKeeps, LatestLoadedKeeps, BaselineLoadedKeeps,
     LoadFailsKeeps, ServiceTickKeeps DEF ServiceNext

(* The step of the action property. *)
SteadyBaseline ==
  /\ answered # NoPrice /\ answered' # answered
  /\ answered'.day = answered.day
  /\ answered'.at < (answered.day + 1) * DayLength
  => answered'.close = answered.close

LEMMA BaselineSteps ==
  ASSUME ServiceInv, [ServiceNext]_serviceVars
  PROVE  SteadyBaseline
<1> SUFFICES ASSUME answered # NoPrice, answered' # answered, answered'.day = answered.day,
                    answered'.at < (answered.day + 1) * DayLength
             PROVE  answered'.close = answered.close
  BY DEF SteadyBaseline
<1>1. ASSUME NEW c \in Callers, SeekBaseline(c)
      PROVE  answered'.close = answered.close
  <2>. DEFINE d == DayOf(c)
  <2>1. FreshCandle(baselines[d]) /\ answered' = ReplyTo(c, callers[c].newest, baselines[d].value)
    BY <1>1 DEF SeekBaseline
  <2>2. baselines[d].value \in Candle(BaselineCloses)
    <3>1. d \in BaselineDays
      BY DaysAreKnown DEF ServiceInv
    <3>. QED
      BY <2>1, <3>1 DEF ServiceInv, ServiceTypeOK, FreshCandle, KeptCandle
  <2>3. /\ answered'.day = d /\ answered'.close = baselines[d].value.close
        /\ answered'.at = serviceTime
    BY <2>1, <2>2, ReplyIsTyped DEF ServiceInv
  <2>. QED
    BY <2>3 DEF ServiceInv, AnswerIsKept
<1>2. ASSUME NEW d \in BaselineDays, BaselineLoaded(d)
      PROVE  answered'.close = answered.close
  <2>1. answered'.day = d /\ answered'.at = serviceTime /\ <<"baseline", d>> \in loading
    BY <1>2, BaselineLoadedKeeps DEF BaselineLoaded
  <2>2. baselines[d] # NoPrice
    BY <2>1 DEF ServiceInv, AnswerIsKept
  <2>. QED
    BY <2>1, <2>2 DEF ServiceInv, FoundIsKept
<1>3. UNCHANGED answered \/ (\E c \in Callers : SeekBaseline(c))
        \/ \E d \in BaselineDays : BaselineLoaded(d)
  BY DEF ServiceNext, serviceVars, BeginChange, SeekLatest, LatestLoaded, LoadFails, ServiceTick
<1>. QED
  BY <1>1, <1>2, <1>3

-----------------------------------------------------------------------------
(***************************************************************************)
(* ChartHistory: the queue lists the loads that are to send a request, each*)
(* once (QueueHolds); a load is there for the readers that wait for it, and*)
(* they for it (ReadingHolds); the cache keeps one page of a key           *)
(* (CacheHolds).  Four lemmas say what the four ways of changing readers   *)
(* and loads keep, and each action is one of them.                         *)
(***************************************************************************)

(* Who waits, waits for a load in flight; which is waited for; and is counted. *)
ChartReader(r) ==
  LET asker == readers[r] IN
  /\ asker.stage = "resolving" => asker.key \in PageKeys
  /\ asker.stage = "waiting" => asker.key \in PageKeys \cup {r} /\ loads[asker.key] # NoLoad

ReadingHolds ==
  /\ readers \in [Readers -> [stage : {"free", "resolving", "waiting"},
                              key : LoadIds \cup {NoLoad}, asked : Nat]]
  /\ loads \in [LoadIds -> Load \cup {NoLoad}]
  /\ \A r \in Readers : ChartReader(r)
  /\ \A l \in Readers : loads[l] # NoLoad => loads[l].stage # "checking"
  /\ IsFiniteSet(Inflight) /\ Cardinality(Inflight) <= MaxInflight
  /\ \A l \in Inflight : WaitingFor(l) # {}

QueuedLoads == {l \in LoadIds : loads[l] # NoLoad /\ loads[l].stage = "queued"}

QueueHolds == queue \in Seq(LoadIds) /\ IsInjective(queue) /\ ToSet(queue) = QueuedLoads

(* Pages of distinct keys, at most as many as there may be. *)
CacheHolds(c, most) ==
  /\ c \in Seq(KeptPage) /\ Len(c) <= most
  /\ \A i, j \in DOMAIN c : c[i].key = c[j].key => i = j

ChartInv ==
  /\ tick \in Nat /\ nextStart \in Nat /\ listedVersion \in Nat
  /\ ReadingHolds /\ QueueHolds /\ CacheHolds(cache, CacheEntries)

LEMMA ChartInvSays == ChartInv => ChartHolds
<1> SUFFICES ASSUME ChartInv PROVE ChartHolds
  OBVIOUS
<1>1. QueuedLoads = {l \in Inflight : loads[l].stage = "queued"}
  BY DEF QueuedLoads, Inflight
<1>2. NobodyWaitsInVain
  BY <1>1 DEF ChartInv, ReadingHolds, QueueHolds, ChartReader, NobodyWaitsInVain
<1>3. LimitsHold
  BY DEF ChartInv, ReadingHolds, CacheHolds, LimitsHold
<1>. QED
  BY <1>2, <1>3 DEF ChartHolds

LEMMA ChartInitHolds == ChartInit => ChartInv
<1> SUFFICES ASSUME ChartInit PROVE ChartInv
  OBVIOUS
<1>2. Inflight = {} /\ QueuedLoads = {}
  BY DEF ChartInit, Inflight, QueuedLoads
<1>3. IsFiniteSet(Inflight) /\ Cardinality(Inflight) = 0
  BY <1>2, FS_EmptySet
<1>4. ReadingHolds
  BY <1>2, <1>3, ChartAssumption DEF ChartInit, ReadingHolds, ChartReader, FreeReader, LoadIds
<1>5. QueueHolds
  BY <1>2 DEF ChartInit, QueueHolds, IsInjective, ToSet
<1>6. CacheHolds(cache, CacheEntries)
  BY ChartAssumption DEF ChartInit, CacheHolds
<1>. QED
  BY <1>4, <1>5, <1>6 DEF ChartInit, ChartInv

LEMMA Removed ==
  ASSUME NEW S, NEW s \in Seq(S), NEW k \in 1..Len(s)
  PROVE  /\ RemoveAt(s, k) \in Seq(S) /\ Len(RemoveAt(s, k)) = Len(s) - 1
         /\ \A i \in 1..(Len(s) - 1) : RemoveAt(s, k)[i] = IF i < k THEN s[i] ELSE s[i + 1]
<1>. DEFINE n == Len(s)
            a == SubSeq(s, 1, k - 1)
            b == SubSeq(s, k + 1, n)
<1>1. n \in Nat /\ k \in 1..n /\ \A i \in 1..n : s[i] \in S
  OBVIOUS
<1>2. RemoveAt(s, k) = a \o b
  BY DEF RemoveAt
<1>3. a \in Seq(S) /\ Len(a) = k - 1 /\ \A i \in 1..(k - 1) : a[i] = s[i]
  <2>1. 1 \in Int /\ k - 1 \in Int /\ \A i \in 1..(k - 1) : s[i] \in S
    BY <1>1
  <2>2. /\ a \in Seq(S) /\ Len(a) = IF 1 <= k - 1 THEN k - 1 - 1 + 1 ELSE 0
        /\ \A i \in 1..(k - 1 - 1 + 1) : a[i] = s[1 + i - 1]
    BY <2>1, SubSeqProperties
  <2>. HIDE DEF a
  <2>3. \A i \in 1..(k - 1) : i \in 1..(k - 1 - 1 + 1) /\ 1 + i - 1 = i
    BY <1>1
  <2>4. \A i \in 1..(k - 1) : a[i] = s[i]
    BY <2>2, <2>3
  <2>. QED
    BY <1>1, <2>2, <2>4
<1>4. b \in Seq(S) /\ Len(b) = n - k /\ \A i \in 1..(n - k) : b[i] = s[i + k]
  <2>1. k + 1 \in Int /\ n \in Int /\ \A i \in (k + 1)..n : s[i] \in S
    BY <1>1
  <2>2. /\ b \in Seq(S) /\ Len(b) = IF k + 1 <= n THEN n - (k + 1) + 1 ELSE 0
        /\ \A i \in 1..(n - (k + 1) + 1) : b[i] = s[k + 1 + i - 1]
    BY <2>1, SubSeqProperties
  <2>. HIDE DEF b, n
  <2>3. \A i \in 1..(n - k) : i \in 1..(n - (k + 1) + 1) /\ k + 1 + i - 1 = i + k
    BY <1>1
  <2>4. \A i \in 1..(n - k) : b[i] = s[i + k]
    BY <2>2, <2>3
  <2>. QED
    BY <1>1, <2>2, <2>4
<1>. HIDE DEF a, b, n
<1>5. /\ a \o b \in Seq(S) /\ Len(a \o b) = Len(a) + Len(b)
      /\ \A i \in 1..(Len(a) + Len(b)) : (a \o b)[i] = IF i <= Len(a) THEN a[i] ELSE b[i - Len(a)]
  BY <1>3, <1>4, ConcatProperties
<1>6. ASSUME NEW i \in 1..(n - 1)
      PROVE  (a \o b)[i] = IF i < k THEN s[i] ELSE s[i + 1]
  <2>1. i \in 1..(Len(a) + Len(b)) /\ (i <= Len(a) <=> i < k) /\ i \in Nat
    BY <1>1, <1>3, <1>4
  <2>2. CASE i < k
    <3>1. (a \o b)[i] = a[i]
      BY <1>5, <2>1, <2>2
    <3>2. a[i] = s[i]
      BY <1>1, <1>3, <2>1, <2>2
    <3>. QED
      BY <2>2, <3>1, <3>2
  <2>3. CASE ~(i < k)
    <3>1. (a \o b)[i] = b[i - Len(a)]
      BY <1>5, <2>1, <2>3
    <3>2. i - (k - 1) \in 1..(n - k) /\ i - (k - 1) + k = i + 1
      BY <1>1, <2>3
    <3>3. b[i - (k - 1)] = s[i + 1]
      BY <1>4, <3>2
    <3>. QED
      BY <1>3, <2>3, <3>1, <3>3
  <2>. QED
    BY <2>2, <2>3
<1>7. Len(a) + Len(b) = n - 1
  BY <1>1, <1>3, <1>4
<1>. QED
  BY <1>2, <1>5, <1>6, <1>7 DEF n

LEMMA CacheForgets ==
  ASSUME CacheHolds(cache, CacheEntries), NEW key
  PROVE  /\ CacheHolds(CacheWithout(key), CacheEntries)
         /\ Len(CacheWithout(key)) <= Len(cache)
         /\ KeptAt(key) # {} => Len(CacheWithout(key)) = Len(cache) - 1
         /\ \A i \in DOMAIN CacheWithout(key) :
              CacheWithout(key)[i].key # key
              /\ \E j \in DOMAIN cache : CacheWithout(key)[i] = cache[j]
<1>. DEFINE n == Len(cache)
<1>1. /\ cache \in Seq(KeptPage) /\ n \in Nat /\ n <= CacheEntries
      /\ CacheEntries \in Nat /\ DOMAIN cache = 1..n
      /\ \A i, j \in 1..n : cache[i].key = cache[j].key => i = j
  BY ChartAssumption DEF CacheHolds
<1>2. CASE KeptAt(key) = {}
  <2>1. CacheWithout(key) = cache
    BY <1>2 DEF CacheWithout
  <2>2. \A i \in DOMAIN cache : cache[i].key # key
    BY <1>2 DEF KeptAt
  <2>. QED
    BY <1>1, <1>2, <2>1, <2>2
<1>3. CASE KeptAt(key) # {}
  <2>. DEFINE k == CHOOSE i \in KeptAt(key) : TRUE
              s == CacheWithout(key)
  <2>1. k \in 1..n /\ cache[k].key = key
    BY <1>1, <1>3 DEF KeptAt
  <2>2. s = RemoveAt(cache, k)
    BY <1>3 DEF CacheWithout
  <2>. HIDE DEF k, s
  <2>5. /\ s \in Seq(KeptPage) /\ Len(s) = n - 1
        /\ \A i \in 1..(n - 1) : s[i] = IF i < k THEN cache[i] ELSE cache[i + 1]
    BY <1>1, <2>1, <2>2, Removed
  <2>. HIDE DEF n
  <2>6. ASSUME NEW i \in 1..(n - 1)
        PROVE  s[i].key # key /\ \E j \in 1..n : j # k /\ s[i] = cache[j]
    <3>1. CASE i < k
      BY <1>1, <2>1, <2>5, <3>1
    <3>2. CASE ~(i < k)
      <4>1. i + 1 \in 1..n /\ i + 1 # k
        BY <1>1, <2>1, <3>2
      <4>. QED
        BY <1>1, <2>1, <2>5, <3>2, <4>1
    <3>. QED
      BY <3>1, <3>2
  <2>7. ASSUME NEW i \in 1..(n - 1), NEW j \in 1..(n - 1), s[i].key = s[j].key PROVE i = j
    <3>1. i \in 1..n /\ j \in 1..n /\ i + 1 \in 1..n /\ j + 1 \in 1..n
      BY <1>1
    <3>. QED
      BY <1>1, <2>1, <2>5, <2>7, <3>1
  <2>8. DOMAIN s = 1..(n - 1)
    BY <2>5
  <2>9. CacheHolds(s, CacheEntries)
    BY <1>1, <2>5, <2>7, <2>8 DEF CacheHolds
  <2>. QED
    BY <1>1, <2>5, <2>6, <2>8, <2>9, SMTT(30) DEF s, n
<1>. QED
  BY <1>2, <1>3

LEMMA CacheAppends ==
  ASSUME NEW c, NEW most \in Nat, CacheHolds(c, most), NEW page \in KeptPage,
         \A i \in DOMAIN c : c[i].key # page.key
  PROVE  /\ CacheHolds(Append(c, page), most + 1)
         /\ Len(Append(c, page)) = Len(c) + 1
         /\ ToSet(Append(c, page)) = ToSet(c) \cup {page}
<1>1. /\ c \in Seq(KeptPage) /\ Len(c) \in Nat /\ Len(c) <= most /\ DOMAIN c = 1..Len(c)
  BY DEF CacheHolds
<1>2. /\ Append(c, page) \in Seq(KeptPage) /\ Len(Append(c, page)) = Len(c) + 1
      /\ DOMAIN Append(c, page) = 1..(Len(c) + 1)
      /\ \A i \in 1..(Len(c) + 1) : Append(c, page)[i] = IF i <= Len(c) THEN c[i] ELSE page
  BY <1>1, AppendProperties
<1>3. \A i, j \in 1..(Len(c) + 1) : Append(c, page)[i].key = Append(c, page)[j].key => i = j
  BY <1>1, <1>2 DEF CacheHolds
<1>4. ToSet(Append(c, page)) = ToSet(c) \cup {page}
  <2>1. ASSUME NEW x \in ToSet(c) PROVE x \in ToSet(Append(c, page))
    <3>1. PICK i \in 1..Len(c) : c[i] = x
      BY <1>1 DEF ToSet
    <3>. QED
      BY <1>1, <1>2, <3>1 DEF ToSet
  <2>2. page \in ToSet(Append(c, page))
    <3>1. Len(c) + 1 \in 1..(Len(c) + 1) /\ Append(c, page)[Len(c) + 1] = page
      BY <1>1, <1>2
    <3>. QED
      BY <1>2, <3>1 DEF ToSet
  <2>3. ASSUME NEW x \in ToSet(Append(c, page)) PROVE x \in ToSet(c) \cup {page}
    <3>1. PICK i \in 1..(Len(c) + 1) : Append(c, page)[i] = x
      BY <1>2 DEF ToSet
    <3>. QED
      BY <1>1, <1>2, <3>1 DEF ToSet
  <2>. QED
    BY <2>1, <2>2, <2>3
<1>. QED
  BY <1>1, <1>2, <1>3, <1>4 DEF CacheHolds

LEMMA CacheDropsOldest ==
  ASSUME NEW c, NEW most \in Nat, CacheHolds(c, most + 1), Len(c) > most
  PROVE  CacheHolds(Tail(c), most) /\ ToSet(Tail(c)) \subseteq ToSet(c)
<1>1. c \in Seq(KeptPage) /\ Len(c) \in Nat /\ Len(c) = most + 1 /\ c # <<>> /\ DOMAIN c = 1..Len(c)
  BY DEF CacheHolds
<1>2. /\ Tail(c) \in Seq(KeptPage) /\ Len(Tail(c)) = most /\ DOMAIN Tail(c) = 1..most
      /\ \A i \in 1..most : Tail(c)[i] = c[i + 1]
  BY <1>1, HeadTailProperties
<1>3. \A i \in 1..most : i + 1 \in 1..Len(c)
  BY <1>1
<1>. QED
  BY <1>1, <1>2, <1>3 DEF CacheHolds, ToSet

(* A queue without repetitions: what is appended, what is taken from its head. *)
LEMMA QueueAppends ==
  ASSUME queue \in Seq(LoadIds), IsInjective(queue), NEW l \in LoadIds, l \notin ToSet(queue)
  PROVE  /\ Append(queue, l) \in Seq(LoadIds) /\ IsInjective(Append(queue, l))
         /\ ToSet(Append(queue, l)) = ToSet(queue) \cup {l}
<1>. DEFINE n == Len(queue)
            q == Append(queue, l)
<1>1. n \in Nat /\ DOMAIN queue = 1..n
  OBVIOUS
<1>2. /\ q \in Seq(LoadIds) /\ DOMAIN q = 1..(n + 1)
      /\ \A i \in 1..(n + 1) : q[i] = IF i <= n THEN queue[i] ELSE l
  BY <1>1, AppendProperties
<1>. HIDE DEF q, n
<1>3. \A i \in 1..n : queue[i] # l
  BY <1>1 DEF ToSet
<1>4. IsInjective(q)
  <2>1. \A i, j \in 1..n : queue[i] = queue[j] => i = j
    BY <1>1 DEF IsInjective
  <2>2. ASSUME NEW i \in 1..(n + 1), NEW j \in 1..(n + 1), q[i] = q[j] PROVE i = j
    BY <1>1, <1>2, <1>3, <2>1, <2>2
  <2>. QED
    BY <1>2, <2>2 DEF IsInjective
<1>5. ToSet(q) = ToSet(queue) \cup {l}
  <2>1. ASSUME NEW x \in ToSet(queue) PROVE x \in ToSet(q)
    <3>1. PICK i \in 1..n : queue[i] = x
      BY <1>1 DEF ToSet
    <3>. QED
      BY <1>1, <1>2, <3>1 DEF ToSet
  <2>2. l \in ToSet(q)
    BY <1>1, <1>2 DEF ToSet
  <2>3. ASSUME NEW x \in ToSet(q) PROVE x \in ToSet(queue) \cup {l}
    <3>1. PICK i \in 1..(n + 1) : q[i] = x
      BY <1>2 DEF ToSet
    <3>. QED
      BY <1>1, <1>2, <3>1 DEF ToSet
  <2>. QED
    BY <2>1, <2>2, <2>3
<1>. QED
  BY <1>2, <1>4, <1>5 DEF q

LEMMA QueueServes ==
  ASSUME queue \in Seq(LoadIds), IsInjective(queue), queue # <<>>
  PROVE  /\ Tail(queue) \in Seq(LoadIds) /\ IsInjective(Tail(queue))
         /\ Head(queue) \in ToSet(queue) /\ Head(queue) \in LoadIds
         /\ ToSet(Tail(queue)) = ToSet(queue) \ {Head(queue)}
<1>. DEFINE n == Len(queue)
            t == Tail(queue)
<1>1. n \in Nat /\ DOMAIN queue = 1..n /\ n > 0
  BY EmptySeq
<1>2. /\ t \in Seq(LoadIds) /\ Len(t) = n - 1 /\ DOMAIN t = 1..(n - 1)
      /\ \A i \in 1..(n - 1) : t[i] = queue[i + 1]
      /\ Head(queue) = queue[1]
  BY <1>1, HeadTailProperties
<1>. HIDE DEF t, n
<1>3. \A i, j \in 1..n : queue[i] = queue[j] => i = j
  BY <1>1 DEF IsInjective
<1>4. \A i \in 1..(n - 1) : i + 1 \in 1..n /\ i + 1 # 1
  BY <1>1
<1>5. IsInjective(t)
  <2>1. ASSUME NEW i \in 1..(n - 1), NEW j \in 1..(n - 1), t[i] = t[j] PROVE i = j
    <3>1. i + 1 = j + 1
      BY <1>2, <1>3, <1>4, <2>1
    <3>. QED
      BY <1>1, <3>1
  <2>. QED
    BY <1>2, <2>1 DEF IsInjective
<1>6. Head(queue) \in ToSet(queue) /\ Head(queue) \in LoadIds
  BY <1>1, <1>2 DEF ToSet
<1>7. ToSet(t) = ToSet(queue) \ {Head(queue)}
  <2>1. ASSUME NEW x \in ToSet(t) PROVE x \in ToSet(queue) \ {Head(queue)}
    <3>1. PICK i \in 1..(n - 1) : t[i] = x
      BY <1>2 DEF ToSet
    <3>2. queue[i + 1] = x /\ i + 1 \in 1..n /\ i + 1 # 1
      BY <1>2, <1>4, <3>1
    <3>3. x # queue[1]
      BY <1>1, <1>3, <3>2
    <3>. QED
      BY <1>1, <1>2, <3>2, <3>3 DEF ToSet
  <2>2. ASSUME NEW x \in ToSet(queue) \ {Head(queue)} PROVE x \in ToSet(t)
    <3>1. PICK i \in 1..n : queue[i] = x
      BY <1>1 DEF ToSet
    <3>2. i # 1
      BY <1>2, <2>2, <3>1
    <3>3. i - 1 \in 1..(n - 1) /\ i - 1 + 1 = i
      BY <1>1, <3>2
    <3>4. t[i - 1] = queue[i - 1 + 1]
      BY <1>2, <3>3
    <3>. QED
      BY <1>2, <3>1, <3>3, <3>4 DEF ToSet
  <2>. QED
    BY <2>1, <2>2
<1>. QED
  BY <1>2, <1>5, <1>6, <1>7 DEF t

(* The ways in which readers and loads change: a asker alone, a load's start, a   *)
(* load's stage, and its end.                                                      *)
LEMMA ReaderChanges ==
  ASSUME ReadingHolds, NEW r \in Readers, readers[r].stage # "waiting", loads' = loads,
         readers' \in [Readers -> [stage : {"free", "resolving", "waiting"},
                                  key : LoadIds \cup {NoLoad}, asked : Nat]],
         \A q \in Readers : q # r => readers'[q] = readers[q],
         ChartReader(r)'
  PROVE  ReadingHolds' /\ QueuedLoads' = QueuedLoads
<1>1. Inflight' = Inflight /\ QueuedLoads' = QueuedLoads
  BY DEF Inflight, QueuedLoads
<1>2. ASSUME NEW q \in Readers PROVE ChartReader(q)'
  BY DEF ReadingHolds, ChartReader
<1>3. ASSUME NEW l \in Inflight PROVE WaitingFor(l)' # {}
  BY DEF ReadingHolds, WaitingFor
<1>. QED
  BY <1>1, <1>2, <1>3 DEF ReadingHolds

LEMMA LoadStarts ==
  ASSUME ReadingHolds, NEW r \in Readers, readers[r].stage # "waiting",
         NEW l \in LoadIds, loads[l] = NoLoad, l \in PageKeys \cup {r},
         Cardinality(Inflight) < MaxInflight, NEW limit \in Int, StartLoad(l, limit),
         readers' \in [Readers -> [stage : {"free", "resolving", "waiting"},
                                  key : LoadIds \cup {NoLoad}, asked : Nat]],
         \A q \in Readers : q # r => readers'[q] = readers[q],
         readers'[r].stage = "waiting", readers'[r].key = l
  PROVE  ReadingHolds' /\ QueuedLoads' = QueuedLoads \cup {l} /\ l \notin QueuedLoads
<1>. DEFINE v == [stage |-> "queued", left |-> limit, aborted |-> FALSE]
<1>0. v \in Load /\ v.stage = "queued"
  BY DEF Load
<1>1. v \in Load /\ v.stage = "queued" /\ v # NoLoad
  BY <1>0, NoLoadIsNone
<1>2. loads' = [loads EXCEPT ![l] = v]
  BY DEF StartLoad
<1>. HIDE DEF v
<1>3. loads' \in [LoadIds -> Load \cup {NoLoad}]
  BY <1>1, <1>2 DEF ReadingHolds
<1>4. \A k \in LoadIds : loads'[k] = IF k = l THEN v ELSE loads[k]
  BY <1>2 DEF ReadingHolds
<1>5. Inflight' = Inflight \cup {l} /\ l \notin Inflight
  BY <1>1, <1>4 DEF Inflight
<1>6. QueuedLoads' = QueuedLoads \cup {l} /\ l \notin QueuedLoads
  BY <1>1, <1>4 DEF QueuedLoads
<1>7. IsFiniteSet(Inflight') /\ Cardinality(Inflight') = Cardinality(Inflight) + 1
  BY <1>5, FS_AddElement DEF ReadingHolds
<1>8. Cardinality(Inflight) \in Nat /\ MaxInflight \in Nat
  BY FS_CardinalityType, ChartAssumption DEF ReadingHolds
<1>9. ASSUME NEW q \in Readers PROVE ChartReader(q)'
  <2>1. CASE q = r
    BY <1>1, <1>4, <2>1 DEF ChartReader
  <2>2. CASE q # r
    <3>1. readers'[q] = readers[q] /\ ChartReader(q)
      BY <2>2 DEF ReadingHolds
    <3>2. q \in LoadIds /\ PageKeys \subseteq LoadIds
      BY DEF LoadIds
    <3>3. ASSUME readers[q].stage = "waiting" PROVE loads'[readers[q].key] # NoLoad
      BY <1>1, <1>4, <3>1, <3>2, <3>3 DEF ChartReader
    <3>. QED
      BY <3>1, <3>3 DEF ChartReader
  <2>. QED
    BY <2>1, <2>2
<1>10. ASSUME NEW k \in Inflight' PROVE WaitingFor(k)' # {}
  <2>1. CASE k = l
    BY <2>1 DEF WaitingFor
  <2>2. CASE k # l
    BY <1>5, <2>2 DEF ReadingHolds, WaitingFor
  <2>. QED
    BY <2>1, <2>2
<1>11. \A k \in Readers : loads'[k] # NoLoad => loads'[k].stage # "checking"
  BY <1>1, <1>4 DEF ReadingHolds, LoadIds
<1>. QED
  BY <1>3, <1>6, <1>7, <1>8, <1>9, <1>10, <1>11 DEF ReadingHolds

LEMMA LoadChanges ==
  ASSUME ReadingHolds, readers' = readers, NEW l \in LoadIds, loads[l] # NoLoad,
         NEW v \in Load, loads' = [loads EXCEPT ![l] = v], l \in Readers => v.stage # "checking"
  PROVE  /\ ReadingHolds'
         /\ QueuedLoads' = IF v.stage = "queued" THEN QueuedLoads \cup {l}
                                                ELSE QueuedLoads \ {l}
<1>1. v # NoLoad
  BY NoLoadIsNone
<1>3. loads' \in [LoadIds -> Load \cup {NoLoad}]
  BY DEF ReadingHolds
<1>4. \A k \in LoadIds : loads'[k] = IF k = l THEN v ELSE loads[k]
  BY DEF ReadingHolds
<1>5. Inflight' = Inflight
  BY <1>1, <1>4 DEF Inflight
<1>6. QueuedLoads' = IF v.stage = "queued" THEN QueuedLoads \cup {l} ELSE QueuedLoads \ {l}
  BY <1>1, <1>4 DEF QueuedLoads
<1>9. ASSUME NEW q \in Readers PROVE ChartReader(q)'
  <2>1. ChartReader(q) /\ q \in LoadIds /\ PageKeys \subseteq LoadIds
    BY DEF ReadingHolds, LoadIds
  <2>. QED
    BY <1>1, <1>4, <2>1 DEF ChartReader
<1>10. ASSUME NEW k \in Inflight PROVE WaitingFor(k)' # {}
  BY DEF ReadingHolds, WaitingFor
<1>11. \A k \in Readers : loads'[k] # NoLoad => loads'[k].stage # "checking"
  BY <1>4 DEF ReadingHolds, LoadIds
<1>. QED
  BY <1>3, <1>5, <1>6, <1>9, <1>10, <1>11 DEF ReadingHolds

LEMMA LoadSettles ==
  ASSUME ReadingHolds, NEW l \in LoadIds, loads[l] # NoLoad, SettleLoad(l)
  PROVE  ReadingHolds' /\ QueuedLoads' = QueuedLoads \ {l}
<1>1. FreeReader \in [stage : {"free", "resolving", "waiting"},
                     key : LoadIds \cup {NoLoad}, asked : Nat] /\ FreeReader.stage = "free"
  BY DEF FreeReader
<1>2. \A q \in Readers : readers'[q] = IF q \in WaitingFor(l) THEN FreeReader ELSE readers[q]
  BY DEF SettleLoad
<1>3. readers' \in [Readers -> [stage : {"free", "resolving", "waiting"},
                               key : LoadIds \cup {NoLoad}, asked : Nat]]
  BY <1>1 DEF SettleLoad, ReadingHolds
<1>4. /\ loads' \in [LoadIds -> Load \cup {NoLoad}]
      /\ \A k \in LoadIds : loads'[k] = IF k = l THEN NoLoad ELSE loads[k]
  BY DEF SettleLoad, ReadingHolds
<1>5. Inflight' = Inflight \ {l} /\ l \in Inflight
  BY <1>4 DEF Inflight
<1>6. QueuedLoads' = QueuedLoads \ {l}
  BY <1>4 DEF QueuedLoads
<1>7. IsFiniteSet(Inflight') /\ Cardinality(Inflight') = Cardinality(Inflight) - 1
  BY <1>5, FS_RemoveElement DEF ReadingHolds
<1>8. Cardinality(Inflight) \in Nat /\ MaxInflight \in Nat
  BY FS_CardinalityType, ChartAssumption DEF ReadingHolds
<1>9. ASSUME NEW q \in Readers PROVE ChartReader(q)'
  <2>1. ChartReader(q) /\ q \in LoadIds /\ PageKeys \subseteq LoadIds
    BY DEF ReadingHolds, LoadIds
  <2>2. CASE q \in WaitingFor(l)
    BY <1>1, <1>2, <2>2 DEF ChartReader
  <2>3. CASE q \notin WaitingFor(l)
    <3>1. readers'[q] = readers[q] /\ (readers[q].stage = "waiting" => readers[q].key # l)
      BY <1>2, <2>3 DEF WaitingFor
    <3>2. ASSUME readers[q].stage = "waiting" PROVE loads'[readers[q].key] # NoLoad
      BY <1>4, <2>1, <3>1, <3>2 DEF ChartReader
    <3>. QED
      BY <2>1, <3>1, <3>2 DEF ChartReader
  <2>. QED
    BY <2>2, <2>3
<1>10. ASSUME NEW k \in Inflight' PROVE WaitingFor(k)' # {}
  <2>1. k \in Inflight /\ k # l
    BY <1>5
  <2>2. PICK q \in Readers : readers[q].stage = "waiting" /\ readers[q].key = k
    BY <2>1 DEF ReadingHolds, WaitingFor
  <2>3. readers'[q] = readers[q]
    BY <1>2, <2>1, <2>2 DEF WaitingFor
  <2>. QED
    BY <2>2, <2>3 DEF WaitingFor
<1>11. \A k \in Readers : loads'[k] # NoLoad => loads'[k].stage # "checking"
  BY <1>4 DEF ReadingHolds, LoadIds
<1>. QED
  BY <1>3, <1>4, <1>6, <1>7, <1>8, <1>9, <1>10, <1>11 DEF ReadingHolds

LEMMA AskPageKeeps ==
  ASSUME ChartInv, NEW r \in Readers, AskPage(r) PROVE ChartInv'
<1>1. PICK key \in PageKeys :
        readers' = [readers EXCEPT ![r] = [stage |-> "resolving", key |-> key, asked |-> tick]]
  BY DEF AskPage
<1>. DEFINE w == [stage |-> "resolving", key |-> key, asked |-> tick]
<1>2. w \in [stage : {"free", "resolving", "waiting"}, key : LoadIds \cup {NoLoad}, asked : Nat]
      /\ w.stage = "resolving" /\ w.key \in PageKeys
  BY DEF ChartInv, LoadIds
<1>. HIDE DEF w
<1>3. /\ readers' \in [Readers -> [stage : {"free", "resolving", "waiting"},
                                  key : LoadIds \cup {NoLoad}, asked : Nat]]
      /\ readers'[r] = w /\ \A q \in Readers : q # r => readers'[q] = readers[q]
  BY <1>1, <1>2 DEF w, ChartInv, ReadingHolds
<1>4. ChartReader(r)'
  BY <1>2, <1>3 DEF ChartReader
<1>5. ReadingHolds' /\ QueuedLoads' = QueuedLoads
  BY <1>3, <1>4, ReaderChanges DEF AskPage, ChartInv
<1>. QED
  BY <1>5 DEF AskPage, ChartInv, QueueHolds, CacheHolds

LEMMA ResolvePageKeeps ==
  ASSUME ChartInv, NEW r \in Readers, ResolvePage(r) PROVE ChartInv'
<1>. DEFINE key == readers[r].key
            page == cache[CHOOSE i \in KeptAt(key) : TRUE]
            w == [readers[r] EXCEPT !.stage = "waiting"]
<1>1. /\ readers[r].stage = "resolving" /\ key \in PageKeys /\ key \in LoadIds
      /\ readers[r] \in [stage : {"free", "resolving", "waiting"},
                         key : LoadIds \cup {NoLoad}, asked : Nat]
  BY DEF ResolvePage, ChartInv, ReadingHolds, ChartReader, LoadIds
<1>2. /\ FreeReader \in [stage : {"free", "resolving", "waiting"},
                         key : LoadIds \cup {NoLoad}, asked : Nat]
      /\ FreeReader.stage = "free"
  BY DEF FreeReader
<1>3. /\ w \in [stage : {"free", "resolving", "waiting"}, key : LoadIds \cup {NoLoad}, asked : Nat]
      /\ w.stage = "waiting" /\ w.key = key
  BY <1>1
<1>4. CacheHolds(CacheWithout(key), CacheEntries) /\ CacheHolds(cache, CacheEntries)
  BY CacheForgets DEF ChartInv
<1>5. UNCHANGED <<tick, listedVersion, nextStart>>
  BY DEF ResolvePage
<1>6. CASE readers' = [readers EXCEPT ![r] = FreeReader] /\ UNCHANGED <<loads, queue>>
           /\ CacheHolds(cache', CacheEntries)
  <2>1. /\ readers' \in [Readers -> [stage : {"free", "resolving", "waiting"},
                                    key : LoadIds \cup {NoLoad}, asked : Nat]]
        /\ readers'[r] = FreeReader /\ \A q \in Readers : q # r => readers'[q] = readers[q]
    BY <1>2, <1>6 DEF ChartInv, ReadingHolds
  <2>2. ChartReader(r)'
    BY <1>2, <2>1 DEF ChartReader
  <2>3. ReadingHolds' /\ QueuedLoads' = QueuedLoads
    BY <1>1, <1>6, <2>1, <2>2, ReaderChanges DEF ChartInv
  <2>. QED
    BY <1>5, <1>6, <2>3 DEF ChartInv, QueueHolds, CacheHolds
<1>7. ASSUME KeptAt(key) # {}, cache' = Append(CacheWithout(key), page)
      PROVE  CacheHolds(cache', CacheEntries)
  <2>1. PICK i \in DOMAIN cache : page = cache[i] /\ cache[i].key = key
    BY <1>7 DEF KeptAt
  <2>2. page \in KeptPage /\ page.key = key
    BY <1>4, <2>1 DEF CacheHolds
  <2>3. cache \in Seq(KeptPage) /\ Len(cache) \in Nat /\ Len(cache) <= CacheEntries
        /\ CacheEntries \in Nat /\ Len(CacheWithout(key)) = Len(cache) - 1 /\ Len(cache) > 0
    BY <1>4, <1>7, <2>1, CacheForgets, ChartAssumption DEF CacheHolds
  <2>4. CacheHolds(CacheWithout(key), CacheEntries - 1) /\ CacheEntries - 1 \in Nat
    BY <1>4, <2>3 DEF CacheHolds
  <2>5. \A j \in DOMAIN CacheWithout(key) : CacheWithout(key)[j].key # page.key
    BY <1>4, <2>2, CacheForgets
  <2>. HIDE DEF page, key
  <2>6. CacheHolds(Append(CacheWithout(key), page), CacheEntries - 1 + 1)
    BY <2>2, <2>4, <2>5, CacheAppends
  <2>. QED
    BY <1>7, <2>3, <2>6
<1>8. CASE /\ loads[key] # NoLoad /\ readers' = [readers EXCEPT ![r].stage = "waiting"]
           /\ UNCHANGED <<loads, queue>> /\ cache' = CacheWithout(key)
  <2>1. /\ readers' \in [Readers -> [stage : {"free", "resolving", "waiting"},
                                    key : LoadIds \cup {NoLoad}, asked : Nat]]
        /\ readers'[r] = w /\ \A q \in Readers : q # r => readers'[q] = readers[q]
    BY <1>3, <1>8 DEF ChartInv, ReadingHolds
  <2>2. ChartReader(r)'
    BY <1>1, <1>3, <1>8, <2>1 DEF ChartReader
  <2>3. ReadingHolds' /\ QueuedLoads' = QueuedLoads
    BY <1>1, <1>8, <2>1, <2>2, ReaderChanges DEF ChartInv
  <2>. QED
    BY <1>4, <1>5, <1>8, <2>3 DEF ChartInv, QueueHolds, CacheHolds
<1>9. CASE /\ loads[key] = NoLoad /\ Cardinality(Inflight) < MaxInflight
           /\ StartLoad(key, RequestLimit(key))
           /\ readers' = [readers EXCEPT ![r].stage = "waiting"] /\ cache' = CacheWithout(key)
  <2>1. /\ readers' \in [Readers -> [stage : {"free", "resolving", "waiting"},
                                    key : LoadIds \cup {NoLoad}, asked : Nat]]
        /\ readers'[r] = w /\ \A q \in Readers : q # r => readers'[q] = readers[q]
    BY <1>3, <1>9 DEF ChartInv, ReadingHolds
  <2>2. RequestLimit(key) \in Int
    BY ChartAssumption DEF RequestLimit
  <2>. HIDE DEF key, w
  <2>3. ReadingHolds' /\ QueuedLoads' = QueuedLoads \cup {key} /\ key \notin QueuedLoads
    BY <1>1, <1>3, <1>9, <2>1, <2>2, LoadStarts DEF ChartInv
  <2>4. QueueHolds'
    BY <1>1, <1>9, <2>3, QueueAppends DEF StartLoad, ChartInv, QueueHolds
  <2>. QED
    BY <1>4, <1>5, <1>9, <2>3, <2>4 DEF ChartInv, CacheHolds
<1>10. UNCHANGED cache \/ cache' = CacheWithout(key)
       \/ (KeptAt(key) # {} /\ cache' = Append(CacheWithout(key), page))
  BY DEF ResolvePage
<1>11. CacheHolds(cache', CacheEntries)
  BY <1>4, <1>7, <1>10
<1>. QED
  BY <1>6, <1>8, <1>9, <1>11 DEF ResolvePage

LEMMA AskMinuteKeeps ==
  ASSUME ChartInv, NEW r \in Readers, AskMinute(r) PROVE ChartInv'
<1>. DEFINE w == [stage |-> "waiting", key |-> r, asked |-> tick]
<1>1. /\ w \in [stage : {"free", "resolving", "waiting"}, key : LoadIds \cup {NoLoad}, asked : Nat]
      /\ w.stage = "waiting" /\ w.key = r /\ r \in LoadIds
  BY DEF ChartInv, LoadIds
<1>2. loads[r] = NoLoad
  <2>1. ASSUME loads[r] # NoLoad PROVE FALSE
    <3>1. PICK q \in Readers : readers[q].stage = "waiting" /\ readers[q].key = r
      BY <1>1, <2>1 DEF ChartInv, ReadingHolds, Inflight, WaitingFor
    <3>2. q # r
      BY <3>1 DEF AskMinute
    <3>3. r \in PageKeys \cup {q}
      BY <3>1 DEF ChartInv, ReadingHolds, ChartReader
    <3>. QED
      BY <3>2, <3>3, ChartAssumption
  <2>. QED
    BY <2>1
<1>3. readers' = [readers EXCEPT ![r] = w]
  BY DEF AskMinute
<1>. HIDE DEF w
<1>4. /\ readers' \in [Readers -> [stage : {"free", "resolving", "waiting"},
                                  key : LoadIds \cup {NoLoad}, asked : Nat]]
      /\ readers'[r] = w /\ \A q \in Readers : q # r => readers'[q] = readers[q]
  BY <1>1, <1>3 DEF ChartInv, ReadingHolds
<1>5. readers[r].stage # "waiting" /\ StartLoad(r, 1) /\ Cardinality(Inflight) < MaxInflight
  BY DEF AskMinute
<1>6. ReadingHolds' /\ QueuedLoads' = QueuedLoads \cup {r} /\ r \notin QueuedLoads
  BY <1>1, <1>2, <1>4, <1>5, LoadStarts DEF ChartInv
<1>7. QueueHolds'
  BY <1>1, <1>5, <1>6, QueueAppends DEF StartLoad, ChartInv, QueueHolds
<1>. QED
  BY <1>6, <1>7 DEF AskMinute, ChartInv, CacheHolds

LEMMA TurnsKeep ==
  ASSUME ChartInv, StartRequest \/ GiveUpTurn PROVE ChartInv'
<1>. DEFINE l == Head(queue)
<1>1. queue # <<>>
  BY DEF StartRequest, GiveUpTurn
<1>2. /\ Tail(queue) \in Seq(LoadIds) /\ IsInjective(Tail(queue))
      /\ l \in LoadIds /\ l \in QueuedLoads /\ ToSet(Tail(queue)) = QueuedLoads \ {l}
  BY <1>1, QueueServes DEF ChartInv, QueueHolds
<1>3. loads[l] \in Load /\ loads[l] # NoLoad
  BY <1>2 DEF QueuedLoads, ChartInv, ReadingHolds
<1>. HIDE DEF l
<1>4. CASE StartRequest
  <2>. DEFINE left == loads[l].left - 1
              v == [stage |-> "fetching", left |-> left, aborted |-> FALSE]
  <2>1. left \in Int
    BY <1>3 DEF Load
  <2>4. loads' = [loads EXCEPT ![l] = v]
    BY <1>4 DEF StartRequest, l
  <2>. HIDE DEF left
  <2>3. v \in Load /\ v.stage = "fetching"
    BY <2>1 DEF Load
  <2>. HIDE DEF v
  <2>5. ReadingHolds' /\ QueuedLoads' = QueuedLoads \ {l}
    BY <1>2, <1>3, <1>4, <2>3, <2>4, LoadChanges DEF StartRequest, ChartInv
  <2>6. nextStart' \in Nat
    BY <1>4, ChartAssumption DEF StartRequest, ChartInv
  <2>. QED
    BY <1>2, <1>4, <2>5, <2>6 DEF StartRequest, ChartInv, QueueHolds, CacheHolds
<1>5. CASE GiveUpTurn
  <2>1. SettleLoad(l)
    BY <1>5 DEF GiveUpTurn, l
  <2>2. ReadingHolds' /\ QueuedLoads' = QueuedLoads \ {l}
    BY <1>2, <1>3, <2>1, LoadSettles DEF ChartInv
  <2>. QED
    BY <1>2, <1>5, <2>2 DEF GiveUpTurn, ChartInv, QueueHolds, CacheHolds
<1>. QED
  BY <1>4, <1>5

LEMMA AbortPageKeeps ==
  ASSUME ChartInv, NEW l \in LoadIds, AbortPage(l) PROVE ChartInv'
<1>1. loads[l] \in Load /\ loads[l] # NoLoad
  BY DEF AbortPage, ChartInv, ReadingHolds
<1>2. CASE loads[l].stage = "queued" /\ loads' = [loads EXCEPT ![l].aborted = TRUE]
           /\ UNCHANGED readers
  <2>. DEFINE v == [loads[l] EXCEPT !.aborted = TRUE]
  <2>1. v \in Load /\ v.stage = "queued"
    BY <1>1, <1>2 DEF Load
  <2>2. loads' = [loads EXCEPT ![l] = v]
    BY <1>2 DEF ChartInv, ReadingHolds
  <2>. HIDE DEF v
  <2>3. ReadingHolds' /\ QueuedLoads' = QueuedLoads \cup {l}
    BY <1>1, <1>2, <2>1, <2>2, LoadChanges DEF ChartInv
  <2>4. l \in QueuedLoads
    BY <1>1, <1>2 DEF QueuedLoads
  <2>. QED
    BY <2>3, <2>4 DEF AbortPage, ChartInv, QueueHolds, CacheHolds
<1>3. CASE loads[l].stage = "fetching" /\ SettleLoad(l)
  <2>1. ReadingHolds' /\ QueuedLoads' = QueuedLoads \ {l}
    BY <1>1, <1>3, LoadSettles DEF ChartInv
  <2>2. l \notin QueuedLoads
    BY <1>3 DEF QueuedLoads
  <2>. QED
    BY <2>1, <2>2 DEF AbortPage, ChartInv, QueueHolds, CacheHolds
<1>. QED
  BY <1>2, <1>3 DEF AbortPage

LEMMA AnswerRequestKeeps ==
  ASSUME ChartInv, NEW l \in LoadIds, AnswerRequest(l) PROVE ChartInv'
<1>1. loads[l] \in Load /\ loads[l] # NoLoad /\ loads[l].stage = "fetching" /\ l \notin QueuedLoads
  BY DEF AnswerRequest, ChartInv, ReadingHolds, QueuedLoads
<1>2. CASE SettleLoad(l) /\ UNCHANGED queue
  <2>1. ReadingHolds' /\ QueuedLoads' = QueuedLoads \ {l}
    BY <1>1, <1>2, LoadSettles DEF ChartInv
  <2>. QED
    BY <1>1, <1>2, <2>1 DEF AnswerRequest, ChartInv, QueueHolds, CacheHolds
<1>3. CASE l \in PageKeys /\ loads' = [loads EXCEPT ![l].stage = "checking"]
           /\ UNCHANGED <<readers, queue>>
  <2>. DEFINE v == [loads[l] EXCEPT !.stage = "checking"]
  <2>1. v \in Load /\ v.stage = "checking"
    BY <1>1 DEF Load
  <2>2. loads' = [loads EXCEPT ![l] = v]
    BY <1>3 DEF ChartInv, ReadingHolds
  <2>. HIDE DEF v
  <2>3. l \notin Readers
    BY <1>3, ChartAssumption
  <2>4. ReadingHolds' /\ QueuedLoads' = QueuedLoads \ {l}
    BY <1>1, <1>3, <2>1, <2>2, <2>3, LoadChanges DEF ChartInv
  <2>. QED
    BY <1>1, <1>3, <2>4 DEF AnswerRequest, ChartInv, QueueHolds, CacheHolds
<1>4. CASE loads' = [loads EXCEPT ![l].stage = "queued"] /\ queue' = Append(queue, l)
           /\ UNCHANGED readers
  <2>. DEFINE v == [loads[l] EXCEPT !.stage = "queued"]
  <2>1. v \in Load /\ v.stage = "queued"
    BY <1>1 DEF Load
  <2>2. loads' = [loads EXCEPT ![l] = v]
    BY <1>4 DEF ChartInv, ReadingHolds
  <2>. HIDE DEF v
  <2>3. ReadingHolds' /\ QueuedLoads' = QueuedLoads \cup {l}
    BY <1>1, <1>4, <2>1, <2>2, LoadChanges DEF ChartInv
  <2>4. QueueHolds'
    BY <1>1, <1>4, <2>3, QueueAppends DEF ChartInv, QueueHolds
  <2>. QED
    BY <2>3, <2>4 DEF AnswerRequest, ChartInv, CacheHolds
<1>. QED
  BY <1>2, <1>3, <1>4 DEF AnswerRequest

(* What KeepPage leaves in the cache: what was there, and the page of this key. *)
LEMMA PageIsKept ==
  ASSUME ChartInv, NEW l \in PageKeys, NEW expires \in Nat
  PROVE  LET page == [key |-> l, expires |-> expires]
             kept == Append(CacheWithout(l), page)
             left == IF Len(kept) > CacheEntries THEN Tail(kept) ELSE kept
         IN  /\ CacheHolds(left, CacheEntries)
             /\ ToSet(left) \subseteq ToSet(cache) \cup {page}
<1>. DEFINE page == [key |-> l, expires |-> expires]
            c == CacheWithout(l)
            kept == Append(c, page)
<1>1. page \in KeptPage /\ page.key = l
  BY DEF KeptPage
<1>2. /\ CacheHolds(c, CacheEntries) /\ CacheEntries \in Nat
      /\ \A i \in DOMAIN c : c[i].key # page.key
      /\ ToSet(c) \subseteq ToSet(cache)
  BY <1>1, CacheForgets, ChartAssumption DEF ChartInv, ToSet
<1>. HIDE DEF page, c
<1>3. /\ CacheHolds(kept, CacheEntries + 1) /\ ToSet(kept) = ToSet(c) \cup {page}
      /\ Len(kept) = Len(c) + 1
  BY <1>1, <1>2, CacheAppends
<1>. HIDE DEF kept
<1>4. Len(kept) > CacheEntries =>
        CacheHolds(Tail(kept), CacheEntries) /\ ToSet(Tail(kept)) \subseteq ToSet(kept)
  BY <1>2, <1>3, CacheDropsOldest
<1>5. ~(Len(kept) > CacheEntries) => CacheHolds(kept, CacheEntries)
  BY <1>2, <1>3 DEF CacheHolds
<1>. QED
  BY <1>2, <1>3, <1>4, <1>5 DEF kept, c, page

LEMMA KeepPageKeeps ==
  ASSUME ChartInv, NEW l \in LoadIds, KeepPage(l)
  PROVE  /\ ChartInv'
         /\ \A kept \in ToSet(cache') : kept \notin ToSet(cache) => kept.key[1] = listedVersion
<1>1. loads[l] \in Load /\ loads[l] # NoLoad /\ loads[l].stage = "checking" /\ l \notin QueuedLoads
  BY DEF KeepPage, ChartInv, ReadingHolds, QueuedLoads
<1>2. l \in PageKeys
  BY <1>1 DEF ChartInv, ReadingHolds, LoadIds
<1>3. ReadingHolds' /\ QueuedLoads' = QueuedLoads \ {l}
  BY <1>1, LoadSettles DEF KeepPage, ChartInv
<1>4. /\ CacheHolds(cache', CacheEntries)
      /\ \A kept \in ToSet(cache') : kept \notin ToSet(cache) => kept.key[1] = listedVersion
  <2>1. CASE UNCHANGED cache
    BY <2>1 DEF ChartInv
  <2>2. CASE ~(UNCHANGED cache)
    <3>. DEFINE page == [key |-> l, expires |-> tick + CacheTime]
                kept == Append(CacheWithout(l), page)
    <3>1. listedVersion = l[1] /\ cache' = IF Len(kept) > CacheEntries THEN Tail(kept) ELSE kept
      BY <2>2 DEF KeepPage, Resolves
    <3>2. tick + CacheTime \in Nat
      BY ChartAssumption DEF ChartInv
    <3>3. CacheHolds(cache', CacheEntries) /\ ToSet(cache') \subseteq ToSet(cache) \cup {page}
      BY <1>2, <3>1, <3>2, PageIsKept
    <3>4. page.key = l
      OBVIOUS
    <3>. QED
      BY <3>1, <3>3, <3>4
  <2>. QED
    BY <2>1, <2>2
<1>. QED
  BY <1>1, <1>3, <1>4 DEF KeepPage, ChartInv, QueueHolds, CacheHolds

LEMMA OutsideKeeps ==
  ASSUME ChartInv, PublishUniverse \/ ChartTick \/ UNCHANGED chartVars PROVE ChartInv'
<1>1. UNCHANGED <<readers, loads, queue, cache>> /\ nextStart' = nextStart
      /\ tick' \in Nat /\ listedVersion' \in Nat
  BY DEF ChartInv, PublishUniverse, ChartTick, chartVars
<1>2. Inflight' = Inflight /\ QueuedLoads' = QueuedLoads
  BY <1>1 DEF Inflight, QueuedLoads
<1>3. \A l \in LoadIds : WaitingFor(l)' = WaitingFor(l)
  BY <1>1 DEF WaitingFor
<1>4. \A r \in Readers : ChartReader(r)' <=> ChartReader(r)
  BY <1>1 DEF ChartReader
<1>5. ReadingHolds'
  BY <1>1, <1>2, <1>3, <1>4 DEF ChartInv, ReadingHolds, Inflight
<1>. QED
  BY <1>1, <1>2, <1>5 DEF ChartInv, QueueHolds, CacheHolds

LEMMA ChartStepKeeps == ChartInv /\ [ChartNext]_chartVars => ChartInv'
<1> SUFFICES ASSUME ChartInv, [ChartNext]_chartVars PROVE ChartInv'
  OBVIOUS
<1>1. ASSUME NEW r \in Readers, AskPage(r) \/ ResolvePage(r) \/ AskMinute(r) PROVE ChartInv'
  BY <1>1, AskPageKeeps, ResolvePageKeeps, AskMinuteKeeps
<1>2. ASSUME NEW l \in LoadIds, AbortPage(l) \/ AnswerRequest(l) \/ KeepPage(l) PROVE ChartInv'
  BY <1>2, AbortPageKeeps, AnswerRequestKeeps, KeepPageKeeps
<1>3. CASE StartRequest \/ GiveUpTurn
  BY <1>3, TurnsKeep
<1>4. CASE PublishUniverse \/ ChartTick \/ UNCHANGED chartVars
  BY <1>4, OutsideKeeps
<1>. QED
  BY <1>1, <1>2, <1>3, <1>4 DEF ChartNext

(* The step of PagesAreCurrent. *)
KeepsCurrent ==
  /\ \A kept \in ToSet(cache') : kept \notin ToSet(cache) => kept.key[1] = listedVersion
  /\ nextStart' # nextStart => tick >= nextStart /\ nextStart' >= nextStart + RequestInterval

LEMMA CurrentSteps == ChartInv /\ [ChartNext]_chartVars => [KeepsCurrent]_chartVars
<1> SUFFICES ASSUME ChartInv, ChartNext PROVE KeepsCurrent
  OBVIOUS
<1>1. ASSUME ToSet(cache') \subseteq ToSet(cache), nextStart' = nextStart PROVE KeepsCurrent
  BY <1>1 DEF KeepsCurrent
<1>2. ASSUME NEW r \in Readers, AskPage(r) \/ AskMinute(r) PROVE KeepsCurrent
  BY <1>1, <1>2 DEF AskPage, AskMinute
<1>3. ASSUME NEW r \in Readers, ResolvePage(r) PROVE KeepsCurrent
  <2>. DEFINE key == readers[r].key
              page == cache[CHOOSE i \in KeptAt(key) : TRUE]
  <2>1. CacheHolds(CacheWithout(key), CacheEntries) /\ ToSet(CacheWithout(key)) \subseteq ToSet(cache)
    BY CacheForgets DEF ChartInv, ToSet
  <2>2. nextStart' = nextStart
    BY <1>3 DEF ResolvePage
  <2>3. CASE UNCHANGED cache \/ cache' = CacheWithout(key)
    BY <1>1, <2>1, <2>2, <2>3
  <2>4. CASE KeptAt(key) # {} /\ cache' = Append(CacheWithout(key), page)
    <3>1. PICK i \in DOMAIN cache : page = cache[i] /\ cache[i].key = key
      BY <2>4 DEF KeptAt
    <3>2. page \in KeptPage /\ page.key = key /\ page \in ToSet(cache)
      BY <3>1 DEF ChartInv, CacheHolds, ToSet
    <3>3. \A j \in DOMAIN CacheWithout(key) : CacheWithout(key)[j].key # page.key
      BY <3>2, CacheForgets DEF ChartInv
    <3>4. CacheEntries \in Nat
      BY ChartAssumption
    <3>. HIDE DEF page, key
    <3>5. ToSet(cache') = ToSet(CacheWithout(key)) \cup {page}
      BY <2>1, <2>4, <3>2, <3>3, <3>4, CacheAppends
    <3>. QED
      BY <1>1, <2>1, <2>2, <3>2, <3>5
  <2>. QED
    BY <1>3, <2>3, <2>4 DEF ResolvePage
<1>4. ASSUME NEW l \in LoadIds, AbortPage(l) \/ AnswerRequest(l) PROVE KeepsCurrent
  BY <1>1, <1>4 DEF AbortPage, AnswerRequest
<1>5. ASSUME NEW l \in LoadIds, KeepPage(l) PROVE KeepsCurrent
  BY <1>5, KeepPageKeeps DEF KeepPage, KeepsCurrent
<1>6. CASE StartRequest
  <2>1. /\ UNCHANGED cache /\ nextStart' = tick + RequestInterval /\ nextStart <= tick
        /\ tick \in Nat /\ nextStart \in Nat /\ RequestInterval \in Nat
    BY <1>6, ChartAssumption DEF StartRequest, ChartInv
  <2>. QED
    BY <2>1 DEF KeepsCurrent
<1>7. CASE GiveUpTurn \/ PublishUniverse \/ ChartTick
  BY <1>1, <1>7 DEF GiveUpTurn, PublishUniverse, ChartTick
<1>. QED
  BY <1>2, <1>3, <1>4, <1>5, <1>6, <1>7 DEF ChartNext

-----------------------------------------------------------------------------
(***************************************************************************)
(* PriceChangeClient: what is said answers for the version, the day and   *)
(* the reference time it is said under.  The generation stands for the    *)
(* day and the reference time: a request of the present generation was made*)
(* for the present baseline, and an entry's request is of the present      *)
(* generation, for its version, and not cancelled (ClientHolds).           *)
(***************************************************************************)

Client == [paused : BOOLEAN, disposed : BOOLEAN, reference : Int, baseline : Int,
           generation : Nat, entries : [ChangeTargets -> TargetEntry \cup {Nothing}],
           cached : [ChangeTargets -> CachedResult \cup {Nothing}],
           slots : [RequestSlots -> ActiveRequest \cup {Nothing}]]

AnswersFor(said, version, baseline) ==
  said.data # Nothing =>
    said.status = "ready" /\ said.data.version = version /\ said.data.baseline = baseline

RequestIsOurs(c, t, s) ==
  LET request == c.slots[s] IN
  /\ request # Nothing /\ ~request.cancelled /\ request.target = t
  /\ request.version = c.entries[t].version /\ request.generation = c.generation

EntryHolds(c, t) ==
  LET entry == c.entries[t] IN
  entry # Nothing =>
    /\ ~c.disposed
    /\ AnswersFor(entry.shown, entry.version, c.baseline)
    /\ entry.shown.status = "loading" <=> entry.request # Nothing
    /\ entry.request # Nothing => RequestIsOurs(c, t, entry.request)

CachedHolds(c, t) ==
  LET kept == c.cached[t] IN
  kept # Nothing =>
    /\ AnswersFor(kept.shown, kept.version, c.baseline)
    /\ kept.shown.status \notin {"queued", "loading"}

SlotHolds(c, s) ==
  LET request == c.slots[s] IN
  request # Nothing =>
    /\ request.generation <= c.generation
    /\ request.generation = c.generation => request.baseline = c.baseline

ClientHolds(c) ==
  /\ c \in Client
  /\ \A t \in ChangeTargets : EntryHolds(c, t) /\ CachedHolds(c, t)
  /\ \A s \in RequestSlots : SlotHolds(c, s)

PauseHolds(c) ==
  c.paused => \A t \in ListedTargets(c) : c.entries[t].shown.status \notin {"queued", "loading"}

SlotsAreUsed(c) ==
  (\E t \in ListedTargets(c) : c.entries[t].shown.status = "queued") =>
    ~c.paused /\ Occupied(c) = RequestSlots

ClientInv == now \in Int /\ ClientHolds(client) /\ PauseHolds(client) /\ SlotsAreUsed(client)

LEMMA ClientInvSays == ClientInv => ChangesHold
  BY DEF ClientInv, ClientHolds, Client, EntryHolds, CachedHolds, RequestIsOurs, AnswersFor,
         SlotsAreUsed, ChangesHold, ShownIsOurs, NoSlotIsWasted, ListedTargets

LEMMA BaselineIsInt == ASSUME now \in Int, NEW r \in Int PROVE BaselineAt(r) \in Int
<1>1. now - r \in Int /\ ClientDay \in Nat /\ ClientDay > 0
  BY ClientAssumption
<1>2. ((now - r) \div ClientDay) \in Int
  BY <1>1
<1>. QED
  BY <1>1, <1>2 DEF BaselineAt

LEMMA ShownAsHolds ==
  ASSUME NEW status \in {"idle", "queued", "loading", "error", "stale"}
  PROVE  /\ ShownAs(status) \in Shown /\ ShownAs(status).status = status
         /\ ShownAs(status).data = Nothing
  BY DEF ShownAs, Shown

LEMMA ClientInitHolds == ClientInit => ClientInv
<1> SUFFICES ASSUME ClientInit PROVE ClientInv
  OBVIOUS
<1>1. PICK reference \in References :
        client = [paused |-> FALSE, disposed |-> FALSE, reference |-> reference,
                  baseline |-> BaselineAt(reference), generation |-> 0,
                  entries |-> [t \in ChangeTargets |-> Nothing],
                  cached |-> [t \in ChangeTargets |-> Nothing],
                  slots |-> [s \in RequestSlots |-> Nothing]]
  BY DEF ClientInit
<1>2. reference \in Int /\ now \in Int
  BY ClientAssumption DEF ClientInit
<1>3. BaselineAt(reference) \in Int
  BY <1>2, BaselineIsInt
<1>4. client \in Client
  BY <1>1, <1>2, <1>3 DEF Client
<1>5. \A t \in ChangeTargets : client.entries[t] = Nothing /\ client.cached[t] = Nothing
  BY <1>1
<1>6. \A s \in RequestSlots : client.slots[s] = Nothing
  BY <1>1
<1>. QED
  BY <1>2, <1>4, <1>5, <1>6
     DEF ClientInv, ClientHolds, EntryHolds, CachedHolds, SlotHolds, PauseHolds, SlotsAreUsed,
         ListedTargets

(* What cancelling leaves: the entries without a request, their slots cancelled. *)
LEMMA Cancelling ==
  ASSUME NEW c, ClientHolds(c), NEW targets \in SUBSET ChangeTargets
  PROVE  LET d == CancelledFor(c, targets) IN
         /\ d \in Client
         /\ d.paused = c.paused /\ d.disposed = c.disposed /\ d.reference = c.reference
         /\ d.baseline = c.baseline /\ d.generation = c.generation /\ d.cached = c.cached
         /\ \A t \in ChangeTargets \ targets :
              /\ d.entries[t] = c.entries[t]
              /\ c.entries[t] # Nothing /\ c.entries[t].request # Nothing =>
                   d.slots[c.entries[t].request] = c.slots[c.entries[t].request]
         /\ \A t \in targets :
              /\ (d.entries[t] = Nothing) = (c.entries[t] = Nothing)
              /\ c.entries[t] # Nothing =>
                   /\ d.entries[t] \in TargetEntry /\ d.entries[t].request = Nothing
                   /\ d.entries[t].version = c.entries[t].version
                   /\ d.entries[t].shown = c.entries[t].shown
         /\ \A s \in RequestSlots :
              /\ (d.slots[s] = Nothing) = (c.slots[s] = Nothing)
              /\ SlotHolds(d, s)
<1>. DEFINE Ends(s) == \E t \in targets : c.entries[t] # Nothing /\ c.entries[t].request = s
            slots == [s \in RequestSlots |->
                        IF Ends(s) THEN [c.slots[s] EXCEPT !.cancelled = TRUE] ELSE c.slots[s]]
            entries == [t \in ChangeTargets |->
                          IF t \in targets /\ c.entries[t] # Nothing
                          THEN [c.entries[t] EXCEPT !.request = Nothing] ELSE c.entries[t]]
            d == [c EXCEPT !.slots = slots, !.entries = entries]
<1>1. c \in Client /\ CancelledFor(c, targets) = d
  BY DEF ClientHolds, CancelledFor
<1>2. \A s \in RequestSlots : Ends(s) => c.slots[s] # Nothing
  <2> SUFFICES ASSUME NEW s \in RequestSlots, NEW t \in targets,
                      c.entries[t] # Nothing, c.entries[t].request = s
               PROVE  c.slots[s] # Nothing
    OBVIOUS
  <2>1. t \in ChangeTargets /\ s # Nothing
    BY NothingIsNone
  <2>. QED
    BY <2>1 DEF ClientHolds, EntryHolds, RequestIsOurs
<1>3. ASSUME NEW s \in RequestSlots, c.slots[s] # Nothing
      PROVE  LET request == [c.slots[s] EXCEPT !.cancelled = TRUE] IN
             /\ request \in ActiveRequest /\ request # Nothing
             /\ request.generation = c.slots[s].generation /\ request.baseline = c.slots[s].baseline
  <2>1. c.slots[s] \in ActiveRequest
    BY <1>1, <1>3 DEF Client
  <2>2. [c.slots[s] EXCEPT !.cancelled = TRUE] \in ActiveRequest
    BY <2>1 DEF ActiveRequest
  <2>. QED
    BY <2>1, <2>2, NothingIsNone DEF ActiveRequest
<1>4. ASSUME NEW t \in ChangeTargets, c.entries[t] # Nothing
      PROVE  LET entry == [c.entries[t] EXCEPT !.request = Nothing] IN
             /\ entry \in TargetEntry /\ entry # Nothing /\ entry.request = Nothing
             /\ entry.version = c.entries[t].version /\ entry.shown = c.entries[t].shown
  <2>1. c.entries[t] \in TargetEntry
    BY <1>1, <1>4 DEF Client
  <2>2. [c.entries[t] EXCEPT !.request = Nothing] \in TargetEntry
    BY <2>1 DEF TargetEntry
  <2>. QED
    BY <2>1, <2>2, NothingIsNone DEF TargetEntry
<1>5. slots \in [RequestSlots -> ActiveRequest \cup {Nothing}]
  BY <1>1, <1>2, <1>3 DEF Client
<1>6. entries \in [ChangeTargets -> TargetEntry \cup {Nothing}]
  BY <1>1, <1>4 DEF Client
<1>7. \A t \in ChangeTargets : entries[t] = IF t \in targets /\ c.entries[t] # Nothing
                          THEN [c.entries[t] EXCEPT !.request = Nothing] ELSE c.entries[t]
  OBVIOUS
<1>8. \A s \in RequestSlots : slots[s] =
        IF Ends(s) THEN [c.slots[s] EXCEPT !.cancelled = TRUE] ELSE c.slots[s]
  OBVIOUS
<1>. HIDE DEF slots, entries
<1>9. /\ d \in Client /\ d.slots = slots /\ d.entries = entries
      /\ d.paused = c.paused /\ d.disposed = c.disposed /\ d.reference = c.reference
      /\ d.baseline = c.baseline /\ d.generation = c.generation /\ d.cached = c.cached
  BY <1>1, <1>5, <1>6 DEF Client
<1>. HIDE DEF d
<1>10. ASSUME NEW s \in RequestSlots
       PROVE  (d.slots[s] = Nothing) = (c.slots[s] = Nothing) /\ SlotHolds(d, s)
  <2>1. SlotHolds(c, s)
    BY DEF ClientHolds
  <2>2. CASE Ends(s)
    BY <1>2, <1>3, <1>8, <1>9, <2>1, <2>2 DEF SlotHolds
  <2>3. CASE ~Ends(s)
    BY <1>8, <1>9, <2>1, <2>3 DEF SlotHolds
  <2>. QED
    BY <2>2, <2>3
<1>11. ASSUME NEW t \in ChangeTargets \ targets, c.entries[t] # Nothing,
              c.entries[t].request # Nothing
       PROVE  slots[c.entries[t].request] = c.slots[c.entries[t].request]
  <2>. DEFINE s == c.entries[t].request
  <2>1. s \in RequestSlots /\ c.slots[s].target = t
    BY <1>1, <1>11 DEF Client, TargetEntry, ClientHolds, EntryHolds, RequestIsOurs
  <2>2. ~Ends(s)
    <3>1. ASSUME NEW u \in targets, c.entries[u] # Nothing, c.entries[u].request = s PROVE FALSE
      <4>1. c.slots[s].target = u
        BY <1>11, <3>1 DEF ClientHolds, EntryHolds, RequestIsOurs
      <4>. QED
        BY <2>1, <4>1
    <3>. QED
      BY <3>1
  <2>. QED
    BY <1>8, <2>1, <2>2
<1>12. \A t \in ChangeTargets \ targets : d.entries[t] = c.entries[t]
  BY <1>7, <1>9
<1>13. ASSUME NEW t \in targets
       PROVE  /\ (d.entries[t] = Nothing) = (c.entries[t] = Nothing)
              /\ c.entries[t] # Nothing =>
                   /\ d.entries[t] \in TargetEntry /\ d.entries[t].request = Nothing
                   /\ d.entries[t].version = c.entries[t].version
                   /\ d.entries[t].shown = c.entries[t].shown
  <2>1. t \in ChangeTargets
    OBVIOUS
  <2>2. CASE c.entries[t] = Nothing
    BY <1>7, <1>9, <2>1, <2>2
  <2>3. CASE c.entries[t] # Nothing
    BY <1>4, <1>7, <1>9, <2>1, <2>3
  <2>. QED
    BY <2>2, <2>3
<1>. QED
  BY <1>1, <1>9, <1>10, <1>11, <1>12, <1>13

LEMMA Emptying ==
  ASSUME NEW c, ClientHolds(c), NEW targets \in SUBSET ChangeTargets
  PROVE  LET d == EmptiedOf(c, targets) IN
         /\ d \in Client
         /\ d.paused = c.paused /\ d.disposed = c.disposed /\ d.reference = c.reference
         /\ d.baseline = c.baseline /\ d.generation = c.generation /\ d.cached = c.cached
         /\ \A t \in ChangeTargets \ targets :
              /\ d.entries[t] = c.entries[t]
              /\ c.entries[t] # Nothing /\ c.entries[t].request # Nothing =>
                   d.slots[c.entries[t].request] = c.slots[c.entries[t].request]
         /\ \A t \in targets :
              /\ (d.entries[t] = Nothing) = (c.entries[t] = Nothing)
              /\ d.entries[t] # Nothing =>
                   /\ d.entries[t].request = Nothing /\ d.entries[t].shown = ShownAs("idle")
         /\ \A s \in RequestSlots : SlotHolds(d, s)
<1>. DEFINE freed == CancelledFor(c, targets)
            zero == 0
            Emptied(t) == [freed.entries[t] EXCEPT !.shown = ShownAs("idle"), !.next = zero]
            entries == [t \in ChangeTargets |->
                          IF t \in targets /\ freed.entries[t] # Nothing
                          THEN Emptied(t) ELSE freed.entries[t]]
            d == [freed EXCEPT !.entries = entries]
<1>1. EmptiedOf(c, targets) = d
  BY DEF EmptiedOf
<1>0. zero \in Int
  OBVIOUS
<1>. HIDE DEF zero
<1>2. /\ freed \in Client
      /\ freed.paused = c.paused /\ freed.disposed = c.disposed /\ freed.reference = c.reference
      /\ freed.baseline = c.baseline /\ freed.generation = c.generation /\ freed.cached = c.cached
      /\ \A t \in ChangeTargets \ targets :
           /\ freed.entries[t] = c.entries[t]
           /\ c.entries[t] # Nothing /\ c.entries[t].request # Nothing =>
                freed.slots[c.entries[t].request] = c.slots[c.entries[t].request]
      /\ \A t \in targets :
           /\ (freed.entries[t] = Nothing) = (c.entries[t] = Nothing)
           /\ c.entries[t] # Nothing =>
                freed.entries[t] \in TargetEntry /\ freed.entries[t].request = Nothing
      /\ \A s \in RequestSlots : SlotHolds(freed, s)
  BY Cancelling
<1>. HIDE DEF freed
<1>3. ASSUME NEW t \in targets, freed.entries[t] # Nothing
      PROVE  /\ Emptied(t) \in TargetEntry /\ Emptied(t) # Nothing
             /\ Emptied(t).request = Nothing /\ Emptied(t).shown = ShownAs("idle")
  <2>1. freed.entries[t] \in TargetEntry /\ freed.entries[t].request = Nothing
    BY <1>2, <1>3
  <2>2. ShownAs("idle") \in Shown
    BY ShownAsHolds
  <2>. DEFINE entry == freed.entries[t]
              said == ShownAs("idle")
  <2>. HIDE DEF entry, said
  <2>3. LET e == [entry EXCEPT !.shown = said, !.next = zero] IN
        e \in TargetEntry /\ e.request = entry.request /\ e.shown = said
    <3>1. entry \in TargetEntry /\ said \in Shown
      BY <2>1, <2>2 DEF entry, said
    <3>. QED
      BY <1>0, <3>1 DEF TargetEntry
  <2>. QED
    BY <2>1, <2>3, NothingIsNone DEF entry, said
<1>4. entries \in [ChangeTargets -> TargetEntry \cup {Nothing}]
  BY <1>2, <1>3 DEF Client
<1>5. \A t \in ChangeTargets : entries[t] =
        IF t \in targets /\ freed.entries[t] # Nothing THEN Emptied(t) ELSE freed.entries[t]
  OBVIOUS
<1>. HIDE DEF entries
<1>6. /\ d \in Client /\ d.entries = entries /\ d.slots = freed.slots
      /\ d.paused = c.paused /\ d.disposed = c.disposed /\ d.reference = c.reference
      /\ d.baseline = c.baseline /\ d.generation = c.generation /\ d.cached = c.cached
  BY <1>2, <1>4 DEF Client
<1>. HIDE DEF d, Emptied
<1>7. \A s \in RequestSlots : SlotHolds(d, s)
  BY <1>2, <1>6 DEF SlotHolds
<1>8. ASSUME NEW t \in targets
      PROVE  /\ (d.entries[t] = Nothing) = (c.entries[t] = Nothing)
             /\ d.entries[t] # Nothing =>
                   d.entries[t].request = Nothing /\ d.entries[t].shown = ShownAs("idle")
  <2>1. t \in ChangeTargets
    OBVIOUS
  <2>2. CASE freed.entries[t] = Nothing
    BY <1>2, <1>5, <1>6, <2>1, <2>2
  <2>3. CASE freed.entries[t] # Nothing
    BY <1>2, <1>3, <1>5, <1>6, <2>1, <2>3
  <2>. QED
    BY <2>2, <2>3
<1>9. \A t \in ChangeTargets \ targets :
        /\ d.entries[t] = c.entries[t]
        /\ c.entries[t] # Nothing /\ c.entries[t].request # Nothing =>
             d.slots[c.entries[t].request] = c.slots[c.entries[t].request]
  BY <1>2, <1>5, <1>6
<1>. QED
  BY <1>1, <1>6, <1>7, <1>8, <1>9

(* Emptying keeps what holds. *)
LEMMA EmptyingHolds ==
  ASSUME NEW c, ClientHolds(c), NEW targets \in SUBSET ChangeTargets
  PROVE  ClientHolds(EmptiedOf(c, targets))
<1>. DEFINE d == EmptiedOf(c, targets)
<1>0. ShownAs("idle").status = "idle" /\ ShownAs("idle").data = Nothing
  BY ShownAsHolds
<1>1. /\ d \in Client
      /\ d.paused = c.paused /\ d.disposed = c.disposed
      /\ d.baseline = c.baseline /\ d.generation = c.generation /\ d.cached = c.cached
      /\ \A t \in ChangeTargets \ targets :
           /\ d.entries[t] = c.entries[t]
           /\ c.entries[t] # Nothing /\ c.entries[t].request # Nothing =>
                d.slots[c.entries[t].request] = c.slots[c.entries[t].request]
      /\ \A t \in targets :
           /\ (d.entries[t] = Nothing) = (c.entries[t] = Nothing)
           /\ d.entries[t] # Nothing =>
                /\ d.entries[t].request = Nothing /\ d.entries[t].shown = ShownAs("idle")
      /\ \A s \in RequestSlots : SlotHolds(d, s)
  BY Emptying
<1>. HIDE DEF d
<1>2. ASSUME NEW t \in ChangeTargets PROVE EntryHolds(d, t)
  <2>1. EntryHolds(c, t)
    BY DEF ClientHolds
  <2>2. CASE t \in targets
    BY <1>0, <1>1, <2>1, <2>2 DEF EntryHolds, AnswersFor
  <2>3. CASE t \notin targets
    BY <1>1, <2>1, <2>3 DEF EntryHolds, AnswersFor, RequestIsOurs
  <2>. QED
    BY <2>2, <2>3
<1>3. ASSUME NEW t \in ChangeTargets PROVE CachedHolds(d, t)
  BY <1>1 DEF ClientHolds, CachedHolds, AnswersFor
<1>4. ClientHolds(d)
  BY <1>1, <1>2, <1>3 DEF ClientHolds
<1>. QED
  BY <1>4 DEF d

(* A new generation: no request is of it yet, and nothing said is of an old baseline. *)
LEMMA Resetting ==
  ASSUME NEW c, ClientHolds(c), NEW baseline \in Int
  PROVE  ClientHolds(ResetContext(c, baseline)) /\ ResetContext(c, baseline).disposed = c.disposed
         /\ ResetContext(c, baseline).paused = c.paused /\ PauseHolds(ResetContext(c, baseline))
<1>. DEFINE e == EmptiedOf(c, ChangeTargets)
            generation == c.generation + 1
            cached == [t \in ChangeTargets |-> Nothing]
            d == [e EXCEPT !.baseline = baseline, !.generation = generation, !.cached = cached]
<1>0. ShownAs("idle").status = "idle" /\ ShownAs("idle").data = Nothing
  BY ShownAsHolds
<1>1. ResetContext(c, baseline) = d
  BY DEF ResetContext
<1>2. /\ e \in Client
      /\ e.paused = c.paused /\ e.disposed = c.disposed /\ e.generation = c.generation
      /\ \A t \in ChangeTargets :
           /\ (e.entries[t] = Nothing) = (c.entries[t] = Nothing)
           /\ e.entries[t] # Nothing =>
                /\ e.entries[t].request = Nothing /\ e.entries[t].shown = ShownAs("idle")
      /\ \A s \in RequestSlots : SlotHolds(e, s)
  BY Emptying
<1>. HIDE DEF e
<1>3. generation \in Nat /\ generation > c.generation /\ c.generation \in Nat
  BY DEF ClientHolds, Client
<1>4. cached \in [ChangeTargets -> CachedResult \cup {Nothing}]
      /\ \A t \in ChangeTargets : cached[t] = Nothing
  OBVIOUS
<1>. HIDE DEF generation, cached
<1>5. /\ d \in Client /\ d.entries = e.entries /\ d.slots = e.slots /\ d.cached = cached
      /\ d.baseline = baseline /\ d.generation = generation
      /\ d.paused = e.paused /\ d.disposed = e.disposed
  BY <1>2, <1>3, <1>4 DEF Client
<1>. HIDE DEF d
<1>6. ASSUME NEW s \in RequestSlots PROVE SlotHolds(d, s)
  <2>1. ASSUME d.slots[s] # Nothing
        PROVE  d.slots[s].generation <= c.generation /\ d.slots[s].generation \in Nat
    <3>1. d.slots[s] \in ActiveRequest
      BY <1>5, <2>1 DEF Client
    <3>. QED
      BY <1>2, <1>5, <2>1, <3>1 DEF SlotHolds, ActiveRequest
  <2>. QED
    BY <1>3, <1>5, <2>1 DEF SlotHolds
<1>7. ASSUME NEW t \in ChangeTargets PROVE EntryHolds(d, t) /\ CachedHolds(d, t)
  <2>1. EntryHolds(c, t)
    BY DEF ClientHolds
  <2>. QED
    BY <1>0, <1>2, <1>4, <1>5, <2>1 DEF EntryHolds, CachedHolds, AnswersFor
<1>8. ClientHolds(d)
  BY <1>5, <1>6, <1>7 DEF ClientHolds
<1>9. PauseHolds(d)
  BY <1>0, <1>2, <1>5 DEF PauseHolds, ListedTargets
<1>. QED
  BY <1>1, <1>2, <1>5, <1>8, <1>9

LEMMA Synchronizing ==
  ASSUME now \in Int, NEW c, ClientHolds(c)
  PROVE  LET d == SynchronizeContext(c) IN
         /\ ClientHolds(d) /\ d.disposed = c.disposed /\ d.paused = c.paused
         /\ PauseHolds(c) => PauseHolds(d)
<1>1. c.reference \in Int
  BY DEF ClientHolds, Client
<1>2. BaselineAt(c.reference) \in Int
  BY <1>1, BaselineIsInt
<1>. QED
  BY <1>2, Resetting DEF SynchronizeContext

(* What is too old is withdrawn and what is due is queued. *)
LEMMA Queueing ==
  ASSUME now \in Int, NEW c, ClientHolds(c), PauseHolds(c), ~c.disposed
  PROVE  ClientHolds(QueuedEntries(c)) /\ PauseHolds(QueuedEntries(c)) /\ ~QueuedEntries(c).disposed
<1>. DEFINE entries == [t \in ChangeTargets |->
                          IF t \in ListedTargets(c) THEN DueEntry(c, t) ELSE Nothing]
            cached == [t \in ChangeTargets |->
                         IF t \in ListedTargets(c) /\ TooOld(c.entries[t].shown)
                         THEN Nothing ELSE c.cached[t]]
            d == [c EXCEPT !.entries = entries, !.cached = cached]
<1>0. QueuedEntries(c) = d /\ c \in Client
  BY DEF QueuedEntries, ClientHolds
<1>1. ASSUME NEW t \in ChangeTargets, c.entries[t] # Nothing
      PROVE  LET entry == c.entries[t]
                 due == DueEntry(c, t)
             IN  /\ due \in TargetEntry /\ due # Nothing
                 /\ due.version = entry.version /\ due.request = entry.request
                 /\ AnswersFor(due.shown, entry.version, c.baseline)
                 /\ due.shown.status = "loading" <=> entry.request # Nothing
                 /\ c.paused => due.shown.status \notin {"queued", "loading"}
  <2>. DEFINE entry == c.entries[t]
              next == IF TooOld(entry.shown) /\ entry.next > now THEN now ELSE entry.next
              said == IF TooOld(entry.shown) THEN ShownAs("stale") ELSE entry.shown
              final == IF c.paused \/ entry.request # Nothing \/ next > now
                          \/ said.status = "queued"
                       THEN said ELSE ShownAs("queued")
  <2>1. entry \in TargetEntry /\ EntryHolds(c, t)
    BY <1>0, <1>1 DEF Client, ClientHolds
  <2>2. next \in Int
    BY <2>1 DEF TargetEntry
  <2>3. /\ ShownAs("stale") \in Shown /\ ShownAs("stale").status = "stale"
        /\ ShownAs("stale").data = Nothing
        /\ ShownAs("queued") \in Shown /\ ShownAs("queued").status = "queued"
        /\ ShownAs("queued").data = Nothing
    BY ShownAsHolds
  <2>4. entry.shown \in Shown
    BY <2>1 DEF TargetEntry
  <2>5. TooOld(entry.shown) => entry.shown.status = "ready" /\ entry.request = Nothing
    BY <1>1, <2>1 DEF TooOld, EntryHolds, AnswersFor
  <2>6. /\ said \in Shown /\ AnswersFor(said, entry.version, c.baseline)
        /\ said.status = "loading" <=> entry.request # Nothing
        /\ c.paused => said.status \notin {"queued", "loading"}
    BY <1>1, <2>1, <2>3, <2>4, <2>5 DEF EntryHolds, AnswersFor, PauseHolds, ListedTargets
  <2>7. DueEntry(c, t) = [entry EXCEPT !.next = next, !.shown = final]
    BY DEF DueEntry
  <2>. HIDE DEF said, next
  <2>8. /\ final \in Shown /\ AnswersFor(final, entry.version, c.baseline)
        /\ final.status = "loading" <=> entry.request # Nothing
        /\ c.paused => final.status \notin {"queued", "loading"}
    BY <2>3, <2>6 DEF AnswersFor
  <2>. HIDE DEF final
  <2>9. /\ DueEntry(c, t) \in TargetEntry /\ DueEntry(c, t).shown = final
        /\ DueEntry(c, t).version = entry.version /\ DueEntry(c, t).request = entry.request
    BY <2>1, <2>2, <2>7, <2>8 DEF TargetEntry
  <2>. QED
    BY <2>8, <2>9, NothingIsNone
<1>2. /\ entries \in [ChangeTargets -> TargetEntry \cup {Nothing}]
      /\ \A t \in ChangeTargets :
           entries[t] = IF c.entries[t] # Nothing THEN DueEntry(c, t) ELSE Nothing
  BY <1>1 DEF ListedTargets
<1>3. /\ cached \in [ChangeTargets -> CachedResult \cup {Nothing}]
      /\ \A t \in ChangeTargets : cached[t] = Nothing \/ cached[t] = c.cached[t]
  BY <1>0 DEF Client
<1>. HIDE DEF entries, cached
<1>4. /\ d \in Client /\ d.entries = entries /\ d.cached = cached /\ d.slots = c.slots
      /\ d.baseline = c.baseline /\ d.generation = c.generation
      /\ d.paused = c.paused /\ d.disposed = c.disposed
  BY <1>0, <1>2, <1>3 DEF Client
<1>. HIDE DEF d
<1>5. \A s \in RequestSlots : SlotHolds(d, s)
  BY <1>4 DEF ClientHolds, SlotHolds
<1>6. ASSUME NEW t \in ChangeTargets PROVE CachedHolds(d, t)
  BY <1>3, <1>4 DEF ClientHolds, CachedHolds, AnswersFor
<1>7. ASSUME NEW t \in ChangeTargets PROVE EntryHolds(d, t)
  <2>1. CASE c.entries[t] = Nothing
    BY <1>2, <1>4, <2>1 DEF EntryHolds
  <2>2. CASE c.entries[t] # Nothing
    <3>1. d.entries[t] = DueEntry(c, t) /\ EntryHolds(c, t)
      BY <1>2, <1>4, <2>2 DEF ClientHolds
    <3>2. /\ DueEntry(c, t).version = c.entries[t].version
          /\ DueEntry(c, t).request = c.entries[t].request
          /\ AnswersFor(DueEntry(c, t).shown, c.entries[t].version, c.baseline)
          /\ DueEntry(c, t).shown.status = "loading" <=> c.entries[t].request # Nothing
          /\ c.paused => DueEntry(c, t).shown.status \notin {"queued", "loading"}
      BY <1>1, <2>2
    <3>. QED
      BY <1>4, <2>2, <3>1, <3>2 DEF EntryHolds, RequestIsOurs
  <2>. QED
    BY <2>1, <2>2
<1>8. ClientHolds(d)
  BY <1>4, <1>5, <1>6, <1>7 DEF ClientHolds
<1>9. PauseHolds(d)
  BY <1>1, <1>2, <1>4 DEF PauseHolds, ListedTargets
<1>. QED
  BY <1>0, <1>4, <1>8, <1>9

LEMMA Launching ==
  ASSUME NEW c, ClientHolds(c), PauseHolds(c), ~c.disposed, NEW d \in LaunchChoices(c)
  PROVE  ClientHolds(d) /\ PauseHolds(d) /\ SlotsAreUsed(d)
<1>1. PICK f \in Launches(Eligible(c), RequestSlots \ Occupied(c)) : d = LaunchedOn(c, f)
  BY DEF LaunchChoices
<1>. DEFINE free == RequestSlots \ Occupied(c)
            launched == DOMAIN f
            OfSlot(s) == CHOOSE t \in launched : f[t] = s
            Begun(t) == [c.entries[t] EXCEPT !.request = f[t], !.shown = ShownAs("loading")]
            Made(s) == [target |-> OfSlot(s), version |-> c.entries[OfSlot(s)].version,
                        generation |-> c.generation, reference |-> c.reference,
                        baseline |-> c.baseline, cancelled |-> FALSE]
            entries == [t \in ChangeTargets |-> IF t \in launched THEN Begun(t) ELSE c.entries[t]]
            slots == [s \in RequestSlots |->
                        IF \E t \in launched : f[t] = s THEN Made(s) ELSE c.slots[s]]
<1>2. /\ launched \subseteq Eligible(c) /\ \A t \in launched : f[t] \in free
      /\ \A t, u \in launched : f[t] = f[u] => t = u
      /\ launched = Eligible(c) \/ {f[t] : t \in launched} = free
  BY DEF Launches
<1>3. /\ launched \subseteq ChangeTargets /\ (c.paused => launched = {})
      /\ \A t \in launched : c.entries[t] # Nothing /\ c.entries[t].request = Nothing
  BY <1>2 DEF Eligible, ListedTargets
<1>4. c \in Client /\ d = [c EXCEPT !.entries = entries, !.slots = slots]
  BY <1>1 DEF ClientHolds, LaunchedOn
<1>5. \A t \in launched : f[t] \in RequestSlots /\ c.slots[f[t]] = Nothing /\ OfSlot(f[t]) = t
  BY <1>2 DEF Occupied
<1>. HIDE DEF launched
<1>6. ASSUME NEW t \in launched
      PROVE  /\ Begun(t) \in TargetEntry /\ Begun(t) # Nothing
             /\ Begun(t).request = f[t] /\ Begun(t).shown = ShownAs("loading")
             /\ Begun(t).version = c.entries[t].version
  <2>1. c.entries[t] \in TargetEntry /\ f[t] \in RequestSlots \cup {Nothing}
    BY <1>3, <1>4, <1>5 DEF Client
  <2>2. ShownAs("loading") \in Shown
    BY ShownAsHolds
  <2>3. /\ Begun(t) \in TargetEntry /\ Begun(t).request = f[t] /\ Begun(t).shown = ShownAs("loading")
        /\ Begun(t).version = c.entries[t].version
    BY <2>1, <2>2 DEF TargetEntry
  <2>. QED
    BY <2>3, NothingIsNone
<1>7. ASSUME NEW s \in RequestSlots, NEW t \in launched, f[t] = s
      PROVE  /\ Made(s) \in ActiveRequest /\ Made(s) # Nothing /\ ~Made(s).cancelled
             /\ Made(s).target = t /\ Made(s).version = c.entries[t].version
             /\ Made(s).generation = c.generation /\ Made(s).baseline = c.baseline
  <2>1. OfSlot(s) = t /\ t \in ChangeTargets
    BY <1>3, <1>5, <1>7
  <2>2. c.entries[t] \in TargetEntry
    BY <1>3, <1>4, <2>1 DEF Client
  <2>3. /\ c.entries[t].version \in TargetVersions /\ c.generation \in Nat
        /\ c.reference \in Int /\ c.baseline \in Int
    BY <1>4, <2>2 DEF Client, TargetEntry
  <2>. HIDE DEF OfSlot
  <2>4. Made(s) \in ActiveRequest
    BY <2>1, <2>3 DEF ActiveRequest
  <2>. QED
    BY <2>1, <2>4, NothingIsNone
<1>8. /\ entries \in [ChangeTargets -> TargetEntry \cup {Nothing}]
      /\ \A t \in ChangeTargets : entries[t] = IF t \in launched THEN Begun(t) ELSE c.entries[t]
  BY <1>4, <1>6 DEF Client
<1>9. /\ slots \in [RequestSlots -> ActiveRequest \cup {Nothing}]
      /\ \A s \in RequestSlots :
           slots[s] = IF \E t \in launched : f[t] = s THEN Made(s) ELSE c.slots[s]
  BY <1>4, <1>7 DEF Client
<1>. HIDE DEF entries, slots, Begun, Made
<1>10. /\ d \in Client /\ d.entries = entries /\ d.slots = slots /\ d.cached = c.cached
       /\ d.baseline = c.baseline /\ d.generation = c.generation
       /\ d.paused = c.paused /\ d.disposed = c.disposed
  BY <1>4, <1>8, <1>9 DEF Client
<1>11. ASSUME NEW s \in RequestSlots PROVE SlotHolds(d, s)
  <2>1. CASE \E t \in launched : f[t] = s
    <3>1. d.slots[s].generation = c.generation /\ d.slots[s].baseline = c.baseline
          /\ c.generation \in Nat
      BY <1>4, <1>7, <1>9, <1>10, <2>1 DEF Client
    <3>. QED
      BY <1>10, <3>1 DEF SlotHolds
  <2>2. CASE ~\E t \in launched : f[t] = s
    BY <1>9, <1>10, <2>2 DEF ClientHolds, SlotHolds
  <2>. QED
    BY <2>1, <2>2
<1>12. ASSUME NEW t \in ChangeTargets PROVE CachedHolds(d, t)
  BY <1>10 DEF ClientHolds, CachedHolds, AnswersFor
<1>13. ASSUME NEW t \in ChangeTargets PROVE EntryHolds(d, t)
  <2>1. CASE t \in launched
    <3>1. f[t] \in RequestSlots /\ f[t] # Nothing
      BY <1>5, <2>1, NothingIsNone
    <3>2. d.slots[f[t]] = Made(f[t])
      BY <1>9, <1>10, <2>1, <3>1
    <3>3. /\ d.entries[t].request = f[t] /\ d.entries[t].shown = ShownAs("loading")
          /\ d.entries[t].version = c.entries[t].version
      BY <1>6, <1>8, <1>10, <2>1
    <3>4. RequestIsOurs(d, t, f[t])
      BY <1>7, <1>10, <2>1, <3>1, <3>2, <3>3 DEF RequestIsOurs
    <3>5. ShownAs("loading").status = "loading" /\ ShownAs("loading").data = Nothing
      BY ShownAsHolds
    <3>. QED
      BY <1>3, <1>10, <2>1, <3>1, <3>3, <3>4, <3>5 DEF EntryHolds, AnswersFor
  <2>2. CASE t \notin launched
    <3>1. d.entries[t] = c.entries[t] /\ EntryHolds(c, t)
      BY <1>8, <1>10, <2>2 DEF ClientHolds
    <3>2. ASSUME c.entries[t] # Nothing, c.entries[t].request # Nothing
          PROVE  d.slots[c.entries[t].request] = c.slots[c.entries[t].request]
      <4>. DEFINE s == c.entries[t].request
      <4>1. s \in RequestSlots /\ c.slots[s] # Nothing
        BY <1>4, <3>1, <3>2 DEF Client, TargetEntry, EntryHolds, RequestIsOurs
      <4>2. ~\E u \in launched : f[u] = s
        BY <1>5, <4>1
      <4>. QED
        BY <1>9, <1>10, <4>1, <4>2
    <3>. QED
      BY <1>10, <3>1, <3>2 DEF EntryHolds, AnswersFor, RequestIsOurs
  <2>. QED
    BY <2>1, <2>2
<1>14. ClientHolds(d)
  BY <1>10, <1>11, <1>12, <1>13 DEF ClientHolds
<1>15. PauseHolds(d)
  BY <1>3, <1>8, <1>10 DEF PauseHolds, ListedTargets
<1>16. SlotsAreUsed(d)
  <2> SUFFICES ASSUME NEW t \in ChangeTargets, d.entries[t] # Nothing,
                      d.entries[t].shown.status = "queued"
               PROVE  ~d.paused /\ Occupied(d) = RequestSlots
    BY DEF SlotsAreUsed, ListedTargets
  <2>1. ~d.paused /\ d.entries[t].request = Nothing
    BY <1>14, <1>15 DEF ClientHolds, EntryHolds, PauseHolds, ListedTargets
  <2>2. t \notin launched
    <3>1. ShownAs("loading").status = "loading"
      BY ShownAsHolds
    <3>. QED
      BY <1>6, <1>8, <1>10, <3>1
  <2>3. t \in Eligible(c)
    BY <1>8, <1>10, <2>1, <2>2 DEF Eligible, ListedTargets
  <2>4. {f[u] : u \in launched} = free
    BY <1>2, <2>2, <2>3
  <2>5. ASSUME NEW s \in RequestSlots PROVE d.slots[s] # Nothing
    <3>1. CASE s \in free
      <4>1. PICK u \in launched : f[u] = s
        BY <2>4, <3>1
      <4>2. d.slots[s] = Made(s)
        BY <1>9, <1>10, <4>1
      <4>. QED
        BY <1>7, <4>1, <4>2
    <3>2. CASE s \notin free
      <4>1. c.slots[s] # Nothing /\ ~\E u \in launched : f[u] = s
        BY <2>4, <3>2 DEF Occupied
      <4>. QED
        BY <1>9, <1>10, <4>1
    <3>. QED
      BY <3>1, <3>2
  <2>. QED
    BY <2>1, <2>5 DEF Occupied
<1>. QED
  BY <1>14, <1>15, <1>16

LEMMA Reconciling ==
  ASSUME now \in Int, NEW c, ClientHolds(c), PauseHolds(c), ~c.disposed, NEW d \in Reconciled(c)
  PROVE  ClientHolds(d) /\ PauseHolds(d) /\ SlotsAreUsed(d)
<1>. DEFINE synchronized == SynchronizeContext(c)
            queued == QueuedEntries(synchronized)
<1>1. ClientHolds(synchronized) /\ PauseHolds(synchronized) /\ ~synchronized.disposed
  BY Synchronizing
<1>. HIDE DEF synchronized
<1>2. ClientHolds(queued) /\ PauseHolds(queued) /\ ~queued.disposed
  BY <1>1, Queueing
<1>3. d \in LaunchChoices(queued)
  BY DEF Reconciled, synchronized
<1>. HIDE DEF queued
<1>. QED
  BY <1>2, <1>3, Launching

LEMMA SetTargetsKeeps == ASSUME ClientInv, SetTargets PROVE ClientInv'
<1>1. /\ now \in Int /\ ClientHolds(client) /\ PauseHolds(client) /\ ~client.disposed
      /\ now' = now
  BY DEF ClientInv, SetTargets
<1>. DEFINE c == SynchronizeContext(client)
<1>2. ClientHolds(c) /\ PauseHolds(c) /\ ~c.disposed
  BY <1>1, Synchronizing
<1>3. PICK chosen \in SUBSET ChangeTargets :
        \E versions \in [chosen -> TargetVersions] :
          LET gone == {t \in ListedTargets(c) : ~KeptEntry(c, t, versions)}
              new == {t \in chosen : ~KeptEntry(c, t, versions)}
              rest == CancelledFor(c, gone)
          IN  client' \in Reconciled([rest EXCEPT
                !.entries = [t \in ChangeTargets |->
                   CASE t \in new -> NewEntry(rest, t, versions)
                     [] t \in chosen \ new -> rest.entries[t]
                     [] OTHER -> Nothing],
                !.cached = [t \in ChangeTargets |->
                   IF t \in new /\ ~Reusable(rest, t, versions) THEN Nothing ELSE rest.cached[t]]])
  BY DEF SetTargets
<1>4. PICK versions \in [chosen -> TargetVersions] :
          LET gone == {t \in ListedTargets(c) : ~KeptEntry(c, t, versions)}
              new == {t \in chosen : ~KeptEntry(c, t, versions)}
              rest == CancelledFor(c, gone)
          IN  client' \in Reconciled([rest EXCEPT
                !.entries = [t \in ChangeTargets |->
                   CASE t \in new -> NewEntry(rest, t, versions)
                     [] t \in chosen \ new -> rest.entries[t]
                     [] OTHER -> Nothing],
                !.cached = [t \in ChangeTargets |->
                   IF t \in new /\ ~Reusable(rest, t, versions) THEN Nothing ELSE rest.cached[t]]])
  BY <1>3
<1>. HIDE DEF c
<1>. DEFINE gone == {t \in ListedTargets(c) : ~KeptEntry(c, t, versions)}
            new == {t \in chosen : ~KeptEntry(c, t, versions)}
            rest == CancelledFor(c, gone)
            EntryOf(t) == CASE t \in new -> NewEntry(rest, t, versions)
                            [] t \in chosen \ new -> rest.entries[t]
                            [] OTHER -> Nothing
            entries == [t \in ChangeTargets |-> EntryOf(t)]
            cached == [t \in ChangeTargets |->
                         IF t \in new /\ ~Reusable(rest, t, versions) THEN Nothing ELSE rest.cached[t]]
            d == [rest EXCEPT !.entries = entries, !.cached = cached]
<1>5. client' \in Reconciled(d)
  BY <1>4
<1>6. gone \in SUBSET ChangeTargets
  BY DEF ListedTargets
<1>7. /\ rest \in Client
      /\ rest.paused = c.paused /\ rest.disposed = c.disposed
      /\ rest.baseline = c.baseline /\ rest.generation = c.generation /\ rest.cached = c.cached
      /\ \A t \in ChangeTargets \ gone :
           /\ rest.entries[t] = c.entries[t]
           /\ c.entries[t] # Nothing /\ c.entries[t].request # Nothing =>
                rest.slots[c.entries[t].request] = c.slots[c.entries[t].request]
      /\ \A s \in RequestSlots : SlotHolds(rest, s)
  BY <1>2, <1>6, Cancelling
<1>. HIDE DEF rest
<1>8. ASSUME NEW t \in new
      PROVE  LET entry == NewEntry(rest, t, versions) IN
             /\ entry \in TargetEntry /\ entry # Nothing /\ entry.request = Nothing
             /\ AnswersFor(entry.shown, entry.version, c.baseline)
             /\ entry.shown.status \notin {"queued", "loading"}
  <2>. DEFINE version == versions[t]
              zero == 0
  <2>1. version \in TargetVersions /\ t \in ChangeTargets /\ zero \in Int
    OBVIOUS
  <2>2. /\ ShownAs("idle") \in Shown /\ ShownAs("idle").status = "idle"
        /\ ShownAs("idle").data = Nothing
    BY ShownAsHolds
  <2>3. CASE Reusable(rest, t, versions)
    <3>. DEFINE kept == rest.cached[t]
                entry == [version |-> version, shown |-> kept.shown, next |-> kept.next,
                          request |-> Nothing]
    <3>1. /\ kept # Nothing /\ kept.version = version
          /\ NewEntry(rest, t, versions) = entry
      BY <2>3 DEF Reusable, NewEntry, NoEntry
    <3>2. kept \in CachedResult /\ CachedHolds(c, t)
      BY <1>2, <1>7, <2>1, <3>1 DEF Client, ClientHolds
    <3>3. kept.shown \in Shown /\ kept.next \in Int
      BY <3>2 DEF CachedResult
    <3>4. AnswersFor(kept.shown, version, c.baseline) /\ kept.shown.status \notin {"queued", "loading"}
      BY <1>7, <3>1, <3>2 DEF CachedHolds
    <3>. HIDE DEF kept, version
    <3>5. entry \in TargetEntry
      BY <2>1, <3>3 DEF TargetEntry
    <3>. QED
      BY <3>1, <3>4, <3>5, NothingIsNone
  <2>4. CASE ~Reusable(rest, t, versions)
    <3>. DEFINE entry == [version |-> version, shown |-> ShownAs("idle"), next |-> zero,
                          request |-> Nothing]
    <3>1. NewEntry(rest, t, versions) = entry
      BY <2>4 DEF NewEntry, NoEntry
    <3>. HIDE DEF version, zero
    <3>2. entry \in TargetEntry
      BY <2>1, <2>2 DEF TargetEntry
    <3>. QED
      BY <2>2, <3>1, <3>2, NothingIsNone DEF AnswersFor
  <2>. QED
    BY <2>3, <2>4
<1>9. ASSUME NEW t \in chosen \ new
      PROVE  t \in ChangeTargets \ gone /\ c.entries[t] # Nothing
  BY DEF KeptEntry, ListedTargets
<1>10. ASSUME NEW t \in ChangeTargets
       PROVE  /\ t \in new => EntryOf(t) = NewEntry(rest, t, versions)
              /\ t \in chosen \ new => EntryOf(t) = c.entries[t]
              /\ t \notin chosen => EntryOf(t) = Nothing
  BY <1>7, <1>9
<1>. HIDE DEF EntryOf
<1>11. /\ entries \in [ChangeTargets -> TargetEntry \cup {Nothing}]
       /\ \A t \in ChangeTargets : entries[t] = EntryOf(t)
  <2>1. ASSUME NEW t \in ChangeTargets PROVE EntryOf(t) \in TargetEntry \cup {Nothing}
    <3>1. CASE t \in new
      BY <1>8, <1>10, <3>1
    <3>2. CASE t \in chosen \ new
      BY <1>2, <1>10, <3>2 DEF ClientHolds, Client
    <3>3. CASE t \notin chosen
      BY <1>10, <3>3
    <3>. QED
      BY <3>1, <3>2, <3>3
  <2>. QED
    BY <2>1
<1>12. /\ cached \in [ChangeTargets -> CachedResult \cup {Nothing}]
       /\ \A t \in ChangeTargets : cached[t] = Nothing \/ cached[t] = c.cached[t]
  BY <1>7 DEF Client
<1>. HIDE DEF entries, cached, new, gone
<1>13. /\ d \in Client /\ d.entries = entries /\ d.cached = cached /\ d.slots = rest.slots
       /\ d.baseline = c.baseline /\ d.generation = c.generation
       /\ d.paused = c.paused /\ d.disposed = c.disposed
  BY <1>7, <1>11, <1>12 DEF Client
<1>. HIDE DEF d
<1>14. \A s \in RequestSlots : SlotHolds(d, s)
  BY <1>7, <1>13 DEF SlotHolds
<1>15. ASSUME NEW t \in ChangeTargets PROVE CachedHolds(d, t)
  BY <1>2, <1>12, <1>13 DEF ClientHolds, CachedHolds, AnswersFor
<1>16. ASSUME NEW t \in ChangeTargets PROVE EntryHolds(d, t)
  <2>1. CASE t \in new
    BY <1>2, <1>8, <1>10, <1>11, <1>13, <2>1 DEF EntryHolds
  <2>2. CASE t \in chosen \ new
    <3>1. d.entries[t] = c.entries[t] /\ t \in ChangeTargets \ gone /\ EntryHolds(c, t)
      BY <1>2, <1>9, <1>10, <1>11, <1>13, <2>2 DEF ClientHolds
    <3>. QED
      BY <1>7, <1>13, <3>1 DEF EntryHolds, AnswersFor, RequestIsOurs
  <2>3. CASE t \notin chosen
    BY <1>10, <1>11, <1>13, <2>3 DEF EntryHolds
  <2>. QED
    BY <2>1, <2>2, <2>3
<1>17. ClientHolds(d)
  BY <1>13, <1>14, <1>15, <1>16 DEF ClientHolds
<1>18. PauseHolds(d)
  <2> SUFFICES ASSUME c.paused, NEW t \in ChangeTargets, d.entries[t] # Nothing
               PROVE  d.entries[t].shown.status \notin {"queued", "loading"}
    BY <1>13 DEF PauseHolds, ListedTargets
  <2>1. CASE t \in new
    BY <1>8, <1>10, <1>11, <1>13, <2>1
  <2>2. CASE t \in chosen \ new
    BY <1>2, <1>9, <1>10, <1>11, <1>13, <2>2 DEF PauseHolds, ListedTargets
  <2>3. CASE t \notin chosen
    BY <1>10, <1>11, <1>13, <2>3
  <2>. QED
    BY <2>1, <2>2, <2>3
<1>. QED
  BY <1>1, <1>2, <1>5, <1>13, <1>17, <1>18, Reconciling DEF ClientInv

LEMMA SetReferenceTimeKeeps == ASSUME ClientInv, SetReferenceTime PROVE ClientInv'
<1>1. now \in Int /\ ClientHolds(client) /\ ~client.disposed /\ now' = now
  BY DEF ClientInv, SetReferenceTime
<1>2. PICK reference \in References :
        client' \in Reconciled(ResetContext([client EXCEPT !.reference = reference],
                                           BaselineAt(reference)))
  BY DEF SetReferenceTime
<1>. DEFINE d == [client EXCEPT !.reference = reference]
<1>3. reference \in Int
  BY ClientAssumption
<1>4. BaselineAt(reference) \in Int
  BY <1>1, <1>3, BaselineIsInt
<1>5. /\ d \in Client /\ d.entries = client.entries /\ d.cached = client.cached
      /\ d.slots = client.slots /\ d.baseline = client.baseline
      /\ d.generation = client.generation /\ d.paused = client.paused
      /\ d.disposed = client.disposed
  BY <1>1, <1>3 DEF ClientHolds, Client
<1>. HIDE DEF d
<1>6. ClientHolds(d)
  BY <1>1, <1>5 DEF ClientHolds, EntryHolds, CachedHolds, SlotHolds, AnswersFor, RequestIsOurs
<1>7. ClientHolds(ResetContext(d, BaselineAt(reference)))
      /\ PauseHolds(ResetContext(d, BaselineAt(reference)))
      /\ ~ResetContext(d, BaselineAt(reference)).disposed
  BY <1>1, <1>4, <1>5, <1>6, Resetting
<1>8. client' \in Reconciled(ResetContext(d, BaselineAt(reference)))
  BY <1>2 DEF d
<1>. DEFINE reset == ResetContext(d, BaselineAt(reference))
<1>. HIDE DEF reset
<1>9. /\ ClientHolds(reset) /\ PauseHolds(reset) /\ ~reset.disposed
      /\ client' \in Reconciled(reset)
  BY <1>7, <1>8 DEF reset
<1>. QED
  BY <1>1, <1>9, Reconciling DEF ClientInv

LEMMA SetPausedKeeps == ASSUME ClientInv, SetPaused PROVE ClientInv'
<1>1. now \in Int /\ ClientHolds(client) /\ ~client.disposed /\ now' = now
  BY DEF ClientInv, SetPaused
<1>. DEFINE paused == ~client.paused
            d == [client EXCEPT !.paused = paused]
            c == SynchronizeContext(d)
            waiting == {t \in ListedTargets(c) :
                          c.entries[t].request # Nothing \/ c.entries[t].shown.status = "queued"}
            emptied == EmptiedOf(c, waiting)
            final == IF c.paused THEN emptied ELSE c
<1>2. client' \in Reconciled(final)
  BY DEF SetPaused
<1>3. paused \in BOOLEAN
  OBVIOUS
<1>. HIDE DEF paused
<1>4. /\ d \in Client /\ d.entries = client.entries /\ d.cached = client.cached
      /\ d.slots = client.slots /\ d.baseline = client.baseline
      /\ d.generation = client.generation /\ d.disposed = client.disposed
  BY <1>1, <1>3 DEF ClientHolds, Client
<1>. HIDE DEF d
<1>5. ClientHolds(d)
  BY <1>1, <1>4 DEF ClientHolds, EntryHolds, CachedHolds, SlotHolds, AnswersFor, RequestIsOurs
<1>6. ClientHolds(c) /\ ~c.disposed
  BY <1>1, <1>4, <1>5, Synchronizing
<1>. HIDE DEF c
<1>7. waiting \in SUBSET ChangeTargets
  BY DEF ListedTargets
<1>8. ClientHolds(emptied) /\ ~emptied.disposed
  <2>1. ClientHolds(emptied)
    BY <1>6, <1>7, EmptyingHolds
  <2>2. emptied.disposed = c.disposed
    BY <1>6, <1>7, Emptying
  <2>. QED
    BY <1>6, <2>1, <2>2
<1>9. PauseHolds(emptied)
  <2> SUFFICES ASSUME NEW t \in ChangeTargets, emptied.entries[t] # Nothing
               PROVE  emptied.entries[t].shown.status \notin {"queued", "loading"}
    BY DEF PauseHolds, ListedTargets
  <2>1. CASE t \in waiting
    <3>1. emptied.entries[t].shown = ShownAs("idle")
      BY <1>6, <1>7, <2>1, Emptying
    <3>. QED
      BY <3>1, ShownAsHolds
  <2>2. CASE t \notin waiting
    <3>1. emptied.entries[t] = c.entries[t]
      BY <1>6, <1>7, <2>2, Emptying
    <3>2. c.entries[t].request = Nothing /\ c.entries[t].shown.status # "queued"
      BY <2>2, <3>1 DEF ListedTargets
    <3>. QED
      BY <1>6, <3>1, <3>2 DEF ClientHolds, EntryHolds
  <2>. QED
    BY <2>1, <2>2
<1>. HIDE DEF emptied
<1>10. ClientHolds(final) /\ PauseHolds(final) /\ ~final.disposed
  BY <1>6, <1>8, <1>9 DEF PauseHolds
<1>. HIDE DEF final
<1>. QED
  BY <1>1, <1>2, <1>10, Reconciling DEF ClientInv

LEMMA RefreshTickKeeps == ASSUME ClientInv, RefreshTick PROVE ClientInv'
  BY Reconciling DEF ClientInv, RefreshTick

LEMMA DisposeKeeps == ASSUME ClientInv, Dispose PROVE ClientInv'
<1>. DEFINE slots == [s \in RequestSlots |->
                        IF client.slots[s] = Nothing THEN Nothing
                        ELSE [client.slots[s] EXCEPT !.cancelled = TRUE]]
            none == [t \in ChangeTargets |-> Nothing]
<1>1. ClientHolds(client) /\ client \in Client /\ now' = now
      /\ client' = [client EXCEPT !.disposed = TRUE, !.slots = slots,
                                  !.entries = none, !.cached = none]
  BY DEF ClientInv, ClientHolds, Dispose
<1>2. ASSUME NEW s \in RequestSlots, client.slots[s] # Nothing
      PROVE  LET request == [client.slots[s] EXCEPT !.cancelled = TRUE] IN
             /\ request \in ActiveRequest
             /\ request.generation = client.slots[s].generation
             /\ request.baseline = client.slots[s].baseline
  <2>1. client.slots[s] \in ActiveRequest
    BY <1>1, <1>2 DEF Client
  <2>. QED
    BY <2>1 DEF ActiveRequest
<1>3. /\ slots \in [RequestSlots -> ActiveRequest \cup {Nothing}]
      /\ \A s \in RequestSlots : slots[s] = IF client.slots[s] = Nothing THEN Nothing
                                    ELSE [client.slots[s] EXCEPT !.cancelled = TRUE]
  BY <1>1, <1>2 DEF Client
<1>4. /\ none \in [ChangeTargets -> TargetEntry \cup {Nothing}]
      /\ none \in [ChangeTargets -> CachedResult \cup {Nothing}]
      /\ \A t \in ChangeTargets : none[t] = Nothing
  OBVIOUS
<1>. HIDE DEF slots, none
<1>5. /\ client' \in Client /\ client'.slots = slots /\ client'.entries = none
      /\ client'.cached = none /\ client'.generation = client.generation
      /\ client'.baseline = client.baseline
  BY <1>1, <1>3, <1>4 DEF Client
<1>6. ASSUME NEW s \in RequestSlots PROVE SlotHolds(client', s)
  <2>1. SlotHolds(client, s)
    BY <1>1 DEF ClientHolds
  <2>2. CASE client.slots[s] = Nothing
    BY <1>3, <1>5, <2>2 DEF SlotHolds
  <2>3. CASE client.slots[s] # Nothing
    BY <1>2, <1>3, <1>5, <2>1, <2>3 DEF SlotHolds
  <2>. QED
    BY <2>2, <2>3
<1>7. ClientHolds(client') /\ PauseHolds(client') /\ SlotsAreUsed(client')
  BY <1>4, <1>5, <1>6
     DEF ClientHolds, EntryHolds, CachedHolds, PauseHolds, SlotsAreUsed, ListedTargets
<1>. QED
  BY <1>1, <1>7 DEF ClientInv

(* Only the answer to the very question that was asked is said. *)
LEMMA ResponseHolds ==
  ASSUME now \in Int, NEW request \in ActiveRequest, NEW answer \in ServerAnswers \cup {Nothing}
  PROVE  LET said == ResponseState(request, answer) IN
         /\ said \in Shown /\ said.status \notin {"queued", "loading"}
         /\ AnswersFor(said, request.version, request.baseline)
<1>1. ShownAs("error") \in Shown /\ ShownAs("error").status = "error" /\ ShownAs("error").data = Nothing
      /\ ShownAs("stale") \in Shown /\ ShownAs("stale").status = "stale"
      /\ ShownAs("stale").data = Nothing
  BY ShownAsHolds
<1>. DEFINE IsRefused == \/ answer = Nothing
                       \/ answer.version # request.version
                       \/ answer.baseline # request.baseline
                       \/ answer.at > now \/ answer.at < request.baseline - 1
            data == [version |-> answer.version, baseline |-> answer.baseline, at |-> answer.at]
            ready == [status |-> "ready", data |-> data]
<1>2. CASE IsRefused
  BY <1>1, <1>2 DEF ResponseState, AnswersFor
<1>3. CASE ~IsRefused /\ now - answer.at > MaxChangeAge
  BY <1>1, <1>3 DEF ResponseState, AnswersFor
<1>4. CASE ~IsRefused /\ ~(now - answer.at > MaxChangeAge)
  <2>1. ResponseState(request, answer) = ready
    BY <1>4 DEF ResponseState
  <2>2. answer.version \in TargetVersions /\ answer.at \in Int /\ answer.baseline \in Int
        /\ answer.version = request.version /\ answer.baseline = request.baseline
    BY <1>4 DEF ServerAnswers, ActiveRequest
  <2>3. data \in Change
    BY <2>2 DEF Change
  <2>4. data.version = request.version /\ data.baseline = request.baseline
    BY <2>2
  <2>. HIDE DEF data
  <2>5. ready \in Shown
    BY <2>3 DEF Shown
  <2>. QED
    BY <2>1, <2>4, <2>5 DEF AnswersFor
<1>. QED
  BY <1>2, <1>3, <1>4

(* A slot is free again, and the entry whose request it was waits for nothing. *)
LEMMA Releasing ==
  ASSUME now \in Int, NEW c, ClientHolds(c), PauseHolds(c), NEW s \in RequestSlots,
         c.slots[s] # Nothing, NEW answer \in ServerAnswers \cup {Nothing}
  PROVE  LET d == ReleasedSlot(SettledEntry(c, s, answer), s) IN
         ClientHolds(d) /\ PauseHolds(d) /\ d.disposed = c.disposed
<1>. DEFINE request == c.slots[s]
            t0 == request.target
            said == ResponseState(request, answer)
            next == now + 1
            entry == [c.entries[t0] EXCEPT !.next = next, !.shown = said]
            kept == [version |-> request.version, shown |-> said, next |-> next]
            settled == SettledEntry(c, s, answer)
            current == IsCurrent(c, s)
<1>1. /\ c \in Client /\ request \in ActiveRequest /\ t0 \in ChangeTargets
      /\ request.version \in TargetVersions
  BY DEF ClientHolds, Client, ActiveRequest
<1>2. said \in Shown /\ said.status \notin {"queued", "loading"}
      /\ AnswersFor(said, request.version, request.baseline)
  BY <1>1, ResponseHolds
<1>3. next \in Int
  OBVIOUS
<1>4. settled = IF ~current THEN c
                ELSE [c EXCEPT !.entries = [c.entries EXCEPT ![t0] = entry],
                               !.cached = [c.cached EXCEPT ![t0] = kept]]
  BY DEF SettledEntry
<1>5. current => /\ c.entries[t0] # Nothing /\ c.entries[t0] \in TargetEntry
                 /\ c.entries[t0].request = s /\ ~c.paused /\ ~c.disposed
                 /\ request.generation = c.generation
  BY <1>1 DEF IsCurrent, Client
<1>6. current => request.baseline = c.baseline /\ c.entries[t0].version = request.version
  BY <1>1, <1>5, NothingIsNone
     DEF ClientHolds, SlotHolds, EntryHolds, RequestIsOurs
<1>. HIDE DEF said, next
<1>7. current => /\ entry \in TargetEntry /\ entry # Nothing /\ entry.shown = said
                 /\ entry.version = request.version /\ entry.request = s
  <2>1. current => /\ entry \in TargetEntry /\ entry.shown = said
                   /\ entry.version = request.version /\ entry.request = s
    BY <1>2, <1>3, <1>5, <1>6 DEF TargetEntry
  <2>. QED
    BY <2>1, NothingIsNone
<1>8. kept \in CachedResult /\ kept.version = request.version /\ kept.shown = said
  BY <1>1, <1>2, <1>3 DEF CachedResult
<1>. HIDE DEF entry, kept
<1>. DEFINE entries == [c.entries EXCEPT ![t0] = entry]
            cached == [c.cached EXCEPT ![t0] = kept]
<1>9. current => /\ entries \in [ChangeTargets -> TargetEntry \cup {Nothing}]
                 /\ cached \in [ChangeTargets -> CachedResult \cup {Nothing}]
                 /\ \A t \in ChangeTargets : /\ entries[t] = IF t = t0 THEN entry ELSE c.entries[t]
                                           /\ cached[t] = IF t = t0 THEN kept ELSE c.cached[t]
  BY <1>1, <1>7, <1>8 DEF Client
<1>. HIDE DEF entries, cached, t0, request
<1>10. /\ settled \in Client /\ settled.slots = c.slots
       /\ settled.baseline = c.baseline /\ settled.generation = c.generation
       /\ settled.paused = c.paused /\ settled.disposed = c.disposed
       /\ settled.entries = IF current THEN entries ELSE c.entries
       /\ settled.cached = IF current THEN cached ELSE c.cached
  <2>1. CASE current
    <3>1. settled = [c EXCEPT !.entries = entries, !.cached = cached]
      BY <1>4, <2>1 DEF entries, cached
    <3>. HIDE DEF settled, current
    <3>. QED
      BY <1>1, <1>9, <2>1, <3>1 DEF Client
  <2>2. CASE ~current
    BY <1>1, <1>4, <2>2
  <2>. QED
    BY <2>1, <2>2
<1>. HIDE DEF settled, current
<1>. DEFINE Freed(t) == t \in ListedTargets(settled) /\ settled.entries[t].request = s
            slots == [c.slots EXCEPT ![s] = Nothing]
            freed == [t \in ChangeTargets |->
                        IF Freed(t) THEN [settled.entries[t] EXCEPT !.request = Nothing]
                        ELSE settled.entries[t]]
            d == [settled EXCEPT !.slots = slots, !.entries = freed]
<1>11. ReleasedSlot(settled, s) = d
  BY <1>10 DEF ReleasedSlot
<1>12. ASSUME NEW t \in ChangeTargets, settled.entries[t] # Nothing
       PROVE  LET e == [settled.entries[t] EXCEPT !.request = Nothing] IN
              /\ e \in TargetEntry /\ e # Nothing /\ e.request = Nothing
              /\ e.version = settled.entries[t].version /\ e.shown = settled.entries[t].shown
  <2>1. settled.entries[t] \in TargetEntry
    BY <1>10, <1>12 DEF Client
  <2>2. LET e == [settled.entries[t] EXCEPT !.request = Nothing] IN
        /\ e \in TargetEntry /\ e.request = Nothing
        /\ e.version = settled.entries[t].version /\ e.shown = settled.entries[t].shown
    BY <2>1 DEF TargetEntry
  <2>. QED
    BY <2>2, NothingIsNone
<1>13. /\ freed \in [ChangeTargets -> TargetEntry \cup {Nothing}]
       /\ \A t \in ChangeTargets :
            freed[t] = IF Freed(t) THEN [settled.entries[t] EXCEPT !.request = Nothing]
                       ELSE settled.entries[t]
  BY <1>10, <1>12 DEF Client, ListedTargets
<1>14. /\ slots \in [RequestSlots -> ActiveRequest \cup {Nothing}]
       /\ \A u \in RequestSlots : slots[u] = IF u = s THEN Nothing ELSE c.slots[u]
  BY <1>1 DEF Client
<1>. HIDE DEF freed, slots
<1>15. /\ d \in Client /\ d.entries = freed /\ d.slots = slots /\ d.cached = settled.cached
       /\ d.baseline = c.baseline /\ d.generation = c.generation
       /\ d.paused = c.paused /\ d.disposed = c.disposed
  BY <1>10, <1>13, <1>14 DEF Client
<1>. HIDE DEF d
<1>16. \A u \in RequestSlots : SlotHolds(d, u)
  BY <1>14, <1>15 DEF ClientHolds, SlotHolds
<1>17. ASSUME NEW t \in ChangeTargets PROVE CachedHolds(d, t)
  <2>1. CachedHolds(c, t)
    BY DEF ClientHolds
  <2>2. CASE current /\ t = t0
    BY <1>2, <1>6, <1>8, <1>9, <1>10, <1>15, <2>2 DEF CachedHolds
  <2>3. CASE ~(current /\ t = t0)
    BY <1>9, <1>10, <1>15, <2>1, <2>3 DEF CachedHolds, AnswersFor
  <2>. QED
    BY <2>2, <2>3
<1>18. ASSUME NEW t \in ChangeTargets, c.entries[t] # Nothing, c.entries[t].request = s
       PROVE  current /\ t = t0
  <2>1. EntryHolds(c, t) /\ s # Nothing
    BY NothingIsNone DEF ClientHolds
  <2>2. RequestIsOurs(c, t, s) /\ ~c.disposed /\ c.entries[t].shown.status = "loading"
    BY <1>18, <2>1 DEF EntryHolds
  <2>3. ~c.paused
    BY <1>18, <2>2 DEF PauseHolds, ListedTargets
  <2>. QED
    BY <1>18, <2>2, <2>3 DEF current, IsCurrent, RequestIsOurs, t0, request
<1>19. ASSUME NEW t \in ChangeTargets
       PROVE  /\ EntryHolds(d, t)
              /\ c.paused /\ d.entries[t] # Nothing =>
                   d.entries[t].shown.status \notin {"queued", "loading"}
  <2>1. EntryHolds(c, t)
    BY DEF ClientHolds
  <2>2. CASE current /\ t = t0
    <3>1. settled.entries[t] = entry
      BY <1>9, <1>10, <2>2
    <3>2. Freed(t)
      BY <1>7, <2>2, <3>1 DEF ListedTargets
    <3>3. /\ d.entries[t].request = Nothing /\ d.entries[t].shown = said
          /\ d.entries[t].version = request.version
      BY <1>7, <1>12, <1>13, <1>15, <2>2, <3>1, <3>2
    <3>. QED
      BY <1>2, <1>5, <1>6, <1>15, <2>2, <3>3 DEF EntryHolds
  <2>3. CASE ~(current /\ t = t0)
    <3>1. settled.entries[t] = c.entries[t]
      BY <1>9, <1>10, <2>3
    <3>2. ~Freed(t)
      BY <1>18, <2>3, <3>1 DEF ListedTargets
    <3>3. d.entries[t] = c.entries[t]
      BY <1>13, <1>15, <3>1, <3>2
    <3>4. ASSUME c.entries[t] # Nothing, c.entries[t].request # Nothing
          PROVE  d.slots[c.entries[t].request] = c.slots[c.entries[t].request]
      <4>1. c.entries[t].request \in RequestSlots /\ c.entries[t].request # s
        BY <1>1, <1>18, <2>3, <3>4 DEF Client, TargetEntry
      <4>. QED
        BY <1>14, <1>15, <4>1
    <3>. QED
      BY <1>15, <2>1, <3>3, <3>4 DEF EntryHolds, AnswersFor, RequestIsOurs, PauseHolds, ListedTargets
  <2>. QED
    BY <2>2, <2>3
<1>20. ClientHolds(d) /\ PauseHolds(d)
  BY <1>15, <1>16, <1>17, <1>19 DEF ClientHolds, PauseHolds, ListedTargets
<1>. QED
  BY <1>11, <1>15, <1>20 DEF settled

LEMMA ResetKeepsSlots ==
  ASSUME NEW c, ClientHolds(c), NEW baseline \in Int, NEW s \in RequestSlots, c.slots[s] # Nothing
  PROVE  ResetContext(c, baseline).slots[s] # Nothing
<1>. DEFINE freed == CancelledFor(c, ChangeTargets)
<1>1. freed \in Client /\ freed.slots[s] # Nothing
  BY Cancelling
<1>. HIDE DEF freed
<1>2. EmptiedOf(c, ChangeTargets).slots = freed.slots
  BY <1>1 DEF EmptiedOf, freed, Client
<1>3. ResetContext(c, baseline).slots = freed.slots
  BY <1>2 DEF ResetContext
<1>. QED
  BY <1>1, <1>3

LEMMA EndLoadKeeps == ASSUME ClientInv, NEW s \in RequestSlots, EndLoad(s) PROVE ClientInv'
<1>1. /\ now \in Int /\ ClientHolds(client) /\ PauseHolds(client) /\ SlotsAreUsed(client)
      /\ now' = now /\ client.slots[s] # Nothing
  BY DEF ClientInv, EndLoad
<1>. DEFINE c == IF client.disposed THEN client ELSE SynchronizeContext(client)
<1>2. PICK answer \in ServerAnswers \cup {Nothing} :
        LET done == ReleasedSlot(SettledEntry(c, s, answer), s)
        IN  client' \in IF done.disposed THEN {done} ELSE Reconciled(done)
  BY DEF EndLoad
<1>3. ClientHolds(c) /\ PauseHolds(c) /\ c.disposed = client.disposed
  BY <1>1, Synchronizing
<1>4. c.slots[s] # Nothing
  <2>1. CASE c = client
    BY <1>1, <2>1
  <2>2. CASE c # client
    <3>1. c = ResetContext(client, BaselineAt(client.reference))
      BY <2>2 DEF SynchronizeContext
    <3>. QED
      <4>1. client.reference \in Int
        BY <1>1 DEF ClientHolds, Client
      <4>2. BaselineAt(client.reference) \in Int
        BY <1>1, <4>1, BaselineIsInt
      <4>. QED
        BY <1>1, <3>1, <4>2, ResetKeepsSlots
  <2>. QED
    BY <2>1, <2>2
<1>. HIDE DEF c
<1>. DEFINE done == ReleasedSlot(SettledEntry(c, s, answer), s)
<1>5. ClientHolds(done) /\ PauseHolds(done) /\ done.disposed = client.disposed
  BY <1>1, <1>3, <1>4, Releasing
<1>6. client' \in IF done.disposed THEN {done} ELSE Reconciled(done)
  BY <1>2
<1>. HIDE DEF done
<1>7. CASE done.disposed
  <2>1. client' = done
    BY <1>6, <1>7
  <2>2. SlotsAreUsed(done)
    BY <1>5, <1>7 DEF ClientHolds, EntryHolds, SlotsAreUsed, ListedTargets
  <2>. QED
    BY <1>1, <1>5, <2>1, <2>2 DEF ClientInv
<1>8. CASE ~done.disposed
  BY <1>1, <1>5, <1>6, <1>8, Reconciling DEF ClientInv
<1>. QED
  BY <1>7, <1>8

LEMMA ClientStepKeeps == ClientInv /\ [ClientNext]_clientVars => ClientInv'
<1> SUFFICES ASSUME ClientInv, [ClientNext]_clientVars PROVE ClientInv'
  OBVIOUS
<1>1. CASE ClientTick
  BY <1>1 DEF ClientTick, ClientInv
<1>2. CASE UNCHANGED clientVars
  BY <1>2 DEF clientVars, ClientInv
<1>. QED
  BY <1>1, <1>2, SetTargetsKeeps, SetReferenceTimeKeeps, RefreshTickKeeps, SetPausedKeeps,
     DisposeKeeps, EndLoadKeeps DEF ClientNext

-----------------------------------------------------------------------------
(***************************************************************************)
(* Side by side: each component's invariant holds, whoever moves.          *)
(***************************************************************************)

LEMMA FilesStepIsTheirs ==
  ASSUME [FilesNext]_filesVars
  PROVE  /\ [ArtifactNext]_artifactVars /\ [ActivityNext]_activityVars
         /\ [ChartNext]_chartVars /\ [ClientNext]_clientVars /\ [ServiceNext]_serviceVars
         /\ [WorkspaceNext]_workspaceVars /\ [NotesNext]_noteVars
  BY DEF FilesNext, filesVars

(* No reader is given files of two selections, what the service state lists can be read,  *)
(* and an unreadable activity file is never replaced without a backup: Artifacts and      *)
(* ActivityPublication.                                                                   *)
THEOREM BundlesStayWhole == FilesSpec => []BundlesHold
<1>1. FilesInit => ArtifactInv /\ ActivityInv /\ ActivityBounded
  BY ArtifactInitHolds, ActivityInitHolds, BoundedInitHolds DEF FilesInit
<1>2. ArtifactInv /\ ActivityInv /\ ActivityBounded /\ [FilesNext]_filesVars
        => ArtifactInv' /\ ActivityInv' /\ ActivityBounded'
  BY FilesStepIsTheirs, ArtifactStepKeeps, ActivityNextKeeps, ActivityStaysBounded
<1>3. ArtifactInv /\ ActivityInv /\ ActivityBounded => BundlesHold
  BY ArtifactInvSays, BoundedSays DEF ActivityInv, BundlesHold
<1>. QED
  BY <1>1, <1>2, <1>3, PTL DEF FilesSpec

(* Whoever waits for a shared load waits for one that is under way and its limits hold,  *)
(* no target waits beside a free slot, and what a page shows answers for what it is       *)
(* shown under: ChartHistory, PriceChangeClient and PriceChangeService.                   *)
THEOREM WebStaysSound == FilesSpec => []WebHolds
<1>1. FilesInit => ChartInv /\ ClientInv /\ ServiceInv
  BY ChartInitHolds, ClientInitHolds, ServiceInitHolds DEF FilesInit
<1>2. ChartInv /\ ClientInv /\ ServiceInv /\ [FilesNext]_filesVars
        => ChartInv' /\ ClientInv' /\ ServiceInv'
  BY FilesStepIsTheirs, ChartStepKeeps, ClientStepKeeps, ServiceStepKeeps
<1>3. ChartInv /\ ClientInv /\ ServiceInv => WebHolds
  BY ChartInvSays, ClientInvSays DEF ServiceInv, WebHolds
<1>. QED
  BY <1>1, <1>2, <1>3, PTL DEF FilesSpec

(* What was read before others wrote never takes the place of what they wrote: chart      *)
(* pages, baselines, favorites and views, notes and the texts being typed.                *)
THEOREM StaleStaysOut == FilesSpec => StaleNeverWins
<1>1. FilesInit => ChartInv /\ ServiceInv /\ WorkspaceInv /\ NotesInv
  BY ChartInitHolds, ServiceInitHolds, WorkspaceInitHolds, NotesInitHolds DEF FilesInit
<1>2. ChartInv /\ ServiceInv /\ WorkspaceInv /\ NotesInv /\ [FilesNext]_filesVars
        => ChartInv' /\ ServiceInv' /\ WorkspaceInv' /\ NotesInv'
  BY FilesStepIsTheirs, ChartStepKeeps, ServiceStepKeeps, WorkspaceStepKeeps, NotesStepKeeps
<1>3. ChartInv /\ ServiceInv /\ [FilesNext]_filesVars
        => [KeepsCurrent]_chartVars /\ [SteadyBaseline]_serviceVars
  BY FilesStepIsTheirs, CurrentSteps, BaselineSteps
<1>4. WorkspaceInv /\ [FilesNext]_filesVars
        => [OnlySeen]_workspaceVars /\ [LastClick]_workspaceVars
  BY FilesStepIsTheirs, OnlySeenSteps, LastClickSteps
<1>5. NotesInv /\ [FilesNext]_filesVars => [KeepsNotes]_noteVars /\ [KeepsDrafts]_noteVars
  BY FilesStepIsTheirs, NotesSteps, DraftSteps
<1>. QED
  BY <1>1, <1>2, <1>3, <1>4, <1>5, PTL
     DEF FilesSpec, StaleNeverWins, PagesAreCurrent, BaselineIsSteady, OnlySeenIsReplaced,
         LastClickWins, NotesAreKept, DraftsAreKept, KeepsCurrent, SteadyBaseline, OnlySeen,
         LastClick, KeepsNotes, KeepsDrafts
=============================================================================
