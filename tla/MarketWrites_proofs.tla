------------------------- MODULE MarketWrites_proofs -------------------------
(***************************************************************************)
(* WritesHold of MarketWrites for every number of instruments, venues,     *)
(* versions, answers, refreshes, failures and restarts.  It is not         *)
(* inductive.                                                              *)
(*                                                                         *)
(* That no row mixes two versions follows from what the writers have at    *)
(* hand while they hold the lock being of the version that memory knows    *)
(* (CycleHeld, FlushHeld), and from (instrument, start) naming one version *)
(* for good (VersionIsSingle).                                             *)
(*                                                                         *)
(* That the newest answer reaches the rows follows from "dirty" and        *)
(* "published" saying of every answer in the cache whether it was written  *)
(* (PublishedHeld), of the rows what was written of it (RowsTold), and of  *)
(* a version that a refresh has yet to publish that no answer can be for   *)
(* it (NoneAhead).                                                         *)
(***************************************************************************)
EXTENDS MarketWrites, CatalogRefresh_proofs

\* There is a version of i with this start and definition.
Versioned(i, from, terms) ==
  \E v \in versions : v.instrument = i /\ v.from = from /\ v.terms = terms

OfVersion(i, s) == Versioned(i, s.version, s.terms)

\* The version of i that began at from is the current one, and active.
Open(i, from) == \E v \in CurrentActive : v.instrument = i /\ v.from = from

\* The answer is valid by now.
Alive(s) == s.good /\ clock < s.until

Cycle ==
  [step: {"idle", "fetch", "waiting", "store"}, at: Nat \cup {None}, seen: Listing,
   batch: [Instrument -> Observation \cup {None}]]

\* What the current version of an instrument says once the refresh has committed its venue.
DoneIsCurrent ==
  \A i \in Instrument :
    VenueOf[i] \in refresh.done =>
      {r.terms : r \in Current(i)} = {refresh.seen[i]} \ {None}

\* The version ids of memory are those of its definitions.
IdsHeld ==
  \A i \in Instrument : ids[i] # None =>
    /\ VenueOf[i] = Mexc /\ catalogs[i] \in ActiveTerms
    /\ Versioned(i, ids[i], catalogs[i])

\* An answer is for a version of an instrument of MEXC.
SnapshotsHeld ==
  \A i \in Instrument : snapshots[i] # None =>
    VenueOf[i] = Mexc /\ OfVersion(i, snapshots[i])

\* While the version that an answer is for is the current one, memory knows it.
NoneAhead ==
  \A i \in Instrument :
    snapshots[i] # None /\ Open(i, snapshots[i].version) => ids[i] = snapshots[i].version

\* What is not dirty has been written, as unusable only if it was.
PublishedHeld ==
  \A i \in Instrument : snapshots[i] # None /\ i \notin dirty =>
    published[i].usable \/ ~Alive(snapshots[i])

\* What a cycle is about to write of an instrument whose version memory knows.
JoinHeld(i, o) ==
  /\ o.usable => /\ o.snapshot # None /\ o.snapshot.good
                 /\ o.snapshot.version = ids[i] /\ OfVersion(i, o.snapshot)
  /\ o.status = "ready" => o.usable
  /\ \/ i \in dirty \/ snapshots[i] = None
     \/ /\ o.snapshot = snapshots[i]
        /\ snapshots[i].version = ids[i] => o.usable \/ ~Alive(snapshots[i])
        /\ published[i].usable \/ ~o.usable

CycleHeld ==
  /\ cycle \in Cycle
  /\ cycle.step # "idle" => cycle.at \in Nat
  /\ \A i \in Instrument : cycle.batch[i] # None =>
       /\ VenueOf[i] # Mexc => ~cycle.batch[i].usable
       /\ cycle.step = "store" /\ VenueOf[i] = Mexc /\ ids[i] # None => JoinHeld(i, cycle.batch[i])

\* What a flush is about to write.
FlushHeld ==
  \A i \in Instrument : flush[i] # None =>
    /\ VenueOf[i] = Mexc
    /\ flush[i].snapshot.version = ids[i] /\ OfVersion(i, flush[i].snapshot)
    /\ flush[i].usable => flush[i].snapshot # None /\ flush[i].snapshot.good
    /\ flush[i].usable \/ ~Alive(flush[i].snapshot)
    /\ i \in dirty \/ snapshots[i] = None \/ snapshots[i] = flush[i].snapshot

\* RowsOfOneVersion, without the choice.
RowHeld(row) ==
  /\ \E v \in versions :
       /\ v.instrument = row.instrument /\ v.from = row.version
       /\ row.funding # None =>
            /\ row.funding.version = row.version
            /\ row.funding.terms = v.terms
            /\ row.funding.id \in raw
       /\ row.terms # None /\ VenueOf[row.instrument] = Mexc =>
            Multiplier[row.terms] = Multiplier[v.terms]
  /\ VenueOf[row.instrument] = Mexc /\ row.status = "ready" => row.funding # None

\* The answer in the cache has been written to the row that is agreed on.
Told(row) ==
  LET i == row.instrument
  IN  Agreed(row) /\ snapshots[i] # None /\ snapshots[i].version = ids[i] /\ i \notin dirty =>
        /\ published[i].usable /\ Alive(snapshots[i]) =>
             \/ row.funding = snapshots[i]
             \/ row.funding = None /\ row.status = "unavailable"
        /\ ~published[i].usable => row.funding = None

RowsTold == \A row \in latest : Told(row)

RowsHeld ==
  /\ \A row \in latest \cup minutes : RowHeld(row)
  /\ latest \subseteq minutes

MemoryHeld ==
  /\ DoneIsCurrent /\ IdsHeld /\ SnapshotsHeld /\ NoneAhead /\ PublishedHeld
  /\ CycleHeld /\ FlushHeld

WInv == IInv /\ RefreshHeld /\ TypeOK /\ MemoryHeld /\ RowsHeld /\ RowsTold

----------------------------------------------------------------------------
(* The versions *)

\* An instrument and a start name one version.
LEMMA VersionIsSingle ==
  ASSUME IInv, NEW r \in versions, NEW s \in versions,
         r.instrument = s.instrument, r.from = s.from
  PROVE  r = s
<1>1. r.from \in Nat /\ s.to \in Nat \cup {None} /\ r.to \in Nat \cup {None}
  BY DEF IInv, Typed, Version
<1>2. r.to = None \/ r.from < r.to
  BY DEF IInv, VersionsDisjoint
<1>3. r # s => r.to # None /\ r.to <= s.from
  BY <1>1 DEF IInv, VersionsDisjoint
<1>4. QED
  BY <1>1, <1>2, <1>3

\* What a commit opens begins later than every other version of the instrument.
LEMMA OpensLater ==
  ASSUME IInv, Fetched, NEW v \in Venue, Later(v), NEW i \in Changed(v),
         NEW r \in versions, r.instrument = i
  PROVE  r.from < refresh.at
<1>1. r.from \in Nat /\ r.to \in Nat \cup {None} /\ refresh.at \in Nat
  BY DEF IInv, Typed, Version, Refresh
<1>2. r.from <= refresh.at /\ (r.to # None => r.to <= refresh.at)
  BY DEF IInv, NotAhead
<1>3. CASE r.to = None
  BY <1>1, <1>3 DEF Later, Current
<1>4. CASE r.to # None
  BY <1>1, <1>2, <1>4 DEF IInv, VersionsDisjoint
<1>5. QED
  BY <1>3, <1>4

\* What the table knows becomes current only when it is opened.
OpenStays ==
  \A i \in Instrument, from \in Nat :
    (\E v \in versions : v.instrument = i /\ v.from = from) /\ Open(i, from)' => Open(i, from)

Moves == Carried /\ OpenStays

LEMMA PersistMoves ==
  ASSUME IInv, Fetched, NEW v \in Venue, Later(v), versions' = Persisted(v)
  PROVE  Moves
<1>1. Typed
  BY DEF IInv
<1>2. Carried
  BY <1>1, PersistedCarries DEF Carried
<1>3. ASSUME NEW i \in Instrument, NEW from \in Nat, NEW r \in versions,
             r.instrument = i, r.from = from, Open(i, from)'
      PROVE  Open(i, from)
  <2>1. PICK q \in versions' :
          q.to = None /\ q.terms \in ActiveTerms /\ q.instrument = i /\ q.from = from
    BY <1>3 DEF Open, CurrentActive
  <2>2. q \in Current(i)'
    BY <2>1 DEF Current
  <2>3. i \notin Changed(v)
    <3>1. i \in Changed(v) => q.from = refresh.at
      BY <1>1, <2>2, CommitCurrent
    <3>2. i \in Changed(v) => r.from < refresh.at
      BY <1>3, OpensLater
    <3>3. refresh.at \in Nat
      BY <1>1 DEF Typed, Refresh
    <3>4. QED
      BY <1>3, <2>1, <3>1, <3>2, <3>3
  <2>4. q \in Current(i)
    BY <1>1, <2>2, <2>3, CommitCurrent
  <2>5. QED
    BY <2>1, <2>4 DEF Open, CurrentActive, Current
<1>4. QED
  BY <1>2, <1>3 DEF Moves, OpenStays

LEMMA SameMoves ==
  ASSUME versions' = versions
  PROVE  Moves
  BY DEF Moves, Carried, OpenStays, Open, CurrentActive

LEMMA VersionedMoves ==
  ASSUME Carried, NEW i, NEW from, NEW terms, Versioned(i, from, terms)
  PROVE  Versioned(i, from, terms)'
  BY DEF Versioned, Carried

----------------------------------------------------------------------------
(* The refresh *)

\* A step of the refresh moves the table on and says of the venues that it has done what is there.
LEMMA RefreshMoves ==
  ASSUME IInv, DoneIsCurrent, RefreshStep
  PROVE  Moves /\ DoneIsCurrent'
<1>1. refresh \in Refresh /\ Typed
  BY DEF IInv, Typed
<1>2. Idle.done = {}
  BY DEF Idle
<1>3. CASE Begin \/ Fetch \/ Enter \/ RecordRun \/ LoadFails \/ Publish
             \/ \E v \in Venue : RejectVenue(v)
  <2>1. versions' = versions
    BY <1>3 DEF Begin, Fetch, Enter, RecordRun, LoadFails, Publish, RejectVenue
  <2>2. refresh'.done = {} \/ (refresh'.done = refresh.done /\ refresh'.seen = refresh.seen)
    BY <1>1, <1>2, <1>3
       DEF Begin, Fetch, Enter, RecordRun, LoadFails, Publish, RejectVenue, Refresh
  <2>3. DoneIsCurrent'
    BY <2>1, <2>2 DEF DoneIsCurrent, Current
  <2>4. QED
    BY <2>1, <2>3, SameMoves
<1>4. ASSUME NEW v \in Venue, PersistVenue(v) PROVE Moves /\ DoneIsCurrent'
  <2>1. /\ versions' = Persisted(v) /\ Later(v) /\ Fetched
        /\ refresh'.done = refresh.done \cup {v} /\ refresh'.seen = refresh.seen
    BY <1>1, <1>4 DEF PersistVenue, Fetched, Refresh
  <2>2. Moves
    BY <2>1, PersistMoves
  <2>3. ASSUME NEW i \in Instrument, VenueOf[i] \in refresh.done \cup {v}
        PROVE  {r.terms : r \in Current(i)'} = {refresh.seen[i]} \ {None}
    <3>1. CASE i \in Changed(v)
      <4> DEFINE new ==
            [instrument |-> i, terms |-> refresh.seen[i], from |-> refresh.at, to |-> None]
      <4>1. Current(i)' = IF refresh.seen[i] = None THEN {} ELSE {new}
        BY <1>1, <2>1, <3>1, CommitCurrent
      <4>2. new.terms = refresh.seen[i]
        OBVIOUS
      <4> HIDE DEF new
      <4>3. QED
        BY <4>1, <4>2
    <3>2. CASE i \notin Changed(v)
      <4>1. Current(i)' = Current(i)
        BY <1>1, <2>1, <3>2, CommitCurrent
      <4>2. QED
        BY <2>3, <3>2, <4>1 DEF Changed, DoneIsCurrent
    <3>3. QED
      BY <3>1, <3>2
  <2>4. DoneIsCurrent'
    BY <2>1, <2>3 DEF DoneIsCurrent
  <2>5. QED
    BY <2>2, <2>4
<1>5. CASE ConnectionLost
  <2>1. DoneIsCurrent'
    BY <1>2, <1>5 DEF ConnectionLost, DoneIsCurrent
  <2>2. CASE versions' = versions
    BY <2>1, <2>2, SameMoves
  <2>3. ASSUME NEW v \in refresh.todo, Later(v), versions' = Persisted(v) PROVE Moves
    BY <1>1, <1>5, <2>3, PersistMoves DEF ConnectionLost, Fetched, Refresh
  <2>4. QED
    BY <1>5, <2>1, <2>2, <2>3 DEF ConnectionLost
<1>6. QED
  BY <1>3, <1>4, <1>5 DEF RefreshStep, RefreshWorks, RefreshFails

----------------------------------------------------------------------------
(* What does not write *)

\* Time passes, and answers are dropped.
Fades ==
  /\ \A i \in Instrument : snapshots'[i] = snapshots[i] \/ snapshots'[i] = None
  /\ clock' \in Nat /\ clock' >= clock

LEMMA AliveFades ==
  ASSUME clock \in Nat, Fades, NEW s \in Snapshot, Alive(s)'
  PROVE  Alive(s)
  BY DEF Alive, Fades, Snapshot

LEMMA AnswersKeep ==
  ASSUME TypeOK, IdsHeld, SnapshotsHeld, NoneAhead, PublishedHeld,
         Moves, Fades, UNCHANGED <<ids, catalogs, dirty, published>>
  PROVE  IdsHeld' /\ SnapshotsHeld' /\ NoneAhead' /\ PublishedHeld'
<1>1. clock \in Nat /\ snapshots \in [Instrument -> Snapshot \cup {None}]
  BY DEF TypeOK, CatalogTypeOK
<1>2. Carried
  BY DEF Moves
<1>3. IdsHeld'
  BY <1>2, VersionedMoves DEF IdsHeld
<1>4. ASSUME NEW i \in Instrument, snapshots'[i] # None
      PROVE  /\ snapshots'[i] = snapshots[i] /\ snapshots[i] \in Snapshot /\ VenueOf[i] = Mexc
             /\ Versioned(i, snapshots[i].version, snapshots[i].terms)
             /\ snapshots[i].version \in Nat
  BY <1>1, <1>4 DEF Fades, SnapshotsHeld, OfVersion, Snapshot
<1>5. SnapshotsHeld'
  BY <1>2, <1>4, VersionedMoves DEF SnapshotsHeld, OfVersion
<1>6. NoneAhead'
  <2> SUFFICES ASSUME NEW i \in Instrument, snapshots'[i] # None, NEW v \in CurrentActive',
                      v.instrument = i, v.from = snapshots'[i].version
               PROVE  ids[i] = snapshots'[i].version
    BY DEF NoneAhead, Open
  <2>1. Open(i, v.from)' /\ v.from = snapshots[i].version
    BY <1>4 DEF Open
  <2>2. Open(i, v.from)
    BY <1>4, <2>1 DEF Moves, OpenStays, Versioned
  <2>3. QED
    BY <1>4, <2>1, <2>2 DEF NoneAhead
<1>7. PublishedHeld'
  BY <1>1, <1>4, AliveFades DEF PublishedHeld
<1>8. QED
  BY <1>3, <1>5, <1>6, <1>7

LEMMA FlushKeeps ==
  ASSUME TypeOK, FlushHeld, Moves, Fades, UNCHANGED <<ids, dirty, flush>>
  PROVE  FlushHeld'
<1>1. clock \in Nat /\ flush \in [Instrument -> Update \cup {None}]
  BY DEF TypeOK, CatalogTypeOK
<1>2. \A i \in Instrument : flush[i] # None => flush[i].snapshot \in Snapshot
  BY <1>1 DEF Update
<1>3. ASSUME NEW i \in Instrument, flush[i] # None
      PROVE  /\ OfVersion(i, flush[i].snapshot)'
             /\ flush[i].usable \/ ~Alive(flush[i].snapshot)'
             /\ i \in dirty \/ snapshots'[i] = None \/ snapshots'[i] = flush[i].snapshot
  BY <1>1, <1>2, <1>3, VersionedMoves, AliveFades DEF FlushHeld, OfVersion, Moves, Fades
<1>4. QED
  BY <1>3 DEF FlushHeld

LEMMA CycleKeeps ==
  ASSUME TypeOK, CycleHeld, Moves, Fades, UNCHANGED <<ids, dirty, published, cycle>>
  PROVE  CycleHeld'
<1>1. clock \in Nat /\ snapshots \in [Instrument -> Snapshot \cup {None}]
  BY DEF TypeOK, CatalogTypeOK
<1>2. ASSUME NEW i \in Instrument, NEW o \in Observation, JoinHeld(i, o) PROVE JoinHeld(i, o)'
  <2>1. o.usable => OfVersion(i, o.snapshot)'
    BY <1>2, VersionedMoves DEF JoinHeld, OfVersion, Moves
  <2>2. \/ snapshots'[i] = None
        \/ snapshots'[i] = snapshots[i] /\ snapshots[i] \in Snapshot
    BY <1>1 DEF Fades
  <2>3. CASE snapshots'[i] = snapshots[i] /\ snapshots[i] \in Snapshot
    <3>1. Alive(snapshots[i])' => Alive(snapshots[i])
      BY <1>1, <2>3, AliveFades
    <3>2. QED
      BY <1>2, <2>1, <2>3, <3>1 DEF JoinHeld
  <2>4. CASE snapshots'[i] = None
    BY <1>2, <2>1, <2>4 DEF JoinHeld
  <2>5. QED
    BY <2>2, <2>3, <2>4
<1>3. \A i \in Instrument : cycle.batch[i] # None => cycle.batch[i] \in Observation
  BY DEF TypeOK
<1>4. QED
  BY <1>2, <1>3 DEF CycleHeld

LEMMA RowHeldKeeps ==
  ASSUME Carried, raw \subseteq raw', NEW row, RowHeld(row)
  PROVE  RowHeld(row)'
<1>1. PICK v \in versions :
        /\ v.instrument = row.instrument /\ v.from = row.version
        /\ row.funding # None =>
             /\ row.funding.version = row.version
             /\ row.funding.terms = v.terms
             /\ row.funding.id \in raw
        /\ row.terms # None /\ VenueOf[row.instrument] = Mexc =>
             Multiplier[row.terms] = Multiplier[v.terms]
  BY DEF RowHeld
<1>2. PICK w \in versions' :
        w.instrument = v.instrument /\ w.terms = v.terms /\ w.from = v.from
  BY DEF Carried
<1>3. QED
  BY <1>1, <1>2 DEF RowHeld

LEMMA ToldKeeps ==
  ASSUME TypeOK, RowsHeld, Moves, Fades, UNCHANGED <<ids, dirty, published>>,
         NEW row \in latest, Told(row)
  PROVE  Told(row)'
<1>1. clock \in Nat /\ snapshots \in [Instrument -> Snapshot \cup {None}] /\ row \in Row
  BY DEF TypeOK, CatalogTypeOK
<1>2. row.instrument \in Instrument /\ row.version \in Nat
  BY <1>1 DEF Row
<1>3. \E v \in versions : v.instrument = row.instrument /\ v.from = row.version
  BY DEF RowsHeld, RowHeld
<1>4. Agreed(row)' => Agreed(row)
  <2>1. Agreed(row)' => Open(row.instrument, row.version)'
    BY DEF Agreed, Open
  <2>2. Open(row.instrument, row.version)' => Open(row.instrument, row.version)
    BY <1>2, <1>3 DEF Moves, OpenStays
  <2>3. QED
    BY <2>1, <2>2 DEF Agreed, Open
<1>5. CASE snapshots'[row.instrument] = None
  BY <1>5 DEF Told
<1>6. CASE snapshots'[row.instrument] = snapshots[row.instrument]
             /\ snapshots[row.instrument] \in Snapshot
  <2>1. Alive(snapshots[row.instrument])' => Alive(snapshots[row.instrument])
    BY <1>1, <1>6, AliveFades
  <2>2. QED
    BY <1>4, <1>6, <2>1 DEF Told
<1>7. QED
  BY <1>1, <1>2, <1>5, <1>6 DEF Fades

\* A step of no writer: what is said of memory and of the rows stays true.
LEMMA AsideKeeps ==
  ASSUME TypeOK, MemoryHeld, RowsHeld, RowsTold, DoneIsCurrent', Moves, Fades,
         UNCHANGED <<ids, catalogs, dirty, published, flush, cycle, writeVars>>
  PROVE  MemoryHeld' /\ RowsHeld' /\ RowsTold'
<1>1. IdsHeld' /\ SnapshotsHeld' /\ NoneAhead' /\ PublishedHeld'
  BY AnswersKeep DEF MemoryHeld
<1>2. CycleHeld' /\ FlushHeld'
  BY CycleKeeps, FlushKeeps DEF MemoryHeld
<1>3. RowsHeld'
  BY RowHeldKeeps DEF RowsHeld, Moves, writeVars
<1>4. RowsTold'
  BY ToldKeeps DEF RowsTold, writeVars
<1>5. QED
  BY <1>1, <1>2, <1>3, <1>4 DEF MemoryHeld

\* The types of what a step of the refresh changes.
LEMMA RefreshTyped ==
  ASSUME IInv, RefreshHeld, TypeOK, RefreshStep
  PROVE  /\ IInv' /\ CatalogTypeOK' /\ RefreshHeld'
         /\ (lock' = "market") = (lock = "market")
         /\ clock' = clock
<1>1. CatalogTypeOK
  BY DEF TypeOK
<1>2. IInv'
  BY RefreshKeeps
<1>3. service' \in {"starting", "up", "stopping", "down"}
  BY <1>1 DEF RefreshStep, RefreshWorks, RefreshFails, Begin, Fetch, Enter, PersistVenue, RejectVenue,
     RecordRun, ConnectionLost, LoadFails, Publish, AfterFailure, CatalogTypeOK
<1>4. /\ lock' = lock \/ (lock = None /\ lock' = "refresh") \/ (lock = "refresh" /\ lock' = None)
      /\ RefreshHeld' /\ clock' = clock
  BY <1>1, RefreshShares DEF RefreshHeld
<1>5. lock' \in {None, "refresh", "candles", "market"}
  BY <1>1, <1>4 DEF CatalogTypeOK
<1>6. CatalogTypeOK'
  BY <1>1, <1>2, <1>3, <1>5, CatalogTypeKeeps
<1>7. (lock' = "market") = (lock = "market")
  BY <1>4, CatalogAssumption
<1>8. QED
  BY <1>2, <1>4, <1>6, <1>7

LEMMA RefreshAsideKeeps ==
  ASSUME WInv, RefreshStep, UNCHANGED <<catalogs, ids>>, Aside
  PROVE  WInv'
<1>1. IInv /\ RefreshHeld /\ TypeOK /\ MemoryHeld /\ RowsHeld /\ RowsTold /\ DoneIsCurrent
  BY DEF WInv, MemoryHeld
<1>2. UNCHANGED <<ids, sweep, fetching, answers, snapshots, dirty, published, flush, cycle,
                  latest, minutes, raw>>
  BY DEF Aside, fundingVars, writeVars
<1>3. /\ IInv' /\ CatalogTypeOK' /\ RefreshHeld'
      /\ (lock' = "market") = (lock = "market") /\ clock' = clock
  BY <1>1, RefreshTyped
<1>4. TypeOK'
  BY <1>1, <1>2, <1>3 DEF TypeOK
<1>5. Moves /\ DoneIsCurrent'
  BY <1>1, RefreshMoves
<1>6. Fades
  BY <1>1, <1>2, <1>3 DEF Fades, TypeOK, CatalogTypeOK
<1>7. MemoryHeld' /\ RowsHeld' /\ RowsTold'
  BY <1>1, <1>2, <1>5, <1>6, AsideKeeps DEF writeVars
<1>8. QED
  BY <1>3, <1>4, <1>7 DEF WInv

\* What load_current_mexc_version_ids reads.
LEMMA IdsAreOpen ==
  ASSUME IInv, NEW i \in Instrument
  PROVE  /\ CurrentIds[i] # None =>
              /\ VenueOf[i] = Mexc
              /\ \E r \in Current(i) : r.terms \in ActiveTerms /\ r.from = CurrentIds[i]
         /\ \A from : VenueOf[i] = Mexc /\ Open(i, from) => CurrentIds[i] = from
         /\ CurrentIds[i] \in Nat \cup {None}
<1> DEFINE rows == {r \in CurrentActive : r.instrument = i /\ VenueOf[i] = Mexc}
<1>1. CurrentIds[i] = IF rows = {} THEN None ELSE (CHOOSE r \in rows : TRUE).from
  BY DEF CurrentIds
<1>2. rows # {} => (CHOOSE r \in rows : TRUE) \in rows
  OBVIOUS
<1>3. \A r \in rows : r \in Current(i) /\ r.terms \in ActiveTerms /\ VenueOf[i] = Mexc
                     /\ r.from \in Nat
  BY DEF CurrentActive, Current, IInv, Typed, Version
<1>4. \A from : VenueOf[i] = Mexc /\ Open(i, from) => \E r \in rows : r.from = from
  BY DEF Open
<1>5. \A r, s \in rows : r = s
  BY <1>3, CurrentIsSingle
<1> HIDE DEF rows
<1>6. QED
  BY <1>1, <1>2, <1>3, <1>4, <1>5

\* What a refresh publishes is what it has committed, and so are the version ids.
LEMMA PublishKeeps ==
  ASSUME WInv, Publish, LoadIds, Aside
  PROVE  WInv'
<1>1. IInv /\ RefreshHeld /\ TypeOK /\ MemoryHeld /\ RowsHeld /\ RowsTold /\ DoneIsCurrent
  BY DEF WInv, MemoryHeld
<1>2. UNCHANGED <<versions, clock, sweep, fetching, answers, snapshots, dirty, published, flush,
                  cycle, latest, minutes, raw>>
  BY DEF Aside, fundingVars, writeVars, Publish
<1>3. RefreshStep
  BY DEF RefreshStep
<1>4. IInv' /\ CatalogTypeOK' /\ RefreshHeld' /\ (lock' = "market") = (lock = "market")
  BY <1>1, <1>3, RefreshTyped
<1>5. DoneIsCurrent'
  BY <1>1, <1>3, RefreshMoves
<1>6. lock # "market" /\ cycle.step # "store" /\ flush = Nothing
  BY <1>1 DEF Publish, RefreshHeld, TypeOK
<1>7. ASSUME NEW i \in Instrument
      PROVE  \/ /\ VenueOf[i] = Mexc => catalogs'[i] = refresh.seen[i] /\ Mexc \in refresh.done
                /\ ids'[i] = CurrentIds[i]
             \/ /\ VenueOf[i] = Mexc => catalogs'[i] = catalogs[i]
                /\ ids'[i] = ids[i]
  BY DEF Publish, Published, LoadIds
<1>8. ids' \in [Instrument -> Nat \cup {None}]
  <2>1. CurrentIds \in [Instrument -> Nat \cup {None}]
    BY <1>1, IdsAreOpen DEF CurrentIds
  <2>2. QED
    BY <1>1, <2>1 DEF LoadIds, TypeOK
<1>9. TypeOK'
  BY <1>1, <1>2, <1>4, <1>8 DEF TypeOK
<1>10. IdsHeld'
  <2> SUFFICES ASSUME NEW i \in Instrument, ids'[i] # None
               PROVE  /\ VenueOf[i] = Mexc /\ catalogs'[i] \in ActiveTerms
                      /\ \E v \in versions : /\ v.instrument = i /\ v.from = ids'[i]
                                             /\ v.terms = catalogs'[i]
    BY <1>2 DEF IdsHeld, Versioned
  <2>1. CASE ids'[i] = ids[i] /\ (VenueOf[i] = Mexc => catalogs'[i] = catalogs[i])
    BY <1>1, <2>1 DEF MemoryHeld, IdsHeld, Versioned
  <2>2. CASE /\ ids'[i] = CurrentIds[i]
             /\ VenueOf[i] = Mexc => catalogs'[i] = refresh.seen[i] /\ Mexc \in refresh.done
    <3>1. PICK r \in Current(i) : r.terms \in ActiveTerms /\ r.from = ids'[i]
      BY <1>1, <2>2, IdsAreOpen
    <3>2. VenueOf[i] = Mexc
      BY <1>1, <2>2, IdsAreOpen
    <3>3. r.terms \in {q.terms : q \in Current(i)}
      OBVIOUS
    <3>4. r.terms = catalogs'[i]
      BY <1>1, <2>2, <3>2, <3>3 DEF DoneIsCurrent
    <3>5. QED
      BY <3>1, <3>2, <3>4 DEF Current
  <2>3. QED
    BY <1>7, <2>1, <2>2
<1>11. ASSUME NEW i \in Instrument, snapshots[i] # None, Open(i, snapshots[i].version)
       PROVE  ids[i] = snapshots[i].version /\ ids'[i] = snapshots[i].version
  <2>1. ids[i] = snapshots[i].version /\ VenueOf[i] = Mexc
    BY <1>1, <1>11 DEF MemoryHeld, NoneAhead, SnapshotsHeld
  <2>2. CurrentIds[i] = snapshots[i].version
    BY <1>1, <1>11, <2>1, IdsAreOpen
  <2>3. QED
    BY <1>7, <2>1, <2>2
<1>12. SnapshotsHeld' /\ NoneAhead' /\ PublishedHeld'
  BY <1>1, <1>2, <1>11 DEF MemoryHeld, SnapshotsHeld, OfVersion, Versioned, NoneAhead, Open,
                           CurrentActive, PublishedHeld, Alive
<1>13. CycleHeld' /\ FlushHeld'
  BY <1>1, <1>2, <1>6 DEF MemoryHeld, CycleHeld, FlushHeld, Nothing
<1>14. RowsHeld'
  BY <1>1, <1>2 DEF RowsHeld, RowHeld
<1>15. ASSUME NEW row \in latest PROVE Told(row)'
  <2>1. Told(row) /\ row.instrument \in Instrument
    BY <1>1 DEF RowsTold, TypeOK, Row
  <2>2. /\ Agreed(row)' => /\ row.version = ids'[row.instrument]
                           /\ Open(row.instrument, row.version)
        /\ row.version = ids[row.instrument] /\ Open(row.instrument, row.version) => Agreed(row)
    BY <1>2 DEF Agreed, Open, CurrentActive
  <2>3. QED
    BY <1>2, <1>11, <2>1, <2>2 DEF Told, Alive
<1>16. RowsTold'
  BY <1>2, <1>15 DEF RowsTold
<1>17. QED
  BY <1>4, <1>5, <1>9, <1>10, <1>12, <1>13, <1>14, <1>16 DEF WInv, MemoryHeld

----------------------------------------------------------------------------
(* The funding loop *)

\* A step that leaves the catalog, what it knows and what is written alone: types, then the rest.
LEMMA StillKeeps ==
  ASSUME WInv, UNCHANGED <<clock, catalogVars>>, service' \in {"starting", "up", "stopping", "down"}
  PROVE  IInv' /\ CatalogTypeOK' /\ RefreshHeld' /\ DoneIsCurrent' /\ Moves
<1>1. IInv /\ RefreshHeld /\ CatalogTypeOK /\ DoneIsCurrent /\ clock \in Nat
  BY DEF WInv, MemoryHeld, TypeOK, CatalogTypeOK
<1>2. UNCHANGED <<versions, catalogs, starts, lock, refresh, clock>>
  BY DEF catalogVars
<1>3. IInv'
  BY <1>1, <1>2, TableAsideKeeps DEF TableAside
<1>4. CatalogTypeOK' /\ RefreshHeld' /\ DoneIsCurrent'
  BY <1>1, <1>2 DEF CatalogTypeOK, RefreshHeld, DoneIsCurrent, Current
<1>5. QED
  BY <1>2, <1>3, <1>4, SameMoves

LEMMA BeginSweepKeeps == WInv /\ BeginSweep => WInv'
<1> SUFFICES ASSUME WInv, BeginSweep PROVE WInv'
  OBVIOUS
<1>1. TypeOK /\ CatalogTypeOK /\ MemoryHeld /\ RowsHeld /\ RowsTold
  BY DEF WInv, TypeOK
<1>2. UNCHANGED <<clock, versions, catalogs, starts, lock, refresh, service, ids, fetching, answers,
                  dirty, published, flush, cycle, latest, minutes, raw>>
  BY DEF BeginSweep, catalogVars, writeVars
<1>3. IInv' /\ CatalogTypeOK' /\ RefreshHeld' /\ DoneIsCurrent' /\ Moves
  BY <1>1, <1>2, StillKeeps DEF catalogVars, CatalogTypeOK
<1>4. sweep' \in Listing /\ snapshots' \in [Instrument -> Snapshot \cup {None}]
  BY <1>1 DEF BeginSweep, TypeOK, CatalogTypeOK, Listing
<1>5. Fades
  BY <1>1, <1>2 DEF BeginSweep, Fades, CatalogTypeOK
<1>6. TypeOK'
  BY <1>1, <1>2, <1>3, <1>4 DEF TypeOK
<1>7. MemoryHeld' /\ RowsHeld' /\ RowsTold'
  BY <1>1, <1>2, <1>3, <1>5, AsideKeeps DEF writeVars
<1>8. QED
  BY <1>3, <1>6, <1>7 DEF WInv

LEMMA AskKeeps ==
  ASSUME WInv, NEW i \in Instrument, Ask(i)
  PROVE  WInv'
<1>1. TypeOK /\ CatalogTypeOK /\ MemoryHeld /\ RowsHeld /\ RowsTold
  BY DEF WInv, TypeOK
<1>2. UNCHANGED <<clock, versions, catalogs, starts, lock, refresh, service, ids, answers, snapshots,
                  dirty, published, flush, cycle, latest, minutes, raw>>
  BY DEF Ask, catalogVars, writeVars
<1>3. IInv' /\ CatalogTypeOK' /\ RefreshHeld' /\ DoneIsCurrent' /\ Moves
  BY <1>1, <1>2, StillKeeps DEF catalogVars, CatalogTypeOK
<1>4. sweep' \in Listing /\ fetching' \in [Instrument -> [version: Nat, terms: Terms] \cup {None}]
  BY <1>1 DEF Ask, TypeOK, Listing
<1>5. Fades
  BY <1>1, <1>2 DEF Fades, CatalogTypeOK
<1>6. TypeOK'
  BY <1>1, <1>2, <1>3, <1>4 DEF TypeOK
<1>7. MemoryHeld' /\ RowsHeld' /\ RowsTold'
  BY <1>1, <1>2, <1>3, <1>5, AsideKeeps DEF writeVars
<1>8. QED
  BY <1>3, <1>6, <1>7 DEF WInv

\* An answer for the version that memory knows is dirty until a flush has written it.
LEMMA AnswerKeeps ==
  ASSUME WInv, NEW i \in Instrument, Answer(i)
  PROVE  WInv'
<1>1. TypeOK /\ CatalogTypeOK /\ MemoryHeld /\ RowsHeld /\ RowsTold /\ clock \in Nat
  BY DEF WInv, TypeOK, CatalogTypeOK
<1>2. UNCHANGED <<clock, versions, catalogs, starts, lock, refresh, service, ids, sweep, published,
                  flush, cycle, latest, minutes, raw>>
  BY DEF Answer, catalogVars, writeVars
<1>3. IInv' /\ CatalogTypeOK' /\ RefreshHeld' /\ DoneIsCurrent' /\ Moves
  BY <1>1, <1>2, StillKeeps DEF catalogVars, CatalogTypeOK
<1>4. fetching' \in [Instrument -> [version: Nat, terms: Terms] \cup {None}]
  BY <1>1 DEF Answer, TypeOK
<1>5. CASE UNCHANGED <<snapshots, dirty, answers>>
  <2>1. Fades
    BY <1>1, <1>2, <1>5 DEF Fades
  <2>2. TypeOK'
    BY <1>1, <1>2, <1>3, <1>4, <1>5 DEF TypeOK
  <2>3. MemoryHeld' /\ RowsHeld' /\ RowsTold'
    BY <1>1, <1>2, <1>3, <1>5, <2>1, AsideKeeps DEF writeVars
  <2>4. QED
    BY <1>3, <2>2, <2>3 DEF WInv
<1>6. CASE StillCurrent(i) /\ ~UNCHANGED <<snapshots, dirty, answers>>
  <2>1. PICK s : /\ snapshots' = [snapshots EXCEPT ![i] = s]
                 /\ dirty' = dirty \cup {i} /\ answers' = answers + 1
                 /\ \E good \in BOOLEAN, life \in 1..Life :
                      s = [id |-> answers + 1, version |-> fetching[i].version,
                           terms |-> fetching[i].terms, good |-> good,
                           until |-> IF good THEN clock + life ELSE 0]
    BY <1>6 DEF Answer
  <2>2. /\ fetching[i] \in [version: Nat, terms: Terms]
        /\ answers + 1 \in 1..MaxAnswers /\ answers + 1 \in 0..MaxAnswers
    BY <1>1, MarketAssumption DEF Answer, TypeOK
  <2>3. s \in Snapshot /\ s.version = fetching[i].version /\ s.terms = fetching[i].terms
    BY <1>1, <2>1, <2>2, MarketAssumption DEF Snapshot
  <2>4. /\ s.version = ids[i] /\ ids[i] # None /\ s.terms = catalogs[i] /\ VenueOf[i] = Mexc
        /\ Versioned(i, s.version, s.terms)
    BY <1>1, <1>6, <2>2, <2>3, CatalogAssumption DEF StillCurrent, MemoryHeld, IdsHeld
  <2>5. /\ snapshots' \in [Instrument -> Snapshot \cup {None}] /\ dirty' \subseteq Instrument
        /\ answers' \in 0..MaxAnswers
    BY <1>1, <2>1, <2>2, <2>3 DEF TypeOK
  <2>6. TypeOK'
    BY <1>1, <1>2, <1>3, <1>4, <2>5 DEF TypeOK
  <2>7. \A j \in Instrument : \/ j = i /\ snapshots'[j] = s /\ j \in dirty'
                              \/ j # i /\ snapshots'[j] = snapshots[j] /\ (j \in dirty <=> j \in dirty')
    BY <1>1, <2>1 DEF TypeOK
  <2>8. IdsHeld'
    BY <1>1, <1>2 DEF MemoryHeld, IdsHeld, Versioned
  <2>9. SnapshotsHeld' /\ NoneAhead'
    BY <1>1, <1>2, <2>4, <2>7
       DEF MemoryHeld, SnapshotsHeld, NoneAhead, OfVersion, Versioned, Open, CurrentActive
  <2>10. PublishedHeld'
    BY <1>1, <1>2, <2>7 DEF MemoryHeld, PublishedHeld, Alive
  <2>11. FlushHeld'
    BY <1>1, <1>2, <2>7 DEF MemoryHeld, FlushHeld, OfVersion, Versioned, Alive
  <2>12. ASSUME NEW j \in Instrument, NEW o \in Observation, JoinHeld(j, o) PROVE JoinHeld(j, o)'
    BY <1>2, <2>7, <2>12 DEF JoinHeld, OfVersion, Versioned, Alive
  <2>13. CycleHeld'
    <3>1. \A j \in Instrument : cycle.batch[j] # None => cycle.batch[j] \in Observation
      BY <1>1 DEF TypeOK
    <3>2. QED
      BY <1>1, <1>2, <2>12, <3>1 DEF MemoryHeld, CycleHeld
  <2>14. RowsHeld'
    BY <1>1, <1>2 DEF RowsHeld, RowHeld
  <2>15. ASSUME NEW row \in latest PROVE Told(row)'
    <3>1. Told(row) /\ row.instrument \in Instrument
      BY <1>1 DEF RowsTold, TypeOK, Row
    <3>2. Agreed(row)' = Agreed(row)
      BY <1>2 DEF Agreed, CurrentActive
    <3>3. QED
      BY <1>2, <2>7, <3>1, <3>2 DEF Told, Alive
  <2>16. RowsTold'
    BY <1>2, <2>15 DEF RowsTold
  <2>17. QED
    BY <1>3, <2>6, <2>8, <2>9, <2>10, <2>11, <2>13, <2>14, <2>16 DEF WInv, MemoryHeld
<1>7. QED
  BY <1>5, <1>6 DEF Answer

----------------------------------------------------------------------------
(* The L1 cycle *)

\* A step of the cycle without the lock.
LEMMA FreeCycleKeeps ==
  ASSUME WInv,
         UNCHANGED <<clock, catalogVars, service, ids, fundingVars, published, flush, writeVars>>,
         cycle.step # "store", cycle' \in Cycle, cycle'.step # "store",
         cycle'.step # "idle" => cycle'.at \in Nat,
         \A i \in Instrument :
           cycle'.batch[i] # None /\ VenueOf[i] # Mexc => ~cycle'.batch[i].usable
  PROVE  WInv'
<1>1. TypeOK /\ CatalogTypeOK /\ MemoryHeld /\ RowsHeld /\ RowsTold
  BY DEF WInv, TypeOK
<1>2. UNCHANGED <<clock, versions, catalogs, starts, lock, refresh, service, ids, sweep, fetching,
                  answers, snapshots, dirty, published, flush, latest, minutes, raw>>
  BY DEF catalogVars, writeVars, fundingVars
<1>3. IInv' /\ CatalogTypeOK' /\ RefreshHeld' /\ DoneIsCurrent' /\ Moves
  BY <1>1, <1>2, StillKeeps DEF catalogVars, CatalogTypeOK
<1>4. Fades
  BY <1>1, <1>2 DEF Fades, CatalogTypeOK
<1>5. TypeOK'
  BY <1>1, <1>2, <1>3 DEF TypeOK, Cycle
<1>6. IdsHeld' /\ SnapshotsHeld' /\ NoneAhead' /\ PublishedHeld' /\ FlushHeld'
  BY <1>1, <1>2, <1>3, <1>4, AnswersKeep, FlushKeeps DEF MemoryHeld
<1>7. CycleHeld'
  BY DEF CycleHeld
<1>8. RowsHeld'
  BY <1>1, <1>2 DEF RowsHeld, RowHeld
<1>9. RowsTold'
  BY <1>1, <1>2, <1>3, <1>4, ToldKeeps DEF RowsTold
<1>10. QED
  BY <1>3, <1>5, <1>6, <1>7, <1>8, <1>9 DEF WInv, MemoryHeld

LEMMA BeginCycleKeeps == WInv /\ BeginCycle => WInv'
<1> SUFFICES ASSUME WInv, BeginCycle PROVE WInv'
  OBVIOUS
<1>1. CatalogTypeOK
  BY DEF WInv, TypeOK
<1>2. /\ cycle' \in Cycle /\ cycle'.step = "fetch" /\ cycle'.at \in Nat
      /\ \A i \in Instrument : cycle'.batch[i] = None
  BY <1>1 DEF BeginCycle, Cycle, Nothing, CatalogTypeOK
<1>3. cycle.step # "store"
  BY DEF BeginCycle
<1>4. QED
  BY <1>2, <1>3, FreeCycleKeeps DEF BeginCycle

LEMMA ParsedIsTyped ==
  ASSUME TypeOK, cycle \in Cycle, NEW i \in Instrument, cycle.seen[i] \in ActiveTerms
  PROVE  Parsed(i) \in Observation /\ (VenueOf[i] # Mexc => Parsed(i).usable = FALSE)
<1>1. snapshots[i] \in Snapshot \cup {None} /\ cycle.seen[i] \in Terms
  BY CatalogAssumption DEF TypeOK
<1>2. Usable(snapshots[i], cycle.seen[i]) \in BOOLEAN
  BY DEF Usable
<1>3. Quality("ready", Usable(snapshots[i], cycle.seen[i])) \in Status
  BY DEF Quality, Status
<1>4. "ready" \in Status
  BY DEF Status
<1>5. QED
  BY <1>1, <1>2, <1>3, <1>4 DEF Parsed, Observation

LEMMA EndFetchKeeps == WInv /\ EndFetch => WInv'
<1> SUFFICES ASSUME WInv, EndFetch PROVE WInv'
  OBVIOUS
<1>1. TypeOK /\ cycle \in Cycle /\ cycle.step = "fetch" /\ cycle.at \in Nat
  BY DEF WInv, MemoryHeld, CycleHeld, EndFetch
<1>2. PICK answered \in SUBSET Venue :
        cycle' = [cycle EXCEPT
          !.step = "waiting", !.seen = Nothing,
          !.batch = [i \in Instrument |->
            IF VenueOf[i] \in answered /\ cycle.seen[i] \in ActiveTerms THEN Parsed(i) ELSE None]]
  BY DEF EndFetch
<1> DEFINE batch == [i \in Instrument |->
              IF VenueOf[i] \in answered /\ cycle.seen[i] \in ActiveTerms THEN Parsed(i) ELSE None]
<1>3. /\ batch \in [Instrument -> Observation \cup {None}]
      /\ \A i \in Instrument : batch[i] # None /\ VenueOf[i] # Mexc => ~batch[i].usable
  BY <1>1, ParsedIsTyped
<1> HIDE DEF batch
<1>4. cycle'.step = "waiting" /\ cycle'.at = cycle.at /\ cycle'.batch = batch /\ cycle' \in Cycle
  BY <1>1, <1>2, <1>3 DEF batch, Cycle, Nothing, Listing
<1>5. QED
  BY <1>1, <1>3, <1>4, FreeCycleKeeps DEF EndFetch

LEMMA GiveUpKeeps == WInv /\ GiveUp => WInv'
<1> SUFFICES ASSUME WInv, GiveUp PROVE WInv'
  OBVIOUS
<1>1. cycle \in Cycle /\ cycle.step = "waiting"
  BY DEF WInv, MemoryHeld, CycleHeld, GiveUp
<1>2. /\ cycle' \in Cycle /\ cycle'.step = "idle"
      /\ \A i \in Instrument : cycle'.batch[i] = None
  BY <1>1 DEF GiveUp, Cycle, Nothing
<1>3. QED
  BY <1>1, <1>2, FreeCycleKeeps DEF GiveUp

\* An answer for the version that memory knows is for its definition.
LEMMA UsableMeans ==
  ASSUME IInv, IdsHeld, SnapshotsHeld, NEW i \in Instrument,
         snapshots[i] # None, ids[i] # None, snapshots[i].version = ids[i]
  PROVE  Usable(snapshots[i], catalogs[i]) <=> Alive(snapshots[i])
<1>1. PICK v \in versions : v.instrument = i /\ v.from = ids[i] /\ v.terms = catalogs[i]
  BY DEF IdsHeld, Versioned
<1>2. PICK w \in versions :
        w.instrument = i /\ w.from = snapshots[i].version /\ w.terms = snapshots[i].terms
  BY DEF SnapshotsHeld, OfVersion, Versioned
<1>3. v = w
  BY <1>1, <1>2, VersionIsSingle
<1>4. QED
  BY <1>1, <1>2, <1>3 DEF Usable, Alive

LEMMA JoinedHolds ==
  ASSUME WInv, NEW i \in Instrument, cycle.batch[i] # None
  PROVE  /\ Joined(i) \in Observation
         /\ VenueOf[i] # Mexc => Joined(i).usable = FALSE
         /\ VenueOf[i] = Mexc /\ ids[i] # None => JoinHeld(i, Joined(i))
<1> DEFINE o == cycle.batch[i]
           usable == /\ Usable(snapshots[i], catalogs[i])
                     /\ ids[i] # None => snapshots[i].version = ids[i]
<1>1. /\ o \in Observation /\ snapshots[i] \in Snapshot \cup {None}
      /\ VenueOf[i] # Mexc => o.usable = FALSE
      /\ IInv /\ IdsHeld /\ SnapshotsHeld /\ PublishedHeld
  BY DEF WInv, TypeOK, MemoryHeld, CycleHeld, Observation
<1>2. CASE VenueOf[i] # Mexc \/ catalogs[i] = None
  <2>1. Joined(i) = o
    BY <1>2 DEF Joined
  <2>2. VenueOf[i] = Mexc => ids[i] = None
    BY <1>1, <1>2, CatalogAssumption DEF IdsHeld
  <2>3. QED
    BY <1>1, <2>1, <2>2
<1>3. CASE VenueOf[i] = Mexc /\ catalogs[i] # None
  <2>1. Joined(i) = [terms |-> o.terms, status |-> Quality(o.status, usable),
                     snapshot |-> snapshots[i], usable |-> usable]
    BY <1>3 DEF Joined
  <2>2. usable \in BOOLEAN /\ o.status \in Status /\ o.terms \in Terms
    BY <1>1 DEF Usable, Observation
  <2>3. Quality(o.status, usable) \in Status /\ (Quality(o.status, usable) = "ready" => usable)
    BY <2>2 DEF Quality, Status
  <2>4. ids[i] # None => JoinHeld(i, Joined(i))
    <3> SUFFICES ASSUME ids[i] # None PROVE JoinHeld(i, Joined(i))
      OBVIOUS
    <3>1. usable => /\ snapshots[i] # None /\ snapshots[i].good
                    /\ snapshots[i].version = ids[i] /\ OfVersion(i, snapshots[i])
      BY <1>1 DEF Usable, SnapshotsHeld
    <3>2. snapshots[i] # None /\ snapshots[i].version = ids[i] => usable \/ ~Alive(snapshots[i])
      BY <1>1, UsableMeans
    <3>3. i \notin dirty /\ snapshots[i] # None => published[i].usable \/ ~usable
      BY <1>1 DEF PublishedHeld, Usable, Alive
    <3> HIDE DEF usable
    <3>4. QED
      BY <2>1, <2>3, <3>1, <3>2, <3>3 DEF JoinHeld
  <2> HIDE DEF usable
  <2>5. QED
    BY <1>1, <1>3, <2>1, <2>2, <2>3, <2>4 DEF Observation
<1>4. QED
  BY <1>2, <1>3

LEMMA EnterCycleKeeps == WInv /\ EnterCycle => WInv'
<1> SUFFICES ASSUME WInv, EnterCycle PROVE WInv'
  OBVIOUS
<1>1. /\ IInv /\ TypeOK /\ CatalogTypeOK /\ RefreshHeld /\ MemoryHeld /\ RowsHeld /\ RowsTold
      /\ DoneIsCurrent /\ clock \in Nat
  BY DEF WInv, MemoryHeld, TypeOK, CatalogTypeOK
<1>2. /\ UNCHANGED <<clock, versions, catalogs, starts, refresh, service, ids, sweep, fetching,
                     answers, snapshots, dirty, published, flush, latest, minutes, raw>>
      /\ lock = None /\ lock' = "market"
  BY DEF EnterCycle, fundingVars, writeVars
<1>3. cycle \in Cycle /\ cycle.step = "waiting" /\ cycle.at \in Nat
  BY <1>1 DEF EnterCycle, MemoryHeld, CycleHeld
<1> DEFINE batch == [i \in Instrument |-> Joined(i)]
<1>4. batch \in [Instrument -> Observation \cup {None}]
  <2>1. ASSUME NEW i \in Instrument PROVE Joined(i) \in Observation \cup {None}
    <3>1. CASE cycle.batch[i] = None
      BY <3>1 DEF Joined
    <3>2. CASE cycle.batch[i] # None
      BY <3>2, JoinedHolds
    <3>3. QED
      BY <3>1, <3>2
  <2>2. QED
    BY <2>1
<1>5. \A i \in Instrument : batch[i] # None => cycle.batch[i] # None
  BY DEF Joined
<1>6. ASSUME NEW i \in Instrument, batch[i] # None
      PROVE  /\ VenueOf[i] # Mexc => ~batch[i].usable
             /\ VenueOf[i] = Mexc /\ ids[i] # None => JoinHeld(i, batch[i])
  BY <1>5, <1>6, JoinedHolds
<1> HIDE DEF batch
<1>7. cycle'.step = "store" /\ cycle'.at = cycle.at /\ cycle'.batch = batch /\ cycle' \in Cycle
  BY <1>3, <1>4 DEF EnterCycle, batch, Cycle
<1>8. flush = Nothing
  BY <1>1, <1>2, CatalogAssumption DEF TypeOK
<1>9. IInv' /\ CatalogTypeOK' /\ RefreshHeld' /\ DoneIsCurrent'
  <2>1. IInv'
    BY <1>1, <1>2, TableAsideKeeps DEF TableAside
  <2>2. RefreshHeld'
    BY <1>1, <1>2, CatalogAssumption DEF RefreshHeld
  <2>3. QED
    BY <1>1, <1>2, <2>1, <2>2 DEF CatalogTypeOK, DoneIsCurrent, Current
<1>10. TypeOK'
  BY <1>1, <1>2, <1>7, <1>8, <1>9 DEF TypeOK, Cycle
<1>11. Moves /\ Fades
  BY <1>1, <1>2, SameMoves DEF Fades
<1>12. IdsHeld' /\ SnapshotsHeld' /\ NoneAhead' /\ PublishedHeld' /\ FlushHeld'
  BY <1>1, <1>2, <1>11, AnswersKeep, FlushKeeps DEF MemoryHeld
<1>14. CycleHeld'
  <2>1. ASSUME NEW i \in Instrument, NEW o, JoinHeld(i, o) PROVE JoinHeld(i, o)'
    BY <1>2, <2>1 DEF JoinHeld, OfVersion, Versioned, Alive
  <2>2. QED
    BY <1>2, <1>3, <1>6, <1>7, <2>1 DEF CycleHeld
<1>15. RowsHeld'
  BY <1>1, <1>2 DEF RowsHeld, RowHeld
<1>16. RowsTold'
  BY <1>1, <1>2, <1>11, ToldKeeps DEF RowsTold
<1>17. QED
  BY <1>9, <1>10, <1>12, <1>14, <1>15, <1>16 DEF WInv, MemoryHeld

\* The row that a cycle writes for a version.
LEMMA CycleRowHolds ==
  ASSUME WInv, cycle.step = "store", NEW r \in CurrentActive
  PROVE  /\ CycleRow(r) \in Row
         /\ CycleRow(r).instrument = r.instrument /\ CycleRow(r).version = r.from
         /\ CycleRow(r).cycle = cycle.at /\ cycle.at \in Nat
         /\ CycleRow(r).funding # None =>
              /\ CycleRow(r).funding.version = r.from
              /\ CycleRow(r).funding.terms = r.terms
              /\ CycleRow(r).funding.id \in Cycled.raw
         /\ CycleRow(r).terms # None /\ VenueOf[r.instrument] = Mexc =>
              Multiplier[CycleRow(r).terms] = Multiplier[r.terms]
         /\ VenueOf[r.instrument] = Mexc /\ CycleRow(r).status = "ready" =>
              CycleRow(r).funding # None
         /\ VenueOf[r.instrument] = Mexc /\ ids[r.instrument] = r.from =>
              \/ CycleRow(r).funding = None /\ CycleRow(r).status = "unavailable"
              \/ \E o \in Observation :
                   /\ JoinHeld(r.instrument, o)
                   /\ CycleRow(r).funding = IF o.usable THEN o.snapshot ELSE None
<1> DEFINE i == r.instrument
           o == Accepted(r)
<1>1. /\ r \in versions /\ r.instrument \in Instrument /\ r.from \in Nat /\ r.terms \in Terms
      /\ IInv /\ CycleHeld /\ cycle.at \in Nat
  BY DEF WInv, IInv, Typed, Version, CurrentActive, MemoryHeld, CycleHeld
<1>2. o # None => /\ o = cycle.batch[i] /\ o \in Observation
                  /\ VenueOf[i] = Mexc => Multiplier[o.terms] = Multiplier[r.terms]
  BY <1>1 DEF Accepted, WInv, TypeOK
<1>3. CASE o = None
  <2>1. CycleRow(r) = [instrument |-> i, version |-> r.from, cycle |-> cycle.at, terms |-> None,
                       status |-> "unavailable", funding |-> None]
    BY <1>3 DEF CycleRow
  <2>2. QED
    BY <1>1, <2>1 DEF Row, Status
<1>4. CASE o # None /\ ~Matches(r)
  <2> DEFINE status == Quality(o.status, FALSE)
             row == CycleRow(r)
  <2>1. row = [instrument |-> i, version |-> r.from, cycle |-> cycle.at, terms |-> o.terms,
               status |-> status, funding |-> None]
    BY <1>4 DEF CycleRow
  <2>2. o.terms \in Terms /\ status \in Status /\ status # "ready"
    BY <1>2, <1>4 DEF Observation, Quality, Status
  <2> HIDE DEF status, row
  <2>3. ~(VenueOf[i] = Mexc /\ ids[i] = r.from)
    BY <1>4 DEF Matches
  <2>4. /\ row.instrument = i /\ row.version = r.from /\ row.cycle = cycle.at
        /\ row.terms = o.terms /\ row.status # "ready" /\ row.funding = None
    BY <2>1, <2>2
  <2>5. row \in Row
    BY <1>1, <2>1, <2>2 DEF Row
  <2> HIDE DEF o
  <2>6. QED
    BY <1>1, <1>2, <1>4, <2>3, <2>4, <2>5 DEF row
<1>5. CASE o # None /\ Matches(r)
  <2>1. CycleRow(r) = [instrument |-> i, version |-> r.from, cycle |-> cycle.at, terms |-> o.terms,
                       status |-> o.status,
                       funding |-> IF o.usable THEN o.snapshot ELSE None]
    BY <1>5 DEF CycleRow
  <2>2. o \in Observation /\ o.terms \in Terms /\ o.status \in Status /\ o.usable \in BOOLEAN
        /\ o.snapshot \in Snapshot \cup {None}
    BY <1>2, <1>5 DEF Observation
  <2>3. VenueOf[i] # Mexc => ~o.usable
    BY <1>1, <1>2, <1>5 DEF CycleHeld
  <2>4. VenueOf[i] = Mexc => JoinHeld(i, o) /\ ids[i] = r.from
    BY <1>1, <1>2, <1>5, CatalogAssumption DEF CycleHeld, Matches
  <2>5. ASSUME o.usable
        PROVE  /\ o.snapshot # None
               /\ o.snapshot.version = r.from /\ o.snapshot.terms = r.terms
               /\ o.snapshot.id \in Cycled.raw
    <3>1. /\ VenueOf[i] = Mexc /\ o.snapshot # None /\ o.snapshot.good
          /\ o.snapshot.version = r.from /\ OfVersion(i, o.snapshot)
      BY <2>3, <2>4, <2>5 DEF JoinHeld
    <3>2. PICK w \in versions :
            w.instrument = i /\ w.from = o.snapshot.version /\ w.terms = o.snapshot.terms
      BY <3>1 DEF OfVersion, Versioned
    <3>3. w = r
      BY <1>1, <3>1, <3>2, VersionIsSingle
    <3>4. o.snapshot.id \in Cycled.raw
      BY <1>5, <3>1 DEF Cycled, CycledLatest, CycledMinutes, CycleRows, Evidence
    <3>5. QED
      BY <3>1, <3>2, <3>3, <3>4
  <2>6. VenueOf[i] = Mexc /\ o.status = "ready" => o.usable
    BY <2>4 DEF JoinHeld
  <2> DEFINE row == CycleRow(r)
  <2>7. /\ row.instrument = i /\ row.version = r.from /\ row.cycle = cycle.at
        /\ row.terms = o.terms /\ row.status = o.status
        /\ row.funding = IF o.usable THEN o.snapshot ELSE None
    BY <2>1
  <2>8. row \in Row
    BY <1>1, <2>1, <2>2 DEF Row
  <2> HIDE DEF o, row
  <2>9. row.funding # None => o.usable /\ row.funding = o.snapshot
    BY <2>2, <2>7
  <2>10. VenueOf[i] = Mexc /\ row.status = "ready" => row.funding # None
    BY <2>5, <2>6, <2>7
  <2>11. VenueOf[i] = Mexc => Multiplier[row.terms] = Multiplier[r.terms]
    BY <1>2, <1>5, <2>7
  <2>12. QED
    BY <1>1, <2>2, <2>4, <2>5, <2>7, <2>8, <2>9, <2>10, <2>11 DEF row
<1>6. QED
  BY <1>3, <1>4, <1>5

\* The types of the tables, and one latest row of a version.
TablesTyped ==
  /\ latest \subseteq Row /\ minutes \subseteq Row /\ raw \subseteq 1..MaxAnswers
  /\ \A r, s \in latest : r.instrument = s.instrument /\ r.version = s.version => r = s

\* What the transaction of a cycle makes of the tables.
LEMMA CycledHolds ==
  ASSUME WInv, cycle.step = "store", versions' = versions,
         latest' = Cycled.latest, minutes' = Cycled.minutes, raw' = Cycled.raw
  PROVE  /\ TablesTyped' /\ RowsHeld'
         /\ \A row \in latest' : row \in latest \/ \E r \in CurrentActive : row = CycleRow(r)
<1> DEFINE rows == {CycleRow(r) : r \in CurrentActive}
<1>1. TablesTyped /\ RowsHeld /\ IInv
  BY DEF WInv, TypeOK, TablesTyped
<1>2. /\ latest' = {s \in latest : \A r \in rows : SameVersion(r, s) => s.cycle > r.cycle}
                   \cup {r \in rows : \A s \in latest : SameVersion(r, s) => s.cycle <= r.cycle}
      /\ minutes' = {s \in minutes : \A r \in rows : SameVersion(r, s) => s.cycle # r.cycle}
                    \cup rows
  BY DEF Cycled, CycledLatest, CycledMinutes, CycleRows, Evidence
<1>3. raw \subseteq raw' /\ raw' \subseteq 1..MaxAnswers
  <2>1. raw \subseteq raw'
    BY DEF Cycled, CycledLatest, CycledMinutes, CycleRows, Evidence
  <2>2. ASSUME NEW q \in CurrentActive, VenueOf[q.instrument] = Mexc, Accepted(q) # None,
               Accepted(q).snapshot # None
        PROVE  Accepted(q).snapshot.id \in 1..MaxAnswers
    <3>1. q.instrument \in Instrument
      BY DEF WInv, IInv, Typed, Version, CurrentActive
    <3>2. Accepted(q) \in Observation
      BY <2>2, <3>1 DEF Accepted, WInv, TypeOK
    <3>3. QED
      BY <2>2, <3>2 DEF Observation, Snapshot
  <2>3. raw' \subseteq 1..MaxAnswers
    BY <1>1, <2>2 DEF Cycled, CycledLatest, CycledMinutes, CycleRows, Evidence, TablesTyped
  <2>4. QED
    BY <2>1, <2>3
<1>4. rows \subseteq Row
  BY CycleRowHolds
<1>5. ASSUME NEW row \in rows PROVE RowHeld(row)'
  <2>1. PICK r \in CurrentActive : row = CycleRow(r)
    OBVIOUS
  <2>2. r \in versions
    BY DEF CurrentActive
  <2>3. /\ row.instrument = r.instrument /\ row.version = r.from
        /\ row.funding # None => /\ row.funding.version = row.version
                                 /\ row.funding.terms = r.terms
                                 /\ row.funding.id \in raw'
        /\ row.terms # None /\ VenueOf[row.instrument] = Mexc =>
             Multiplier[row.terms] = Multiplier[r.terms]
        /\ VenueOf[row.instrument] = Mexc /\ row.status = "ready" => row.funding # None
    BY <2>1, CycleRowHolds
  <2>4. QED
    BY <2>2, <2>3 DEF RowHeld
<1>6. Carried
  BY DEF Carried
<1>7. \A row \in latest \cup minutes : RowHeld(row)'
  BY <1>1, <1>3, <1>6, RowHeldKeeps DEF RowsHeld
<1>8. ASSUME NEW r \in rows, NEW s \in rows, SameVersion(r, s) PROVE r = s
  <2>1. PICK v \in CurrentActive : r = CycleRow(v)
    OBVIOUS
  <2>2. PICK w \in CurrentActive : s = CycleRow(w)
    OBVIOUS
  <2>3. v.instrument = w.instrument /\ v.from = w.from
    BY <1>8, <2>1, <2>2, CycleRowHolds DEF SameVersion
  <2>4. v = w
    BY <1>1, <2>3, VersionIsSingle DEF CurrentActive
  <2>5. QED
    BY <2>1, <2>2, <2>4
<1>9. \A row \in latest' : row \in latest \/ \E r \in CurrentActive : row = CycleRow(r)
  BY <1>2
<1> HIDE DEF rows
<1>10. latest' \subseteq Row /\ minutes' \subseteq Row
  BY <1>1, <1>2, <1>4 DEF TablesTyped
<1>11. \A r, s \in latest' : r.instrument = s.instrument /\ r.version = s.version => r = s
  <2>1. \A r \in rows, s \in latest : r.cycle \in Nat /\ s.cycle \in Nat
    BY <1>1, <1>4 DEF TablesTyped, Row
  <2>2. \A r, s \in latest : SameVersion(r, s) => r = s
    BY <1>1 DEF TablesTyped, SameVersion
  <2>3. \A r, s : SameVersion(r, s) <=> r.instrument = s.instrument /\ r.version = s.version
    BY DEF SameVersion
  <2>4. QED
    BY <1>2, <1>8, <2>1, <2>2, <2>3
<1>12. RowsHeld'
  <2>1. \A row \in latest' \cup minutes' : RowHeld(row)'
    BY <1>2, <1>5, <1>7
  <2>2. ASSUME NEW s \in latest, \A r \in rows : SameVersion(r, s) => s.cycle > r.cycle
        PROVE  s \in minutes'
    <3>1. s \in minutes
      BY <1>1 DEF RowsHeld
    <3>2. \A r \in rows : r.cycle \in Nat /\ s.cycle \in Nat
      BY <1>1, <1>4 DEF TablesTyped, Row
    <3>3. QED
      BY <1>2, <2>2, <3>1, <3>2
  <2>3. latest' \subseteq minutes'
    BY <1>2, <2>2
  <2>4. QED
    BY <2>1, <2>3 DEF RowsHeld
<1>13. QED
  BY <1>3, <1>9, <1>10, <1>11, <1>12 DEF TablesTyped

\* The end of a cycle, whatever it wrote.
LEMMA EndCycleKeeps ==
  ASSUME WInv, cycle.step = "store", EndCycle, TablesTyped', RowsHeld', RowsTold'
  PROVE  WInv'
<1>1. /\ IInv /\ TypeOK /\ CatalogTypeOK /\ RefreshHeld /\ MemoryHeld /\ RowsHeld
      /\ DoneIsCurrent /\ clock \in Nat
  BY DEF WInv, MemoryHeld, TypeOK, CatalogTypeOK
<1>2. /\ UNCHANGED <<clock, versions, catalogs, starts, refresh, service, ids, sweep, fetching,
                     answers, snapshots, dirty, published, flush>>
      /\ lock' = None
  BY DEF EndCycle, fundingVars
<1>3. lock = "market" /\ flush = Nothing
  BY <1>1 DEF TypeOK
<1>4. /\ cycle' \in Cycle /\ cycle'.step = "idle"
      /\ \A i \in Instrument : cycle'.batch[i] = None
  BY <1>1 DEF EndCycle, MemoryHeld, CycleHeld, Cycle, Nothing
<1>5. IInv' /\ CatalogTypeOK' /\ RefreshHeld' /\ DoneIsCurrent'
  <2>1. IInv'
    BY <1>1, <1>2, TableAsideKeeps DEF TableAside
  <2>2. RefreshHeld'
    BY <1>1, <1>2, <1>3, CatalogAssumption DEF RefreshHeld
  <2>3. QED
    BY <1>1, <1>2, <2>1, <2>2 DEF CatalogTypeOK, DoneIsCurrent, Current
<1>6. lock' # "market" /\ cycle'.step # "store" /\ flush' = Nothing
  BY <1>2, <1>3, <1>4, CatalogAssumption
<1>7. TypeOK'
  BY <1>1, <1>2, <1>4, <1>5, <1>6 DEF TypeOK, Cycle, TablesTyped
<1>8. Moves /\ Fades
  BY <1>1, <1>2, SameMoves DEF Fades
<1>9. IdsHeld' /\ SnapshotsHeld' /\ NoneAhead' /\ PublishedHeld' /\ FlushHeld'
  BY <1>1, <1>2, <1>8, AnswersKeep, FlushKeeps DEF MemoryHeld
<1>10. CycleHeld'
  BY <1>4 DEF CycleHeld
<1>11. QED
  BY <1>5, <1>7, <1>9, <1>10 DEF WInv, MemoryHeld

LEMMA CommitCycleKeeps == WInv /\ CommitCycle => WInv'
<1> SUFFICES ASSUME WInv, CommitCycle PROVE WInv'
  OBVIOUS
<1>1. cycle.step = "store" /\ EndCycle
  BY DEF CommitCycle
<1>2. UNCHANGED <<clock, versions, ids, snapshots, dirty, published>>
  BY <1>1 DEF EndCycle, fundingVars
<1>3. /\ TablesTyped' /\ RowsHeld'
      /\ \A row \in latest' : row \in latest \/ \E r \in CurrentActive : row = CycleRow(r)
  BY <1>1, <1>2, CycledHolds DEF CommitCycle
<1>4. ASSUME NEW row \in latest PROVE Told(row)'
  <2>1. Moves /\ Fades
    BY <1>2, SameMoves DEF Fades, WInv, TypeOK, CatalogTypeOK
  <2>2. QED
    BY <1>2, <2>1, ToldKeeps DEF WInv, RowsTold
<1>5. ASSUME NEW r \in CurrentActive, NEW row, row = CycleRow(r) PROVE Told(row)'
  <2> DEFINE i == r.instrument
  <2>1. /\ row.instrument = i /\ row.version = r.from
        /\ VenueOf[i] = Mexc /\ ids[i] = r.from =>
              \/ row.funding = None /\ row.status = "unavailable"
              \/ \E o \in Observation :
                   /\ JoinHeld(i, o)
                   /\ row.funding = IF o.usable THEN o.snapshot ELSE None
    BY <1>1, <1>5, CycleRowHolds
  <2>2. i \in Instrument
    BY DEF WInv, IInv, Typed, Version, CurrentActive
  <2>3. SUFFICES ASSUME row.version = ids[i], snapshots[i] # None, snapshots[i].version = ids[i],
                        i \notin dirty
                 PROVE  /\ published[i].usable /\ Alive(snapshots[i]) =>
                             \/ row.funding = snapshots[i]
                             \/ row.funding = None /\ row.status = "unavailable"
                        /\ ~published[i].usable => row.funding = None
    BY <1>2, <2>1 DEF Told, Agreed, Alive
  <2>4. VenueOf[i] = Mexc /\ ids[i] = r.from
    BY <2>1, <2>2, <2>3 DEF WInv, MemoryHeld, SnapshotsHeld
  <2>5. ASSUME NEW o \in Observation, JoinHeld(i, o),
               row.funding = IF o.usable THEN o.snapshot ELSE None
        PROVE  /\ published[i].usable /\ Alive(snapshots[i]) => row.funding = snapshots[i]
               /\ ~published[i].usable => row.funding = None
    BY <2>3, <2>5 DEF JoinHeld
  <2>6. QED
    BY <2>1, <2>4, <2>5
<1>6. RowsTold'
  BY <1>3, <1>4, <1>5 DEF RowsTold
<1>7. QED
  BY <1>1, <1>3, <1>6, EndCycleKeeps

LEMMA LoseCycleKeeps == WInv /\ LoseCycle => WInv'
<1> SUFFICES ASSUME WInv, LoseCycle PROVE WInv'
  OBVIOUS
<1>1. cycle.step = "store" /\ EndCycle /\ UNCHANGED <<latest, minutes, raw>>
  BY DEF LoseCycle, writeVars
<1>2. UNCHANGED <<clock, versions, ids, snapshots, dirty, published>>
  BY <1>1 DEF EndCycle, fundingVars
<1>3. Moves /\ Fades
  BY <1>2, SameMoves DEF Fades, WInv, TypeOK, CatalogTypeOK
<1>4. TablesTyped' /\ RowsHeld'
  BY <1>1, <1>2 DEF WInv, TypeOK, TablesTyped, RowsHeld, RowHeld
<1>5. RowsTold'
  BY <1>1, <1>2, <1>3, ToldKeeps DEF WInv, RowsTold
<1>6. QED
  BY <1>1, <1>4, <1>5, EndCycleKeeps

----------------------------------------------------------------------------
(* The flush *)

\* What a flush has to write is of the version that memory knows.
LEMMA DueHolds ==
  ASSUME WInv, NEW i \in Instrument
  PROVE  /\ Due[i] \in Update \cup {None}
         /\ Due[i] # None =>
              /\ VenueOf[i] = Mexc /\ snapshots[i] # None
              /\ Due[i].snapshot = snapshots[i]
              /\ snapshots[i].version = ids[i] /\ OfVersion(i, snapshots[i])
              /\ Due[i].usable => snapshots[i].good
              /\ Due[i].usable \/ ~Alive(snapshots[i])
<1> DEFINE usable == Usable(snapshots[i], catalogs[i])
<1>1. /\ snapshots[i] \in Snapshot \cup {None} /\ IInv /\ IdsHeld /\ SnapshotsHeld
  BY DEF WInv, TypeOK, MemoryHeld
<1>2. usable \in BOOLEAN /\ (usable => snapshots[i].good)
  BY DEF Usable
<1>3. \/ Due[i] = None
      \/ /\ VenueOf[i] = Mexc /\ snapshots[i] # None /\ snapshots[i].version = ids[i]
         /\ Due[i] = [snapshot |-> snapshots[i], usable |-> usable]
  BY DEF Due
<1>4. CASE Due[i] # None
  <2>1. snapshots[i] \in Snapshot /\ ids[i] # None
    BY <1>1, <1>3, <1>4, CatalogAssumption DEF Snapshot
  <2>2. usable \/ ~Alive(snapshots[i])
    BY <1>1, <1>3, <1>4, <2>1, UsableMeans
  <2>3. OfVersion(i, snapshots[i])
    BY <1>1, <1>3, <1>4 DEF SnapshotsHeld
  <2> HIDE DEF usable
  <2>4. QED
    BY <1>2, <1>3, <1>4, <2>1, <2>2, <2>3 DEF Update
<1>5. QED
  BY <1>4

LEMMA EnterFlushKeeps == WInv /\ EnterFlush => WInv'
<1> SUFFICES ASSUME WInv, EnterFlush PROVE WInv'
  OBVIOUS
<1>1. /\ IInv /\ TypeOK /\ CatalogTypeOK /\ RefreshHeld /\ MemoryHeld /\ RowsHeld /\ RowsTold
      /\ DoneIsCurrent /\ clock \in Nat
  BY DEF WInv, MemoryHeld, TypeOK, CatalogTypeOK
<1>2. /\ UNCHANGED <<clock, versions, catalogs, starts, refresh, service, ids, sweep, fetching,
                     answers, snapshots, dirty, published, cycle, latest, minutes, raw>>
      /\ lock = None /\ lock' = "market" /\ flush' = Due /\ Due # Nothing
  BY DEF EnterFlush, fundingVars, writeVars
<1>3. cycle.step # "store"
  BY <1>1, <1>2, CatalogAssumption DEF TypeOK
<1>4. flush' \in [Instrument -> Update \cup {None}]
  BY <1>2, DueHolds DEF Due
<1>5. IInv' /\ CatalogTypeOK' /\ RefreshHeld' /\ DoneIsCurrent'
  <2>1. IInv'
    BY <1>1, <1>2, TableAsideKeeps DEF TableAside
  <2>2. RefreshHeld'
    BY <1>1, <1>2, CatalogAssumption DEF RefreshHeld
  <2>3. QED
    BY <1>1, <1>2, <2>1, <2>2 DEF CatalogTypeOK, DoneIsCurrent, Current
<1>6. TypeOK'
  BY <1>1, <1>2, <1>3, <1>4, <1>5 DEF TypeOK
<1>7. Moves /\ Fades
  BY <1>1, <1>2, SameMoves DEF Fades
<1>8. IdsHeld' /\ SnapshotsHeld' /\ NoneAhead' /\ PublishedHeld' /\ CycleHeld'
  BY <1>1, <1>2, <1>7, AnswersKeep, CycleKeeps DEF MemoryHeld
<1>9. FlushHeld'
  <2>1. ASSUME NEW i \in Instrument, NEW f, f = Due[i], f # None
        PROVE  /\ VenueOf[i] = Mexc
               /\ f.snapshot.version = ids[i] /\ OfVersion(i, f.snapshot)
               /\ f.usable => f.snapshot # None /\ f.snapshot.good
               /\ f.usable \/ ~Alive(f.snapshot)
               /\ snapshots[i] = f.snapshot
    BY <2>1, DueHolds
  <2>2. QED
    BY <1>2, <2>1 DEF FlushHeld, OfVersion, Versioned, Alive
<1>10. RowsHeld'
  BY <1>1, <1>2 DEF RowsHeld, RowHeld
<1>11. RowsTold'
  BY <1>1, <1>2, <1>7, ToldKeeps DEF RowsTold
<1>12. QED
  BY <1>5, <1>6, <1>8, <1>9, <1>10, <1>11 DEF WInv, MemoryHeld

\* A row of a version that the flush is for, with its funding.
LEMMA RefundedHolds ==
  ASSUME WInv, NEW r \in Flushed, NEW m \in latest \cup minutes, SameVersion(r, m),
         NEW status \in Status, versions' = versions, raw' = Refilled.raw
  PROVE  /\ Refunded(m, status) \in Row
         /\ Refunded(m, status).instrument = m.instrument
         /\ Refunded(m, status).version = m.version
         /\ Refunded(m, status).cycle = m.cycle
         /\ Refunded(m, status).funding =
              IF flush[m.instrument].usable THEN flush[m.instrument].snapshot ELSE None
         /\ \A x : x = Refunded(m, status) => RowHeld(x)'
<1> DEFINE i == m.instrument
           f == flush[i]
           quality == Quality(status, f.usable)
           x == Refunded(m, status)
<1>1. m \in Row /\ r \in latest /\ r.instrument = i /\ r.version = m.version /\ i \in Instrument
  BY DEF WInv, TypeOK, Row, Flushed, SameVersion
<1>2. /\ f # None /\ f \in Update /\ f.snapshot.version = m.version
      /\ VenueOf[i] = Mexc /\ OfVersion(i, f.snapshot)
      /\ f.usable => f.snapshot # None /\ f.snapshot.good
  BY <1>1 DEF WInv, TypeOK, Flushed, MemoryHeld, FlushHeld
<1>3. f.usable \in BOOLEAN /\ f.snapshot \in Snapshot
  BY <1>2 DEF Update
<1>4. quality \in Status /\ (quality = "ready" => f.usable)
  BY DEF Quality, Status
<1>5. x = [m EXCEPT !.funding = IF f.usable THEN f.snapshot ELSE None, !.status = quality]
  BY DEF Refunded
<1> HIDE DEF f, quality, x
<1>6. /\ x \in Row
      /\ x.instrument = i /\ x.version = m.version /\ x.cycle = m.cycle /\ x.terms = m.terms
      /\ x.status = quality
      /\ x.funding = IF f.usable THEN f.snapshot ELSE None
  BY <1>1, <1>3, <1>4, <1>5 DEF Row
<1>7. f.usable => f.snapshot.id \in raw'
  BY <1>1, <1>2 DEF Refilled, f
<1>8. RowHeld(m)
  BY DEF WInv, RowsHeld
<1>9. PICK v \in versions :
        /\ v.instrument = i /\ v.from = m.version
        /\ m.terms # None /\ VenueOf[i] = Mexc => Multiplier[m.terms] = Multiplier[v.terms]
  BY <1>8 DEF RowHeld
<1>10. f.snapshot.terms = v.terms
  <2>1. PICK w \in versions :
          w.instrument = i /\ w.from = f.snapshot.version /\ w.terms = f.snapshot.terms
    BY <1>2 DEF OfVersion, Versioned
  <2>2. w = v
    BY <1>2, <1>9, <2>1, VersionIsSingle DEF WInv
  <2>3. QED
    BY <2>1, <2>2
<1>11. ASSUME NEW y, y = x PROVE RowHeld(y)'
  <2>1. y.funding # None => f.usable /\ y.funding = f.snapshot
    BY <1>3, <1>6, <1>11
  <2>2. y.status = "ready" => y.funding # None
    BY <1>2, <1>4, <1>6, <1>11
  <2>3. QED
    BY <1>2, <1>6, <1>7, <1>9, <1>10, <1>11, <2>1, <2>2 DEF RowHeld
<1>12. QED
  BY <1>6, <1>11 DEF f, x

\* What the transaction of a flush makes of the tables.
LEMMA RefilledHolds ==
  ASSUME WInv, versions' = versions,
         latest' = Refilled.latest, minutes' = Refilled.minutes, raw' = Refilled.raw
  PROVE  /\ TablesTyped' /\ RowsHeld'
         /\ \A row \in latest' :
              row \in latest \ Flushed \/ \E r \in Flushed : row = Refunded(r, r.status)
<1>1. TablesTyped /\ RowsHeld
  BY DEF WInv, TypeOK, TablesTyped
<1>2. /\ latest' = (latest \ Flushed) \cup {Refunded(r, r.status) : r \in Flushed}
      /\ minutes' = {m \in minutes : \A r \in Flushed : SameVersion(r, m) => r.cycle # m.cycle}
                    \cup UNION {{Refunded(m, r.status) :
                                    m \in {n \in minutes : SameVersion(r, n) /\ r.cycle = n.cycle}} :
                                  r \in Flushed}
  BY DEF Refilled
<1>3. raw \subseteq raw' /\ raw' \subseteq 1..MaxAnswers
  <2>1. raw \subseteq raw'
    BY DEF Refilled
  <2>2. ASSUME NEW q \in Flushed PROVE flush[q.instrument].snapshot.id \in 1..MaxAnswers
    <3>1. q.instrument \in Instrument /\ flush[q.instrument] # None
      BY <1>1 DEF TablesTyped, Row, Flushed
    <3>2. flush[q.instrument] \in Update
      BY <3>1 DEF WInv, TypeOK
    <3>3. QED
      BY <3>2 DEF Update, Snapshot
  <2>3. raw' \subseteq 1..MaxAnswers
    BY <1>1, <2>2 DEF Refilled, TablesTyped
  <2>4. QED
    BY <2>1, <2>3
<1>4. \A r \in Flushed : /\ r \in latest /\ r \in minutes /\ r.status \in Status
                         /\ SameVersion(r, r)
  BY <1>1 DEF Flushed, RowsHeld, TablesTyped, Row, SameVersion
<1>5. ASSUME NEW r \in Flushed, NEW m \in latest \cup minutes, SameVersion(r, m),
             NEW x, x = Refunded(m, r.status)
      PROVE  x \in Row /\ RowHeld(x)' /\ x.instrument = m.instrument /\ x.version = m.version
  BY <1>4, <1>5, RefundedHolds
<1>6. Carried
  BY DEF Carried
<1>7. \A row \in latest \cup minutes : RowHeld(row)'
  BY <1>1, <1>3, <1>6, RowHeldKeeps DEF RowsHeld
<1>8. \A row \in latest' :
         row \in latest \ Flushed \/ \E r \in Flushed : row = Refunded(r, r.status)
  BY <1>2
<1>9. \A row \in minutes' :
         row \in minutes \/ \E r \in Flushed, m \in minutes :
                              SameVersion(r, m) /\ row = Refunded(m, r.status)
  BY <1>2
<1>10. latest' \subseteq Row /\ minutes' \subseteq Row
  BY <1>1, <1>4, <1>5, <1>8, <1>9 DEF TablesTyped
<1>11. \A r, s \in latest' : r.instrument = s.instrument /\ r.version = s.version => r = s
  <2> SUFFICES ASSUME NEW r \in latest', NEW s \in latest',
                      r.instrument = s.instrument, r.version = s.version
               PROVE  r = s
    OBVIOUS
  <2>1. \A p, q \in latest : p.instrument = q.instrument /\ p.version = q.version => p = q
    BY <1>1 DEF TablesTyped
  <2>2. ASSUME NEW y \in latest'
        PROVE  \E p \in latest : /\ p.instrument = y.instrument /\ p.version = y.version
                                 /\ IF p \in Flushed THEN y = Refunded(p, p.status) ELSE y = p
    BY <1>4, <1>5, <1>8
  <2>3. QED
    BY <2>1, <2>2
<1>12. \A row \in latest' \cup minutes' : RowHeld(row)'
  BY <1>4, <1>5, <1>7, <1>8, <1>9
<1>13. latest' \subseteq minutes'
  <2>1. ASSUME NEW s \in latest \ Flushed PROVE s \in minutes'
    <3>1. s \in minutes
      BY <1>1 DEF RowsHeld
    <3>2. \A r \in Flushed : ~SameVersion(r, s)
      BY <1>1, <1>4 DEF TablesTyped, SameVersion
    <3>3. QED
      BY <1>2, <3>1, <3>2
  <2>2. ASSUME NEW r \in Flushed PROVE Refunded(r, r.status) \in minutes'
    BY <1>2, <1>4
  <2>3. QED
    BY <1>8, <2>1, <2>2
<1>14. QED
  BY <1>3, <1>8, <1>10, <1>11, <1>12, <1>13 DEF TablesTyped, RowsHeld

LEMMA CommitFlushKeeps == WInv /\ CommitFlush => WInv'
<1> SUFFICES ASSUME WInv, CommitFlush PROVE WInv'
  OBVIOUS
<1>1. /\ IInv /\ TypeOK /\ CatalogTypeOK /\ RefreshHeld /\ MemoryHeld /\ RowsHeld /\ RowsTold
      /\ DoneIsCurrent /\ clock \in Nat
  BY DEF WInv, MemoryHeld, TypeOK, CatalogTypeOK
<1>2. /\ UNCHANGED <<clock, versions, catalogs, starts, refresh, service, ids, sweep, fetching,
                     answers, snapshots, cycle>>
      /\ lock' = None /\ flush # Nothing /\ flush' = Nothing /\ dirty' = dirty \ Done
  BY DEF CommitFlush
<1>3. lock = "market" /\ cycle.step # "store"
  BY <1>1, <1>2 DEF TypeOK
<1>4. /\ TablesTyped' /\ RowsHeld'
      /\ \A row \in latest' :
           row \in latest \ Flushed \/ \E r \in Flushed : row = Refunded(r, r.status)
  BY <1>2, RefilledHolds DEF CommitFlush
<1>5. ASSUME NEW i \in Instrument
      PROVE  \/ /\ i \in Done /\ flush[i] # None /\ snapshots[i] = flush[i].snapshot
                /\ published'[i].usable = flush[i].usable
                /\ flush[i] \in Update /\ published'[i] \in Token
             \/ /\ i \notin Done /\ published'[i] = published[i]
                /\ i \in dirty' <=> i \in dirty
                /\ flush[i] # None /\ snapshots[i] # None => i \in dirty
  <2>1. CASE i \in Done
    <3>1. flush[i] # None /\ snapshots[i] = flush[i].snapshot /\ flush[i] \in Update
      BY <1>1, <2>1 DEF Done, TypeOK
    <3>2. published'[i] = [id |-> flush[i].snapshot.id, usable |-> flush[i].usable]
      BY <2>1 DEF CommitFlush
    <3>3. flush[i].snapshot.id \in 1..MaxAnswers /\ flush[i].usable \in BOOLEAN
      BY <3>1 DEF Update, Snapshot
    <3>4. QED
      BY <2>1, <3>1, <3>2, <3>3 DEF Token
  <2>2. CASE i \notin Done
    BY <1>1, <1>2, <2>2 DEF CommitFlush, Done, MemoryHeld, FlushHeld
  <2>3. QED
    BY <2>1, <2>2
<1>6. published' \in [Instrument -> Token \cup {None}] /\ dirty' \subseteq Instrument
  BY <1>1, <1>2, <1>5 DEF CommitFlush, TypeOK
<1>7. IInv' /\ CatalogTypeOK' /\ RefreshHeld' /\ DoneIsCurrent'
  <2>1. IInv'
    BY <1>1, <1>2, TableAsideKeeps DEF TableAside
  <2>2. RefreshHeld'
    BY <1>1, <1>2, <1>3, CatalogAssumption DEF RefreshHeld
  <2>3. QED
    BY <1>1, <1>2, <2>1, <2>2 DEF CatalogTypeOK, DoneIsCurrent, Current
<1>8. TypeOK'
  <2>1. lock' # "market" /\ flush' = Nothing /\ flush' \in [Instrument -> Update \cup {None}]
    BY <1>2, CatalogAssumption DEF Nothing
  <2>2. QED
    BY <1>1, <1>2, <1>3, <1>4, <1>6, <1>7, <2>1 DEF TypeOK, TablesTyped
<1>9. IdsHeld' /\ SnapshotsHeld' /\ NoneAhead'
  BY <1>1, <1>2 DEF MemoryHeld, IdsHeld, SnapshotsHeld, NoneAhead, OfVersion, Versioned, Open,
                    CurrentActive
<1>10. PublishedHeld'
  <2>1. ASSUME NEW i \in Instrument, snapshots[i] # None, i \notin dirty'
        PROVE  published'[i].usable \/ ~Alive(snapshots[i])
    BY <1>1, <1>5, <2>1 DEF MemoryHeld, PublishedHeld, FlushHeld
  <2>2. QED
    BY <1>2, <2>1 DEF PublishedHeld, Alive
<1>11. CycleHeld' /\ FlushHeld'
  BY <1>1, <1>2, <1>3 DEF MemoryHeld, CycleHeld, FlushHeld, Nothing
<1>12. ASSUME NEW row \in latest' PROVE Told(row)'
  <2> DEFINE i == row.instrument
  <2>1. SUFFICES ASSUME Agreed(row), snapshots[i] # None, snapshots[i].version = ids[i],
                        i \notin dirty'
                 PROVE  /\ published'[i].usable /\ Alive(snapshots[i]) =>
                             \/ row.funding = snapshots[i]
                             \/ row.funding = None /\ row.status = "unavailable"
                        /\ ~published'[i].usable => row.funding = None
    BY <1>2 DEF Told, Agreed, CurrentActive, Alive
  <2>2. i \in Instrument
    BY <1>4 DEF TablesTyped, Row
  <2>3. CASE row \in latest \ Flushed
    <3>1. i \notin Done
      BY <2>1, <2>3 DEF Done, Flushed, Agreed
    <3>2. Told(row)
      BY <1>1, <2>3 DEF RowsTold
    <3>3. QED
      BY <1>5, <2>1, <2>2, <3>1, <3>2 DEF Told
  <2>4. ASSUME NEW r \in Flushed, row = Refunded(r, r.status)
        PROVE  /\ i \in Done
               /\ row.funding = IF flush[i].usable THEN flush[i].snapshot ELSE None
    <3>1. r \in latest /\ r.status \in Status /\ SameVersion(r, r) /\ flush[r.instrument] # None
      BY <1>1 DEF Flushed, TypeOK, Row, SameVersion
    <3>2. /\ row.instrument = r.instrument
          /\ row.funding = IF flush[r.instrument].usable THEN flush[r.instrument].snapshot ELSE None
      BY <1>2, <2>4, <3>1, RefundedHolds DEF CommitFlush
    <3>3. QED
      BY <1>5, <2>1, <2>2, <3>1, <3>2
  <2>5. QED
    BY <1>4, <1>5, <2>1, <2>2, <2>3, <2>4
<1>13. RowsTold'
  BY <1>12 DEF RowsTold
<1>14. QED
  BY <1>4, <1>7, <1>8, <1>9, <1>10, <1>11, <1>13 DEF WInv, MemoryHeld

----------------------------------------------------------------------------
(* The process *)

\* Once memory is gone only the tables are left.
LEMMA ForgetMarketKeeps ==
  ASSUME TypeOK, IInv', CatalogTypeOK', RefreshHeld', DoneIsCurrent', lock' # "market",
         ForgetMarket, TablesTyped', RowsHeld'
  PROVE  WInv'
<1>1. /\ ids' = Nothing /\ sweep' = Nothing /\ fetching' = Nothing /\ snapshots' = Nothing
      /\ dirty' = {} /\ published' = Nothing /\ flush' = Nothing /\ cycle' = NoCycle
      /\ answers' = answers
  BY DEF ForgetMarket
<1>2. cycle' \in Cycle /\ cycle'.step = "idle" /\ \A i \in Instrument : cycle'.batch[i] = None
  BY <1>1 DEF NoCycle, Nothing, Cycle, Listing
<1>3. TypeOK'
  BY <1>1, <1>2 DEF TypeOK, TablesTyped, Cycle, Nothing, Listing
<1>4. /\ IdsHeld' /\ SnapshotsHeld' /\ NoneAhead' /\ PublishedHeld' /\ FlushHeld'
  BY <1>1 DEF IdsHeld, SnapshotsHeld, NoneAhead, PublishedHeld, FlushHeld, Nothing
<1>5. CycleHeld'
  BY <1>2 DEF CycleHeld
<1>6. RowsTold'
  <2>1. \A row \in latest' : row.instrument \in Instrument
    BY DEF TablesTyped, Row
  <2>2. QED
    BY <1>1, <2>1 DEF RowsTold, Told, Nothing
<1>7. QED
  BY <1>3, <1>4, <1>5, <1>6 DEF WInv, MemoryHeld

\* The tables stay, or get what the transaction in progress had for them.
LEMMA TablesKeep ==
  ASSUME WInv, versions' = versions,
         \/ UNCHANGED writeVars
         \/ /\ cycle.step = "store"
            /\ latest' = Cycled.latest /\ minutes' = Cycled.minutes /\ raw' = Cycled.raw
         \/ /\ flush # Nothing
            /\ latest' = Refilled.latest /\ minutes' = Refilled.minutes /\ raw' = Refilled.raw
  PROVE  TablesTyped' /\ RowsHeld'
<1>1. CASE UNCHANGED writeVars
  BY <1>1 DEF writeVars, WInv, TypeOK, TablesTyped, RowsHeld, RowHeld
<1>2. CASE /\ cycle.step = "store"
           /\ latest' = Cycled.latest /\ minutes' = Cycled.minutes /\ raw' = Cycled.raw
  BY <1>2, CycledHolds
<1>3. CASE /\ flush # Nothing
           /\ latest' = Refilled.latest /\ minutes' = Refilled.minutes /\ raw' = Refilled.raw
  BY <1>3, RefilledHolds
<1>4. QED
  BY <1>1, <1>2, <1>3

LEMMA RestartKeeps == WInv /\ (Restart \/ Die) => WInv'
<1> SUFFICES ASSUME WInv, Restart \/ Die PROVE WInv'
  OBVIOUS
<1>1. TypeOK /\ CatalogTypeOK /\ IInv
  BY DEF WInv, TypeOK
<1>2. Forget /\ ForgetMarket
  BY DEF Restart, Die
<1>3. TablesTyped' /\ RowsHeld'
  BY <1>2, TablesKeep DEF Restart, Die, Forget
<1>4. IInv' /\ CatalogTypeOK'
  <2>1. IInv'
    BY <1>1, <1>2, ForgetKeeps
  <2>2. QED
    BY <1>1, <1>2, <2>1, CatalogTypeKeeps DEF Forget
<1>5. RefreshHeld' /\ DoneIsCurrent' /\ lock' # "market"
  BY <1>2, CatalogAssumption DEF Forget, Idle, RefreshHeld, DoneIsCurrent
<1>6. QED
  BY <1>1, <1>2, <1>3, <1>4, <1>5, ForgetMarketKeeps

LEMMA StoppedKeeps == WInv /\ Stopped => WInv'
<1> SUFFICES ASSUME WInv, Stopped PROVE WInv'
  OBVIOUS
<1>1. TypeOK
  BY DEF WInv
<1>2. IInv' /\ CatalogTypeOK' /\ RefreshHeld' /\ DoneIsCurrent' /\ versions' = versions
  BY StillKeeps DEF Stopped, catalogVars
<1>3. TablesTyped' /\ RowsHeld'
  BY <1>2, TablesKeep DEF Stopped
<1>4. lock' # "market"
  BY <1>1 DEF Stopped, catalogVars, TypeOK
<1>5. QED
  BY <1>1, <1>2, <1>3, <1>4, ForgetMarketKeeps DEF Stopped

LEMMA StopKeeps == WInv /\ Stop => WInv'
<1> SUFFICES ASSUME WInv, Stop PROVE WInv'
  OBVIOUS
<1>1. TypeOK /\ CatalogTypeOK /\ MemoryHeld /\ RowsHeld /\ RowsTold
  BY DEF WInv, TypeOK
<1>2. UNCHANGED <<clock, versions, catalogs, starts, lock, refresh, ids, answers, snapshots,
                  dirty, published, flush, cycle, latest, minutes, raw>>
  BY DEF Stop, catalogVars, writeVars
<1>3. IInv' /\ CatalogTypeOK' /\ RefreshHeld' /\ DoneIsCurrent' /\ Moves
  BY <1>2, StillKeeps DEF catalogVars, Stop
<1>4. Fades
  BY <1>1, <1>2 DEF Fades, CatalogTypeOK
<1>5. TypeOK'
  BY <1>1, <1>2, <1>3 DEF Stop, TypeOK, Nothing, Listing
<1>6. MemoryHeld' /\ RowsHeld' /\ RowsTold'
  BY <1>1, <1>2, <1>3, <1>4, AsideKeeps DEF writeVars
<1>7. QED
  BY <1>3, <1>5, <1>6 DEF WInv

LEMMA TickKeeps == WInv /\ (Tick \/ UNCHANGED vars) => WInv'
<1> SUFFICES ASSUME WInv, Tick \/ UNCHANGED vars PROVE WInv'
  OBVIOUS
<1>1. /\ IInv /\ RefreshHeld /\ TypeOK /\ CatalogTypeOK /\ MemoryHeld /\ RowsHeld /\ RowsTold
      /\ DoneIsCurrent /\ clock \in Nat
  BY DEF WInv, MemoryHeld, TypeOK, CatalogTypeOK
<1>2. /\ UNCHANGED <<versions, catalogs, starts, lock, refresh, service, ids, sweep, fetching,
                     answers, snapshots, dirty, published, flush, cycle, latest, minutes, raw>>
      /\ clock' \in Nat /\ clock' >= clock
  BY <1>1 DEF Tick, vars, catalogVars, fundingVars, writeVars
<1>3. IInv'
  BY <1>1, <1>2, TableAsideKeeps DEF TableAside
<1>4. CatalogTypeOK' /\ RefreshHeld' /\ DoneIsCurrent'
  BY <1>1, <1>2 DEF CatalogTypeOK, RefreshHeld, DoneIsCurrent, Current
<1>5. Moves /\ Fades
  BY <1>2, SameMoves DEF Fades
<1>6. TypeOK'
  BY <1>1, <1>2, <1>4 DEF TypeOK
<1>7. MemoryHeld' /\ RowsHeld' /\ RowsTold'
  BY <1>1, <1>2, <1>4, <1>5, AsideKeeps DEF writeVars
<1>8. QED
  BY <1>3, <1>4, <1>6, <1>7 DEF WInv

----------------------------------------------------------------------------
(* The theorem *)

LEMMA InitHolds == Init => WInv
<1> SUFFICES ASSUME Init PROVE WInv
  OBVIOUS
<1>1. /\ IInv /\ CatalogTypeOK /\ lock = None /\ refresh = Idle
  BY CatalogInitHolds DEF Init, CatalogInit
<1>2. /\ ids = Nothing /\ sweep = Nothing /\ fetching = Nothing /\ answers = 0
      /\ snapshots = Nothing /\ dirty = {} /\ published = Nothing /\ flush = Nothing
      /\ cycle = NoCycle /\ latest = {} /\ minutes = {} /\ raw = {}
  BY DEF Init
<1>3. cycle \in Cycle /\ cycle.step = "idle" /\ \A i \in Instrument : cycle.batch[i] = None
  BY <1>2 DEF NoCycle, Nothing, Cycle, Listing
<1>4. TypeOK
  BY <1>1, <1>2, <1>3, CatalogAssumption, MarketAssumption DEF TypeOK, Cycle, Nothing, Listing
<1>5. RefreshHeld /\ DoneIsCurrent
  BY <1>1 DEF RefreshHeld, DoneIsCurrent, Idle
<1>6. IdsHeld /\ SnapshotsHeld /\ NoneAhead /\ PublishedHeld /\ FlushHeld
  BY <1>2 DEF IdsHeld, SnapshotsHeld, NoneAhead, PublishedHeld, FlushHeld, Nothing
<1>7. CycleHeld /\ RowsHeld /\ RowsTold
  BY <1>2, <1>3 DEF CycleHeld, RowsHeld, RowsTold
<1>8. QED
  BY <1>1, <1>4, <1>5, <1>6, <1>7 DEF WInv, MemoryHeld

LEMMA NextKeeps == WInv /\ [Next]_vars => WInv'
<1> SUFFICES ASSUME WInv, [Next]_vars PROVE WInv'
  OBVIOUS
<1>1. CASE RefreshBegins \/ RefreshEnters \/ RefreshBreaks
  BY <1>1, RefreshAsideKeeps
     DEF RefreshBegins, RefreshEnters, RefreshBreaks, Begin, Enter, ConnectionLost, RefreshStep,
         RefreshFails
<1>2. CASE RefreshGoesOn
  <2>1. CASE Publish /\ LoadIds /\ Aside
    BY <2>1, PublishKeeps
  <2>2. CASE (RefreshWorks \/ LoadFails) /\ UNCHANGED ids /\ Aside
    <3>1. RefreshStep
      BY <2>2 DEF RefreshStep, RefreshFails
    <3>2. UNCHANGED catalogs
      BY <2>2 DEF RefreshWorks, Fetch, PersistVenue, RejectVenue, RecordRun, LoadFails
    <3>3. QED
      BY <2>2, <3>1, <3>2, RefreshAsideKeeps
  <2>3. QED
    BY <1>2, <2>1, <2>2 DEF RefreshGoesOn
<1>3. CASE BeginSweep \/ \E i \in Instrument : Ask(i) \/ Answer(i)
  BY <1>3, BeginSweepKeeps, AskKeeps, AnswerKeeps
<1>4. CASE BeginCycle \/ EndFetch \/ EnterCycle \/ GiveUp \/ CommitCycle \/ LoseCycle
  BY <1>4, BeginCycleKeeps, EndFetchKeeps, EnterCycleKeeps, GiveUpKeeps, CommitCycleKeeps,
     LoseCycleKeeps
<1>5. CASE EnterFlush \/ CommitFlush
  BY <1>5, EnterFlushKeeps, CommitFlushKeeps
<1>6. CASE Stop \/ Stopped \/ Restart \/ Die \/ Tick \/ UNCHANGED vars
  BY <1>6, StopKeeps, StoppedKeeps, RestartKeeps, TickKeeps
<1>7. QED
  BY <1>1, <1>2, <1>3, <1>4, <1>5, <1>6 DEF Next

LEMMA RowsAreOfOneVersion == WInv => RowsOfOneVersion
<1> SUFFICES ASSUME WInv, NEW row \in latest \cup minutes
             PROVE  /\ FundingOfVersion(row) /\ QuantityOfVersion(row)
                    /\ VenueOf[row.instrument] = Mexc /\ row.status = "ready" =>
                         row.funding # None
  BY DEF RowsOfOneVersion
<1>1. RowHeld(row)
  BY DEF WInv, RowsHeld
<1>2. PICK v \in versions :
        /\ v.instrument = row.instrument /\ v.from = row.version
        /\ row.funding # None =>
             /\ row.funding.version = row.version
             /\ row.funding.terms = v.terms
             /\ row.funding.id \in raw
        /\ row.terms # None /\ VenueOf[row.instrument] = Mexc =>
             Multiplier[row.terms] = Multiplier[v.terms]
  BY <1>1 DEF RowHeld
<1>3. VersionOf(row) = v
  <2>1. \A w \in versions : w.instrument = row.instrument /\ w.from = row.version => w = v
    BY <1>2, VersionIsSingle DEF WInv
  <2>2. QED
    BY <1>2, <2>1 DEF VersionOf
<1>4. QED
  BY <1>1, <1>2, <1>3 DEF FundingOfVersion, QuantityOfVersion, RowHeld

LEMMA TheCacheReachesRows == WInv => CacheReachesRows
<1> SUFFICES ASSUME WInv PROVE CacheReachesRows
  OBVIOUS
<1>1. IInv /\ TypeOK /\ IdsHeld /\ SnapshotsHeld /\ RowsHeld /\ RowsTold
  BY DEF WInv, MemoryHeld
<1>2. ASSUME NEW row \in latest, NEW i, i = row.instrument, Settled(i), Agreed(row)
      PROVE  \/ row.funding = IF Usable(snapshots[i], catalogs[i]) THEN snapshots[i] ELSE None
             \/ row.funding = None /\ row.status = "unavailable"
  <2> DEFINE usable == Usable(snapshots[i], catalogs[i])
  <2>1. /\ i \in Instrument /\ snapshots[i] # None /\ snapshots[i] \in Snapshot
        /\ snapshots[i].version = ids[i] /\ Due[i] = None
    BY <1>1, <1>2 DEF Settled, TypeOK, Row
  <2>2. ids[i] # None
    BY <2>1, CatalogAssumption DEF Snapshot
  <2>3. VenueOf[i] = Mexc /\ catalogs[i] # None
    BY <1>1, <2>1, <2>2, CatalogAssumption DEF IdsHeld
  <2>4. usable \in BOOLEAN
    BY DEF Usable
  <2>5. [snapshot |-> snapshots[i], usable |-> usable] # None
    BY <2>1, <2>4, RecordAssumption DEF Update
  <2>6. i \notin dirty /\ published[i] = [id |-> snapshots[i].id, usable |-> usable]
    BY <2>1, <2>3, <2>5 DEF Due
  <2>7. usable <=> Alive(snapshots[i])
    BY <1>1, <2>1, <2>2, UsableMeans
  <2>8. Told(row)
    BY <1>1 DEF RowsTold
  <2> HIDE DEF usable
  <2>9. published[i].usable = usable
    BY <2>6
  <2>10. \/ row.funding = IF usable THEN snapshots[i] ELSE None
         \/ row.funding = None /\ row.status = "unavailable"
    BY <1>2, <2>1, <2>6, <2>7, <2>8, <2>9 DEF Told
  <2>11. QED
    BY <2>10 DEF usable
<1>3. QED
  BY <1>1, <1>2 DEF CacheReachesRows, RowsHeld

\* In every reachable state no row, of the latest or of a minute, mixes two versions of its
\* instrument, whatever a refresh committed while a cycle fetched, a row of MEXC is ready only
\* with its funding, and when nothing is left to flush the latest rows say what the cache says:
\* for any instruments, venues, versions, answers, lost commits, failures and restarts.
THEOREM WritesStayHeld == Spec => []WritesHold
<1>1. WInv => WritesHold
  BY RowsAreOfOneVersion, TheCacheReachesRows DEF WritesHold, WInv
<1>2. QED
  BY <1>1, InitHolds, NextKeeps, PTL DEF Spec
=============================================================================
