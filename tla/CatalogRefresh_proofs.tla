------------------------- MODULE CatalogRefresh_proofs -------------------------
(***************************************************************************)
(* What the catalog refresh keeps by itself, whatever tasks run beside it: *)
(* the lemmas that the proofs about CandleCollection and MarketWrites      *)
(* share.                                                                  *)
(*                                                                         *)
(* IInv: that a version opened by a refresh begins after every other one   *)
(* ended follows from one refresh running at a time, each with the clock   *)
(* of its own fetch (NotAhead).                                            *)
(*                                                                         *)
(* MInv: that memory learns only what was committed follows from what a    *)
(* refresh has committed being in the table until it publishes it          *)
(* (Written), whatever fails in between.                                   *)
(***************************************************************************)
EXTENDS CatalogRefresh, FiniteSetTheorems, TLAPS

Typed ==
  /\ clock \in Nat
  /\ versions \subseteq Version
  /\ refresh \in Refresh

\* Nothing in the table is later than t.
NotAhead(t) == \A r \in versions : r.from <= t /\ (r.to # None => r.to <= t)

Fetched == refresh.step \in {"waiting", "persist", "load"}

IInv ==
  /\ Typed
  /\ NotAhead(clock)
  /\ Fetched => refresh.at <= clock /\ NotAhead(refresh.at)
  /\ VersionsDisjoint

LEMMA CatalogInitHolds == CatalogInit => IInv /\ CatalogTypeOK
<1> SUFFICES ASSUME CatalogInit PROVE IInv /\ CatalogTypeOK
  OBVIOUS
<1> USE CatalogAssumption DEF CatalogInit
<1>1. Typed
  BY DEF Typed, Listing, Refresh, Idle, Nothing
<1>2. NotAhead(clock) /\ VersionsDisjoint
  BY DEF NotAhead, VersionsDisjoint
<1>3. ~Fetched
  BY DEF Fetched, Idle
<1>4. CatalogTypeOK
  BY <1>1 DEF Typed, CatalogTypeOK, Nothing, Listing
<1>5. QED
  BY <1>1, <1>2, <1>3, <1>4 DEF IInv

\* The steps that leave the table, the listing and the refresh alone; time may pass.
TableAside ==
  /\ UNCHANGED <<versions, refresh>>
  /\ clock' \in Nat /\ clock' >= clock

LEMMA TableAsideKeeps == IInv /\ TableAside => IInv'
<1> SUFFICES ASSUME IInv, TableAside PROVE IInv'
  OBVIOUS
<1>1. Typed'
  BY DEF IInv, Typed, TableAside
<1>2. NotAhead(clock)'
  BY CatalogAssumption DEF IInv, Typed, TableAside, NotAhead, Version
<1>3. (Fetched => refresh.at <= clock /\ NotAhead(refresh.at))'
  BY DEF IInv, Typed, TableAside, NotAhead, Fetched, Refresh
<1>4. VersionsDisjoint'
  BY DEF IInv, TableAside, VersionsDisjoint
<1>5. QED
  BY <1>1, <1>2, <1>3, <1>4 DEF IInv

\* The transaction of a venue leaves the intervals disjoint and not later than its refresh.
LEMMA PersistedKeeps ==
  ASSUME Typed, VersionsDisjoint, NotAhead(refresh.at), NEW v \in Venue, Later(v)
  PROVE  /\ Persisted(v) \subseteq Version
         /\ \A r \in Persisted(v) : r.from <= refresh.at /\ (r.to # None => r.to <= refresh.at)
         /\ \A r \in Persisted(v) : r.to = None \/ r.from < r.to
         /\ \A r, s \in Persisted(v) :
              r.instrument = s.instrument /\ r # s /\ r.from <= s.from =>
                r.to # None /\ r.to <= s.from
<1> DEFINE at == refresh.at
<1> DEFINE Shut(r) == r.to = None /\ r.instrument \in Changed(v)
<1> DEFINE Closed == {r \in versions : Shut(r)}
<1> DEFINE Opened == {i \in Changed(v) : refresh.seen[i] # None}
<1>1. at \in Nat /\ refresh.seen \in Listing
  BY DEF Typed, Refresh
<1>2. ASSUME NEW r \in Persisted(v)
      PROVE  \/ r \in versions /\ ~Shut(r)
             \/ \E c \in Closed :
                  r = [instrument |-> c.instrument, terms |-> c.terms, from |-> c.from, to |-> at]
             \/ \E i \in Opened :
                  r = [instrument |-> i, terms |-> refresh.seen[i], from |-> at, to |-> None]
  <2>1. \A c \in versions : [c EXCEPT !.to = refresh.at]
           = [instrument |-> c.instrument, terms |-> c.terms, from |-> c.from, to |-> at]
    BY DEF Typed, Version
  <2>2. QED
    BY <1>2, <2>1 DEF Persisted, VersionsClosed, VersionsOpened
<1>3. \A c \in Closed :
         c \in Version /\ c.from < at /\ c.to = None /\ c.instrument \in Changed(v)
  BY <1>1 DEF Later, Current, Typed, Version, Changed
<1>4. \A i \in Opened : i \in Changed(v) /\ i \in Instrument /\ refresh.seen[i] \in Terms
  BY <1>1 DEF Changed, Listing
<1>5. \A r \in versions : r \in Version /\ r.from <= at /\ (r.to # None => r.to <= at)
  BY DEF Typed, NotAhead
<1>6. None \notin Nat
  BY CatalogAssumption
<1>7. \A r \in versions : r.to = None \/ r.from < r.to
  BY DEF VersionsDisjoint
<1>8. \A r, s \in versions :
         r.instrument = s.instrument /\ r # s /\ r.from <= s.from => r.to # None /\ r.to <= s.from
  BY DEF VersionsDisjoint
<1> HIDE DEF at, Closed, Opened
<1>9. ASSUME NEW r \in Persisted(v)
      PROVE  /\ r \in Version
             /\ r.from <= at /\ (r.to # None => r.to <= at)
             /\ r.to = None \/ r.from < r.to
  <2>1. CASE r \in versions /\ ~Shut(r)
    BY <2>1, <1>5, <1>7
  <2>2. CASE \E c \in Closed :
               r = [instrument |-> c.instrument, terms |-> c.terms, from |-> c.from, to |-> at]
    BY <2>2, <1>1, <1>3, <1>6 DEF Version
  <2>3. CASE \E i \in Opened :
               r = [instrument |-> i, terms |-> refresh.seen[i], from |-> at, to |-> None]
    BY <2>3, <1>1, <1>4 DEF Version
  <2>4. QED
    BY <1>2, <1>9, <2>1, <2>2, <2>3
<1>10. ASSUME NEW r \in Persisted(v), NEW s \in Persisted(v),
              r.instrument = s.instrument, r # s, r.from <= s.from
       PROVE  r.to # None /\ r.to <= s.from
  <2>1. CASE \E i \in Opened :
               r = [instrument |-> i, terms |-> refresh.seen[i], from |-> at, to |-> None]
    <3>1. PICK i \in Opened :
            r = [instrument |-> i, terms |-> refresh.seen[i], from |-> at, to |-> None]
      BY <2>1
    <3>2. s.from <= at /\ s \in Version
      BY <1>9
    <3>3. s.from = at
      BY <1>1, <1>10, <3>1, <3>2 DEF Version
    <3>4. ~(\E j \in Opened :
              s = [instrument |-> j, terms |-> refresh.seen[j], from |-> at, to |-> None])
      BY <1>10, <3>1
    <3>5. ~(\E c \in Closed :
              s = [instrument |-> c.instrument, terms |-> c.terms, from |-> c.from, to |-> at])
      BY <1>1, <1>3, <3>3 DEF Version
    <3>6. s \in versions /\ ~Shut(s)
      BY <1>2, <3>4, <3>5
    <3>7. s.instrument \in Changed(v)
      BY <1>4, <1>10, <3>1
    <3>8. s.to # None /\ s.to <= at /\ s.from < s.to
      BY <1>5, <1>7, <3>6, <3>7
    <3>9. QED
      BY <1>1, <1>5, <3>3, <3>6, <3>8 DEF Version
  <2>2. CASE r \in versions /\ ~Shut(r)
    <3>1. CASE s \in versions /\ ~Shut(s)
      BY <1>8, <1>10, <2>2, <3>1
    <3>2. CASE \E c \in Closed :
                 s = [instrument |-> c.instrument, terms |-> c.terms, from |-> c.from, to |-> at]
      <4>1. PICK c \in Closed :
              s = [instrument |-> c.instrument, terms |-> c.terms, from |-> c.from, to |-> at]
        BY <3>2
      <4>2. c \in versions /\ Shut(c)
        BY DEF Closed
      <4>3. r # c
        BY <2>2, <4>2
      <4>4. QED
        BY <1>8, <1>10, <2>2, <4>1, <4>2, <4>3
    <3>3. CASE \E i \in Opened :
                 s = [instrument |-> i, terms |-> refresh.seen[i], from |-> at, to |-> None]
      <4>1. s.from = at /\ s.instrument \in Changed(v)
        BY <1>4, <3>3
      <4>2. r.to # None
        BY <1>10, <2>2, <4>1
      <4>3. QED
        BY <1>5, <2>2, <4>1, <4>2
    <3>4. QED
      BY <1>2, <3>1, <3>2, <3>3
  <2>3. CASE \E c \in Closed :
               r = [instrument |-> c.instrument, terms |-> c.terms, from |-> c.from, to |-> at]
    <3>1. PICK c \in Closed :
            r = [instrument |-> c.instrument, terms |-> c.terms, from |-> c.from, to |-> at]
      BY <2>3
    <3>2. c \in versions /\ c.to = None /\ c.from \in Nat
      BY <1>3 DEF Closed, Version
    <3>3. r.to = at /\ r.to # None /\ r.from = c.from /\ r.instrument = c.instrument
      BY <1>1, <1>6, <3>1
    <3>4. ASSUME NEW d \in versions, d.instrument = c.instrument, c.from <= d.from
          PROVE  d = c
      BY <1>8, <3>2, <3>4
    <3>5. CASE s \in versions /\ ~Shut(s)
      <4>1. s = c
        BY <1>10, <3>3, <3>4, <3>5
      <4>2. QED
        BY <3>5, <4>1 DEF Closed
    <3>6. CASE \E d \in Closed :
                 s = [instrument |-> d.instrument, terms |-> d.terms, from |-> d.from, to |-> at]
      <4>1. PICK d \in Closed :
              s = [instrument |-> d.instrument, terms |-> d.terms, from |-> d.from, to |-> at]
        BY <3>6
      <4>2. d = c
        BY <1>10, <3>3, <3>4, <4>1 DEF Closed
      <4>3. QED
        BY <1>10, <3>1, <4>1, <4>2
    <3>7. CASE \E i \in Opened :
                 s = [instrument |-> i, terms |-> refresh.seen[i], from |-> at, to |-> None]
      BY <1>1, <3>3, <3>7
    <3>8. QED
      BY <1>2, <3>5, <3>6, <3>7
  <2>4. QED
    BY <1>2, <2>1, <2>2, <2>3
<1>11. QED
  BY <1>9, <1>10 DEF at

\* A step that puts a transaction of the refresh into the table and goes on or ends.
LEMMA CommitKeeps ==
  ASSUME IInv, Fetched, NEW v \in Venue, Later(v), versions' = Persisted(v),
         UNCHANGED clock, refresh' \in Refresh,
         Fetched' => refresh'.at = refresh.at
  PROVE  IInv'
<1>1. /\ Persisted(v) \subseteq Version
      /\ \A r \in Persisted(v) : r.from <= refresh.at /\ (r.to # None => r.to <= refresh.at)
      /\ \A r \in Persisted(v) : r.to = None \/ r.from < r.to
      /\ \A r, s \in Persisted(v) :
           r.instrument = s.instrument /\ r # s /\ r.from <= s.from => r.to # None /\ r.to <= s.from
  BY PersistedKeeps DEF IInv
<1>2. Typed'
  BY <1>1 DEF IInv, Typed
<1>3. VersionsDisjoint'
  BY <1>1 DEF VersionsDisjoint
<1>4. \A r \in versions' : r.from <= refresh.at /\ (r.to # None => r.to <= refresh.at)
  BY <1>1
<1>5. refresh.at \in Nat /\ refresh.at <= clock /\ clock \in Nat
  BY DEF IInv, Typed, Refresh
<1>6. NotAhead(clock)'
  BY <1>1, <1>4, <1>5, CatalogAssumption DEF NotAhead, Version
<1>7. (Fetched => refresh.at <= clock /\ NotAhead(refresh.at))'
  BY <1>4, <1>5 DEF NotAhead
<1>8. QED
  BY <1>2, <1>3, <1>6, <1>7 DEF IInv

\* A step of the refresh that leaves the table alone and keeps the time of its fetch.
LEMMA MoveKeeps ==
  ASSUME IInv, UNCHANGED <<clock, versions>>, refresh' \in Refresh,
         Fetched' => Fetched /\ refresh'.at = refresh.at
  PROVE  IInv'
<1>1. Typed'
  BY DEF IInv, Typed
<1>2. VersionsDisjoint' /\ NotAhead(clock)'
  BY DEF IInv, VersionsDisjoint, NotAhead
<1>3. (Fetched => refresh.at <= clock /\ NotAhead(refresh.at))'
  BY DEF IInv, NotAhead
<1>4. QED
  BY <1>1, <1>2, <1>3 DEF IInv

LEMMA RefreshKeeps == IInv /\ RefreshStep => IInv'
<1> SUFFICES ASSUME IInv, RefreshStep PROVE IInv'
  OBVIOUS
<1>1. refresh \in Refresh /\ clock \in Nat
  BY DEF IInv, Typed
<1>2. Idle \in Refresh /\ Idle.step = "idle"
  BY CatalogAssumption DEF Idle, Refresh, Nothing, Listing
<1>3. CASE Begin
  <2>1. refresh' \in Refresh /\ refresh'.step = "fetch"
    BY <1>1, <1>2, <1>3 DEF Begin, Refresh, Idle
  <2>2. QED
    BY <1>1, <1>3, <2>1, MoveKeeps DEF Begin, Fetched
<1>4. CASE Fetch
  <2>1. refresh' \in Refresh /\ refresh'.step = "waiting" /\ refresh'.at = clock
    <3>1. PICK listing \in Listing :
            refresh' = [step |-> "waiting", begun |-> refresh.begun, seen |-> listing,
                        at |-> clock,
                        todo |-> {VenueOf[i] : i \in {j \in Instrument : listing[j] # None}},
                        done |-> {}]
      BY <1>4 DEF Fetch
    <3>2. {VenueOf[i] : i \in {j \in Instrument : listing[j] # None}} \in SUBSET Venue
      BY CatalogAssumption
    <3>3. QED
      BY <1>1, <3>1, <3>2 DEF Refresh
  <2>2. UNCHANGED <<clock, versions>>
    BY <1>4 DEF Fetch
  <2>3. QED
    BY <1>1, <2>1, <2>2 DEF IInv, Typed, NotAhead, VersionsDisjoint, Fetched
<1>5. CASE Enter
  <2>1. refresh' \in Refresh /\ refresh'.at = refresh.at
    BY <1>1, <1>5 DEF Enter, Refresh
  <2>2. QED
    BY <1>1, <1>5, <2>1, MoveKeeps DEF Enter, Fetched
<1>6. ASSUME NEW v \in Venue, PersistVenue(v) PROVE IInv'
  <2>1. refresh' \in Refresh /\ refresh'.at = refresh.at
    BY <1>1, <1>6 DEF PersistVenue, Refresh
  <2>2. QED
    BY <1>6, <2>1, CommitKeeps DEF PersistVenue, Fetched
<1>7. ASSUME NEW v \in Venue, RejectVenue(v) PROVE IInv'
  <2>1. refresh' \in Refresh /\ refresh'.at = refresh.at
    BY <1>1, <1>7 DEF RejectVenue, Refresh
  <2>2. QED
    BY <1>1, <1>7, <2>1, MoveKeeps DEF RejectVenue, Fetched
<1>8. CASE RecordRun
  <2>1. refresh' \in Refresh /\ refresh'.at = refresh.at
    BY <1>1, <1>8 DEF RecordRun, Refresh
  <2>2. QED
    BY <1>1, <1>8, <2>1, MoveKeeps DEF RecordRun, Fetched
<1>9. CASE ConnectionLost
  <2>1. UNCHANGED clock /\ refresh' = Idle /\ Fetched
    BY <1>9 DEF ConnectionLost, Fetched
  <2>2. CASE versions' = versions
    BY <1>1, <1>2, <2>1, <2>2, MoveKeeps DEF Fetched
  <2>3. ASSUME NEW v \in refresh.todo, Later(v), versions' = Persisted(v) PROVE IInv'
    <3>1. v \in Venue
      BY <1>1 DEF Refresh
    <3>2. QED
      BY <1>2, <2>1, <2>3, <3>1, CommitKeeps DEF Fetched
  <2>4. QED
    BY <1>9, <2>2, <2>3 DEF ConnectionLost
<1>10. CASE LoadFails
  BY <1>1, <1>2, <1>10, MoveKeeps DEF LoadFails, Fetched
<1>11. CASE Publish
  BY <1>1, <1>2, <1>11, MoveKeeps DEF Publish, Fetched
<1>12. QED
  BY <1>3, <1>4, <1>5, <1>6, <1>7, <1>8, <1>9, <1>10, <1>11
     DEF RefreshStep, RefreshWorks, RefreshFails

LEMMA ForgetKeeps == IInv /\ Forget => IInv'
<1> SUFFICES ASSUME IInv, Forget PROVE IInv'
  OBVIOUS
<1>1. Idle \in Refresh /\ Idle.step = "idle"
  BY CatalogAssumption DEF Idle, Refresh, Nothing, Listing
<1>2. QED
  BY <1>1, MoveKeeps DEF Forget, Fetched, IInv, Typed

\* At most one version of an instrument is current.
LEMMA CurrentIsSingle ==
  ASSUME IInv, NEW i, NEW r \in Current(i), NEW s \in Current(i)
  PROVE  r = s
<1>1. r \in versions /\ s \in versions /\ r.instrument = s.instrument /\ r.to = None /\ s.to = None
  BY DEF Current
<1>2. r.from \in Nat /\ s.from \in Nat
  BY <1>1 DEF IInv, Typed, Version
<1>3. r.from <= s.from \/ s.from <= r.from
  BY <1>2
<1>4. QED
  BY <1>1, <1>3 DEF IInv, VersionsDisjoint

\* What a commit makes current: of another venue, or unchanged, what was; else what it opens.
LEMMA CommitCurrent ==
  ASSUME Typed, NEW v \in Venue, versions' = Persisted(v), NEW i \in Instrument
  PROVE  /\ i \notin Changed(v) => Current(i)' = Current(i)
         /\ i \in Changed(v) =>
              Current(i)' = IF refresh.seen[i] = None THEN {}
                ELSE {[instrument |-> i, terms |-> refresh.seen[i], from |-> refresh.at, to |-> None]}
<1> DEFINE Shut(r) == r.to = None /\ r.instrument \in Changed(v)
           New(j) == [instrument |-> j, terms |-> refresh.seen[j], from |-> refresh.at, to |-> None]
<1>1. refresh.at \in Nat /\ None \notin Nat
  BY CatalogAssumption DEF Typed, Refresh
<1>2. \A r \in versions : Shut(r) => [r EXCEPT !.to = refresh.at].to # None
  BY <1>1 DEF Typed, Version
<1>3. ASSUME NEW r \in Current(i)'
      PROVE  \/ r \in Current(i) /\ i \notin Changed(v)
             \/ i \in Changed(v) /\ refresh.seen[i] # None /\ r = New(i)
  <2>1. r \in Persisted(v) /\ r.instrument = i /\ r.to = None
    BY DEF Current
  <2>2. \/ r \in versions /\ ~Shut(r)
        \/ \E c \in versions : Shut(c) /\ r = [c EXCEPT !.to = refresh.at]
        \/ \E j \in Changed(v) : refresh.seen[j] # None /\ r = New(j)
    BY <2>1 DEF Persisted, VersionsClosed, VersionsOpened
  <2>3. CASE r \in versions /\ ~Shut(r)
    BY <2>1, <2>3 DEF Current
  <2>4. ~\E c \in versions : Shut(c) /\ r = [c EXCEPT !.to = refresh.at]
    BY <1>2, <2>1
  <2>5. ASSUME NEW j \in Changed(v), refresh.seen[j] # None, r = New(j)
        PROVE  i \in Changed(v) /\ refresh.seen[i] # None /\ r = New(i)
    <3>1. j = i
      BY <2>1, <2>5
    <3>2. QED
      BY <2>5, <3>1
  <2>6. QED
    BY <2>2, <2>3, <2>4, <2>5
<1>4. ASSUME NEW r \in Current(i), i \notin Changed(v) PROVE r \in Current(i)'
  BY <1>4 DEF Current, Persisted, VersionsClosed, VersionsOpened
<1>5. ASSUME i \in Changed(v), refresh.seen[i] # None PROVE New(i) \in Current(i)'
  <2>1. New(i) \in Persisted(v)
    BY <1>5 DEF Persisted, VersionsClosed, VersionsOpened
  <2>2. QED
    BY <2>1 DEF Current
<1>6. i \notin Changed(v) => Current(i)' = Current(i)
  BY <1>3, <1>4
<1>7. ASSUME i \in Changed(v)
      PROVE  Current(i)' = IF refresh.seen[i] = None THEN {} ELSE {New(i)}
  BY <1>3, <1>5, <1>7
<1>8. QED
  BY <1>6, <1>7

LEMMA CatalogTypeKeeps ==
  ASSUME CatalogTypeOK, IInv', RefreshStep \/ Forget \/ UNCHANGED <<catalogs, starts>>,
         lock' \in {None, "refresh", "candles", "market"},
         service' \in {"starting", "up", "stopping", "down"}
  PROVE  CatalogTypeOK'
<1>1. clock' \in Nat /\ versions' \subseteq Version /\ refresh' \in Refresh
  BY DEF IInv, Typed
<1>2. catalogs' \in Listing /\ starts' \in [Instrument -> Nat \cup {None}]
  <2>1. CASE UNCHANGED <<catalogs, starts>>
    BY <2>1 DEF CatalogTypeOK
  <2>2. CASE Forget \/ LoadFails
    BY <2>2 DEF Forget, LoadFails, Nothing, Listing, CatalogTypeOK
  <2>3. CASE Publish
    <3>1. catalogs' \in Listing
      BY <2>3 DEF Publish, Published, Listing, CatalogTypeOK, Refresh
    <3>2. ASSUME NEW i \in Instrument, Current(i) # {}
          PROVE  (CHOOSE r \in Current(i) : TRUE).from \in Nat
      <4>1. (CHOOSE r \in Current(i) : TRUE) \in Current(i)
        BY <3>2
      <4>2. Current(i) \subseteq Version
        BY DEF Current, CatalogTypeOK
      <4>3. QED
        BY <4>1, <4>2 DEF Version
    <3>3. starts' \in [Instrument -> Nat \cup {None}]
      BY <2>3, <3>2 DEF Publish, CurrentStarts
    <3>4. QED
      BY <3>1, <3>3
  <2>4. QED
    BY <2>1, <2>2, <2>3 DEF RefreshStep, RefreshWorks, RefreshFails, Begin, Fetch, Enter,
       PersistVenue, RejectVenue, RecordRun, ConnectionLost
<1>3. QED
  BY <1>1, <1>2 DEF CatalogTypeOK

\* What the refresh holds: the lock while it writes and loads, and what it has committed.
RefreshHeld ==
  /\ refresh.step \in {"persist", "load"} => lock = "refresh"
  /\ refresh.step \in {"idle", "fetch", "waiting"} => refresh.done = {}

\* What a step of the refresh does to what other tasks share with it.
LEMMA RefreshShares ==
  ASSUME IInv, CatalogTypeOK, RefreshHeld, RefreshStep
  PROVE  /\ \/ lock' = lock
            \/ lock = None /\ lock' = "refresh"
            \/ lock = "refresh" /\ lock' = None
         /\ refresh'.step \in {"persist", "load"} => lock' = "refresh"
         /\ refresh'.step \in {"idle", "fetch", "waiting"} => refresh'.done = {}
         /\ service' # "up" => service # "up"
         /\ \/ versions' = versions
            \/ Fetched /\ \E v \in Venue : versions' = Persisted(v)
         /\ UNCHANGED clock
<1>1. refresh \in Refresh
  BY DEF IInv, Typed
<1> USE <1>1 DEF RefreshHeld, Refresh
<1>2. CASE Begin
  BY <1>2 DEF Begin
<1>3. CASE Fetch
  BY <1>3 DEF Fetch
<1>4. CASE Enter
  BY <1>4 DEF Enter
<1>5. ASSUME NEW v \in Venue, PersistVenue(v) \/ RejectVenue(v)
      PROVE  /\ lock' = lock
             /\ refresh'.step = refresh.step /\ refresh.step = "persist"
             /\ service' = service
             /\ versions' = versions \/ (Fetched /\ versions' = Persisted(v))
             /\ UNCHANGED clock
  BY <1>5 DEF PersistVenue, RejectVenue, Fetched
<1>6. CASE RecordRun
  BY <1>6 DEF RecordRun
<1>7. CASE ConnectionLost
  BY <1>7 DEF ConnectionLost, Idle, AfterFailure, Fetched
<1>8. CASE LoadFails
  BY <1>8 DEF LoadFails, Idle, AfterFailure
<1>9. CASE Publish
  BY <1>9 DEF Publish, Idle
<1>10. QED
  BY <1>2, <1>3, <1>4, <1>5, <1>6, <1>7, <1>8, <1>9
     DEF RefreshStep, RefreshWorks, RefreshFails

----------------------------------------------------------------------------
(* Memory *)

\* What the refresh has committed of its listing is in the table.
Written ==
  \A i \in Instrument :
    VenueOf[i] \in refresh.done /\ refresh.seen[i] # None =>
      \E r \in versions : r.instrument = i /\ r.terms = refresh.seen[i]

MInv == IInv /\ Written /\ MemoryWasPersisted

LEMMA MemoryInitHolds == CatalogInit => MInv
<1> SUFFICES ASSUME CatalogInit PROVE MInv
  OBVIOUS
<1>1. Written
  BY DEF CatalogInit, Idle, Written
<1>2. MemoryWasPersisted
  BY DEF CatalogInit, Nothing, MemoryWasPersisted
<1>3. QED
  BY <1>1, <1>2, CatalogInitHolds DEF MInv

\* No version is forgotten: a step can only close it.
Carried ==
  \A r \in versions : \E s \in versions' :
    s.instrument = r.instrument /\ s.terms = r.terms /\ s.from = r.from

\* The transaction of a venue closes versions and forgets none.
LEMMA PersistedCarries ==
  ASSUME Typed, NEW v \in Venue
  PROVE  \A r \in versions : \E s \in Persisted(v) :
           s.instrument = r.instrument /\ s.terms = r.terms /\ s.from = r.from
<1> SUFFICES ASSUME NEW r \in versions
             PROVE  \E s \in Persisted(v) :
                      s.instrument = r.instrument /\ s.terms = r.terms /\ s.from = r.from
  OBVIOUS
<1> DEFINE s == IF r.to = None /\ r.instrument \in Changed(v)
                  THEN [r EXCEPT !.to = refresh.at] ELSE r
<1>1. s \in Persisted(v)
  BY DEF Persisted, VersionsClosed, VersionsOpened
<1>2. s.instrument = r.instrument /\ s.terms = r.terms /\ s.from = r.from
  BY DEF Typed, Version
<1>3. QED
  BY <1>1, <1>2

\* What a venue listed is in the table once its transaction committed, changed or not.
LEMMA PersistedWrites ==
  ASSUME Typed, NEW v \in Venue, NEW i \in Instrument, VenueOf[i] = v, refresh.seen[i] # None
  PROVE  \E r \in Persisted(v) : r.instrument = i /\ r.terms = refresh.seen[i]
<1>1. CASE i \in Changed(v)
  <2> DEFINE new ==
        [instrument |-> i, terms |-> refresh.seen[i], from |-> refresh.at, to |-> None]
  <2>1. new \in Persisted(v)
    BY <1>1 DEF Persisted, VersionsClosed, VersionsOpened
  <2>2. QED
    BY <2>1
<1>2. CASE i \notin Changed(v)
  <2>1. {r.terms : r \in Current(i)} = {refresh.seen[i]} \ {None}
    BY <1>2 DEF Changed
  <2>2. PICK r \in Current(i) : r.terms = refresh.seen[i]
    BY <2>1
  <2>3. r \in versions /\ r.instrument = i
    BY DEF Current
  <2>4. QED
    BY <2>2, <2>3, PersistedCarries
<1>3. QED
  BY <1>1, <1>2

\* A step that forgets no version and lets memory keep what it knows, or forget it.
LEMMA MemoryKeeps ==
  ASSUME MemoryWasPersisted, Carried,
         \A i \in Instrument : catalogs'[i] = catalogs[i] \/ catalogs'[i] = None,
         \A i \in Instrument : starts'[i] = starts[i] \/ starts'[i] = None
  PROVE  MemoryWasPersisted'
<1> SUFFICES ASSUME NEW i \in Instrument
             PROVE  /\ starts'[i] # None =>
                         \E r \in versions' : r.instrument = i /\ r.from = starts'[i]
                    /\ catalogs'[i] # None =>
                         \E r \in versions' : r.instrument = i /\ r.terms = catalogs'[i]
  BY DEF MemoryWasPersisted
<1>1. /\ starts[i] # None => \E r \in versions : r.instrument = i /\ r.from = starts[i]
      /\ catalogs[i] # None => \E r \in versions : r.instrument = i /\ r.terms = catalogs[i]
  BY DEF MemoryWasPersisted
<1>2. QED
  BY <1>1 DEF Carried

\* A step of the refresh that forgets no version and commits nothing more.
LEMMA WrittenKeeps ==
  ASSUME Written, Carried,
         \/ refresh'.seen = refresh.seen /\ refresh'.done \subseteq refresh.done
         \/ refresh'.done = {}
  PROVE  Written'
  BY DEF Written, Carried

LEMMA MRefreshKeeps == MInv /\ RefreshStep => Written' /\ MemoryWasPersisted'
<1> SUFFICES ASSUME MInv, RefreshStep PROVE Written' /\ MemoryWasPersisted'
  OBVIOUS
<1>1. Typed /\ Written /\ MemoryWasPersisted /\ refresh \in Refresh
  BY DEF MInv, IInv, Typed
<1>2. versions' = versions => Carried
  BY DEF Carried
<1>3. Idle.done = {}
  BY DEF Idle
<1>4. CASE Begin \/ Fetch \/ Enter \/ RecordRun \/ \E v \in Venue : RejectVenue(v)
  <2>1. UNCHANGED <<versions, catalogs, starts>>
    BY <1>4 DEF Begin, Fetch, Enter, RecordRun, RejectVenue
  <2>2. \/ refresh'.seen = refresh.seen /\ refresh'.done \subseteq refresh.done
        \/ refresh'.done = {}
    BY <1>1, <1>4 DEF Begin, Fetch, Enter, RecordRun, RejectVenue, Refresh
  <2>3. QED
    BY <1>1, <1>2, <2>1, <2>2, WrittenKeeps, MemoryKeeps
<1>5. ASSUME NEW v \in Venue, PersistVenue(v) PROVE Written' /\ MemoryWasPersisted'
  <2>1. versions' = Persisted(v) /\ UNCHANGED <<catalogs, starts>>
    BY <1>5 DEF PersistVenue
  <2>2. refresh'.seen = refresh.seen /\ refresh'.done = refresh.done \cup {v}
    BY <1>1, <1>5 DEF PersistVenue, Refresh
  <2>3. Carried
    BY <1>1, <2>1, PersistedCarries DEF Carried
  <2>4. Written'
    <3> SUFFICES ASSUME NEW i \in Instrument, VenueOf[i] \in refresh'.done, refresh.seen[i] # None
                 PROVE  \E r \in versions' : r.instrument = i /\ r.terms = refresh.seen[i]
      BY <2>2 DEF Written
    <3>1. CASE VenueOf[i] = v
      BY <1>1, <2>1, <3>1, PersistedWrites
    <3>2. CASE VenueOf[i] \in refresh.done
      BY <1>1, <2>3, <3>2 DEF Written, Carried
    <3>3. QED
      BY <2>2, <3>1, <3>2
  <2>5. QED
    BY <1>1, <2>1, <2>3, <2>4, MemoryKeeps
<1>6. CASE ConnectionLost
  <2>1. refresh' = Idle /\ UNCHANGED <<catalogs, starts>>
    BY <1>6 DEF ConnectionLost
  <2>2. Carried
    <3>1. versions' = versions \/ \E v \in Venue : versions' = Persisted(v)
      BY <1>1, <1>6 DEF ConnectionLost, Refresh
    <3>2. ASSUME NEW v \in Venue, versions' = Persisted(v) PROVE Carried
      BY <1>1, <3>2, PersistedCarries DEF Carried
    <3>3. QED
      BY <1>2, <3>1, <3>2
  <2>3. QED
    BY <1>1, <1>3, <2>1, <2>2, WrittenKeeps, MemoryKeeps
<1>7. CASE LoadFails
  <2>1. UNCHANGED <<versions, catalogs>> /\ refresh' = Idle
    BY <1>7 DEF LoadFails
  <2>2. \A i \in Instrument : starts'[i] = None
    BY <1>7 DEF LoadFails, Nothing
  <2>3. QED
    BY <1>1, <1>2, <1>3, <2>1, <2>2, WrittenKeeps, MemoryKeeps
<1>8. CASE Publish
  <2>1. versions' = versions /\ refresh' = Idle
    BY <1>8 DEF Publish
  <2>2. ASSUME NEW i \in Instrument, starts'[i] # None
        PROVE  \E r \in versions : r.instrument = i /\ r.from = starts'[i]
    <3>1. starts'[i] = IF Current(i) = {} THEN None ELSE (CHOOSE r \in Current(i) : TRUE).from
      BY <1>8 DEF Publish, CurrentStarts
    <3>2. Current(i) # {}
      BY <2>2, <3>1
    <3>3. (CHOOSE r \in Current(i) : TRUE) \in Current(i)
      BY <3>2
    <3>4. QED
      BY <3>1, <3>2, <3>3 DEF Current
  <2>3. ASSUME NEW i \in Instrument, catalogs'[i] # None
        PROVE  \E r \in versions : r.instrument = i /\ r.terms = catalogs'[i]
    <3>1. catalogs'[i] = IF VenueOf[i] \in refresh.done THEN refresh.seen[i] ELSE catalogs[i]
      BY <1>8 DEF Publish, Published
    <3>2. QED
      BY <1>1, <2>3, <3>1 DEF Written, MemoryWasPersisted
  <2>4. MemoryWasPersisted'
    BY <2>1, <2>2, <2>3 DEF MemoryWasPersisted
  <2>5. QED
    BY <1>1, <1>2, <1>3, <2>1, <2>4, WrittenKeeps
<1>9. QED
  BY <1>4, <1>5, <1>6, <1>7, <1>8 DEF RefreshStep, RefreshWorks, RefreshFails
=============================================================================
