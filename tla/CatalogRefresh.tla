---------------------------- MODULE CatalogRefresh ----------------------------
(***************************************************************************)
(* The catalog of the market service: what the venues list, the versions   *)
(* PostgreSQL keeps of it (slowly changing rows with a validity interval,  *)
(* catalog_store.py) and the copy in memory that every other task reads    *)
(* (service.py).  A refresh fetches all venues without a lock, then        *)
(* persists one transaction per venue and loads the result back while it   *)
(* holds _catalog_update_lock.                                             *)
(*                                                                         *)
(* Time runs in half minutes, so that a version can begin inside the       *)
(* minute of a candle.  The modules that extend this one add the tasks     *)
(* that share the lock.                                                    *)
(***************************************************************************)
EXTENDS Integers, FiniteSets

CONSTANTS
  Instrument,
  Venue,
  VenueOf,      \* [Instrument -> Venue]
  Terms,        \* what a definition can say (the semantic hash)
  ActiveTerms,  \* the definitions of an active instrument
  None,
  MaxClock,     \* bound: the latest clock value
  MaxVersions,  \* bound: rows of venue_instrument_versions
  MaxLag        \* the longest a refresh takes: 1 ends it within its minute

ASSUME CatalogAssumption ==
  /\ VenueOf \in [Instrument -> Venue]
  /\ ActiveTerms \subseteq Terms
  /\ None \notin Terms /\ None \notin Nat
  /\ None \notin {"refresh", "candles", "market"}
  /\ MaxLag \in Nat

VARIABLES
  clock,
  versions,   \* venue_instrument_versions
  catalogs,   \* _catalogs, by instrument
  starts,     \* _candle_version_starts
  lock,       \* the holder of _catalog_update_lock
  refresh,    \* the refresh in progress
  service     \* "starting", "up", "stopping" or "down"

catalogVars == <<versions, catalogs, starts, lock, refresh>>

Listing == [Instrument -> Terms \cup {None}]

Version == [instrument: Instrument, terms: Terms, from: Nat, to: Nat \cup {None}]

Refresh ==
  [step: {"idle", "fetch", "waiting", "persist", "load"}, begun: Nat, seen: Listing, at: Nat,
   todo: SUBSET Venue, done: SUBSET Venue]

Nothing == [i \in Instrument |-> None]

Idle ==
  [step |-> "idle", begun |-> 0, seen |-> Nothing, at |-> 0, todo |-> {}, done |-> {}]

CatalogTypeOK ==
  /\ clock \in Nat
  /\ versions \subseteq Version
  /\ catalogs \in Listing
  /\ starts \in [Instrument -> Nat \cup {None}]
  /\ lock \in {None, "refresh", "candles", "market"}
  /\ refresh \in Refresh
  /\ service \in {"starting", "up", "stopping", "down"}

CatalogInit ==
  /\ clock = 0
  /\ versions = {}
  /\ catalogs = Nothing
  /\ starts = Nothing
  /\ lock = None
  /\ refresh = Idle
  /\ service = "starting"

----------------------------------------------------------------------------
(* The versions in the database *)

Current(i) == {r \in versions : r.instrument = i /\ r.to = None}

\* What load_current_candle_version_starts reads.
CurrentStarts ==
  [i \in Instrument |->
     IF Current(i) = {} THEN None ELSE (CHOOSE r \in Current(i) : TRUE).from]

\* The instruments of v whose definition is not that of their current version.
Changed(v) ==
  {i \in Instrument :
     /\ VenueOf[i] = v
     /\ {r.terms : r \in Current(i)} # {refresh.seen[i]} \ {None}}

\* Closes a version without asking whether it began earlier.
LaterMutant(v) == TRUE

\* _require_later, for every version that the venue's transaction would close.
Later(v) == \A i \in Changed(v) : \A r \in Current(i) : refresh.at > r.from

\* The transaction of one venue: close what changed or vanished, open what is new.
VersionsClosed(v) ==
  {IF r.to = None /\ r.instrument \in Changed(v) THEN [r EXCEPT !.to = refresh.at] ELSE r :
     r \in versions}

VersionsOpened(v) ==
  {[instrument |-> i, terms |-> refresh.seen[i], from |-> refresh.at, to |-> None] :
     i \in {j \in Changed(v) : refresh.seen[j] # None}}

Persisted(v) == VersionsClosed(v) \cup VersionsOpened(v)

----------------------------------------------------------------------------
(* The refresh *)

\* The loop refreshes on a grid of whole minutes, the start of the process at once.
Begin ==
  /\ service \in {"starting", "up"}
  /\ service = "up" => clock % 2 = 0
  /\ refresh.step = "idle"
  /\ refresh' = [step |-> "fetch", begun |-> clock, seen |-> Nothing, at |-> 0, todo |-> {}, done |-> {}]
  /\ UNCHANGED <<clock, versions, catalogs, starts, lock, service>>

\* What the venues list; one that fails or lists nothing has nothing to persist.  The answers to
\* a refresh of the loop come after the whole minute.
Fetch ==
  /\ refresh.step = "fetch"
  /\ service = "up" => clock > refresh.begun
  /\ \E listing \in Listing :
       refresh' = [step |-> "waiting", begun |-> refresh.begun, seen |-> listing, at |-> clock,
                   todo |-> {VenueOf[i] : i \in {j \in Instrument : listing[j] # None}},
                   done |-> {}]
  /\ UNCHANGED <<clock, versions, catalogs, starts, lock, service>>

Enter ==
  /\ refresh.step = "waiting"
  /\ lock = None
  /\ lock' = "refresh"
  /\ refresh' = [refresh EXCEPT !.step = "persist"]
  /\ UNCHANGED <<clock, versions, catalogs, starts, service>>

PersistVenue(v) ==
  /\ refresh.step = "persist"
  /\ v \in refresh.todo
  /\ Later(v)
  /\ Cardinality(Persisted(v)) <= MaxVersions
  /\ versions' = Persisted(v)
  /\ refresh' = [refresh EXCEPT !.todo = @ \ {v}, !.done = @ \cup {v}]
  /\ UNCHANGED <<clock, catalogs, starts, lock, service>>

\* CatalogStoreError: the venue's transaction is rolled back, the others go on.
RejectVenue(v) ==
  /\ refresh.step = "persist"
  /\ v \in refresh.todo
  /\ refresh' = [refresh EXCEPT !.todo = @ \ {v}]
  /\ UNCHANGED <<clock, versions, catalogs, starts, lock, service>>

RecordRun ==
  /\ refresh.step = "persist"
  /\ refresh.todo = {}
  /\ refresh' = [refresh EXCEPT !.step = "load"]
  /\ UNCHANGED <<clock, versions, catalogs, starts, lock, service>>

\* The first refresh has no loop around it that logs the error and goes on.
AfterFailure == IF service = "starting" THEN "down" ELSE service

\* The connection is lost, in a commit that may have succeeded or when the run is recorded:
\* MarketServiceError.
ConnectionLost ==
  /\ refresh.step = "persist"
  /\ \/ UNCHANGED versions
     \/ \E v \in refresh.todo :
          /\ Later(v)
          /\ Cardinality(Persisted(v)) <= MaxVersions
          /\ versions' = Persisted(v)
  /\ refresh' = Idle
  /\ lock' = None
  /\ service' = AfterFailure
  /\ UNCHANGED <<clock, catalogs, starts>>

\* CandleStoreError: no candle is accepted until a refresh succeeds.
LoadFails ==
  /\ refresh.step = "load"
  /\ starts' = Nothing
  /\ refresh' = Idle
  /\ lock' = None
  /\ service' = AfterFailure
  /\ UNCHANGED <<clock, versions, catalogs>>

\* Publishes whatever was fetched.
PublishedMutant ==
  [i \in Instrument |-> IF refresh.seen[i] # None THEN refresh.seen[i] ELSE catalogs[i]]

\* Memory learns what a venue listed only if its transaction committed.
Published ==
  [i \in Instrument |-> IF VenueOf[i] \in refresh.done THEN refresh.seen[i] ELSE catalogs[i]]

\* A stop lets the refresh in progress finish.
Publish ==
  /\ refresh.step = "load"
  /\ starts' = CurrentStarts
  /\ catalogs' = Published
  /\ refresh' = Idle
  /\ lock' = None
  /\ service' = IF service = "starting" THEN "up" ELSE service
  /\ UNCHANGED <<clock, versions>>

\* What a refresh does once it has begun, the lock aside, until it publishes.
RefreshWorks ==
  \/ Fetch
  \/ \E v \in Venue : PersistVenue(v) \/ RejectVenue(v)
  \/ RecordRun

RefreshFails == ConnectionLost \/ LoadFails

RefreshStep == Begin \/ Enter \/ RefreshWorks \/ RefreshFails \/ Publish

\* Memory is gone and the process starts again with its first refresh.
Forget ==
  /\ catalogs' = Nothing
  /\ starts' = Nothing
  /\ lock' = None
  /\ refresh' = Idle
  /\ service' = "starting"
  /\ UNCHANGED <<clock, versions>>

----------------------------------------------------------------------------
(* Properties *)

\* The validity intervals of an instrument's versions are never empty and never overlap, so at
\* most one is current: what the lookup of a candle's version relies on (candle_store.py).
VersionsDisjoint ==
  /\ \A r \in versions : r.to = None \/ r.from < r.to
  /\ \A r, s \in versions :
       r.instrument = s.instrument /\ r # s /\ r.from <= s.from => r.to # None /\ r.to <= s.from

\* Memory knows no version that the database does not hold, whatever failed on the way:
\* what a refresh publishes was committed before.
MemoryWasPersisted ==
  \A i \in Instrument :
    /\ starts[i] # None => \E r \in versions : r.instrument = i /\ r.from = starts[i]
    /\ catalogs[i] # None => \E r \in versions : r.instrument = i /\ r.terms = catalogs[i]
=============================================================================
