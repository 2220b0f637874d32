----------------------------- MODULE MarketWrites -----------------------------
(***************************************************************************)
(* What the market service writes of the state of the markets              *)
(* (scheduler.py, market_store.py), beside the catalog refresh that        *)
(* changes the versions the rows belong to: the L1 cycle of every minute,  *)
(* and for MEXC the funding that a loop of its own reads instrument by     *)
(* instrument (mexc_funding.py) and that every cycle, and a flush in       *)
(* between, joins to the rows.                                             *)
(*                                                                         *)
(* The writers hold _catalog_update_lock and _market_write_lock, always    *)
(* taken in this order, so the first alone decides.                        *)
(***************************************************************************)
EXTENDS CatalogRefresh

CONSTANTS
  Mexc,        \* the venue with contract multipliers and a funding loop
  Multiplier,  \* [Terms -> what a contract of MEXC is worth]
  Life,        \* the longest a funding answer is valid, FUNDING_TTL_SECONDS
  MaxAnswers   \* bound: funding answers

ASSUME MarketAssumption ==
  /\ Mexc \in Venue
  /\ DOMAIN Multiplier = Terms
  /\ Life \in Nat /\ MaxAnswers \in Nat

VARIABLES
  ids,        \* _mexc_version_ids: the version of each active instrument of MEXC
  sweep,      \* the definitions that the funding loop has still to ask for
  fetching,   \* fetch_one in progress, with the version it began with
  answers,    \* bound: the number of funding answers so far
  snapshots,  \* MexcFundingRuntime.snapshots
  dirty,      \* dirty_symbols
  published,  \* _funding_published: what the last flush wrote
  flush,      \* the flush in progress
  cycle,      \* the L1 cycle in progress, or the last one
  latest,     \* latest_market_state
  minutes,    \* market_state_1m
  raw         \* raw_market_observations: the funding answers kept as evidence

fundingVars == <<sweep, fetching, answers, snapshots, dirty>>
writeVars == <<latest, minutes, raw>>
vars == <<clock, catalogVars, service, ids, fundingVars, published, flush, cycle, writeVars>>

Snapshot == [id: 1..MaxAnswers, version: Nat, terms: Terms, good: BOOLEAN, until: Nat]

Token == [id: 1..MaxAnswers, usable: BOOLEAN]

Update == [snapshot: Snapshot, usable: BOOLEAN]

\* A ticker that is itself incomplete makes a row partial whatever the funding says, as
\* "unavailable" does; it is left out.
Status == {"ready", "unfunded", "unavailable"}

Observation ==
  [terms: Terms, status: Status, snapshot: Snapshot \cup {None}, usable: BOOLEAN]

Row ==
  [instrument: Instrument, version: Nat, cycle: Nat, terms: Terms \cup {None}, status: Status,
   funding: Snapshot \cup {None}]

\* None, for an instrument with nothing to flush, is not an update.
ASSUME RecordAssumption == None \notin Update

TypeOK ==
  /\ CatalogTypeOK
  /\ ids \in [Instrument -> Nat \cup {None}]
  /\ sweep \in Listing
  /\ fetching \in [Instrument -> [version: Nat, terms: Terms] \cup {None}]
  /\ answers \in 0..MaxAnswers
  /\ snapshots \in [Instrument -> Snapshot \cup {None}]
  /\ dirty \subseteq Instrument
  /\ published \in [Instrument -> Token \cup {None}]
  /\ flush \in [Instrument -> Update \cup {None}]
  /\ cycle.step \in {"idle", "fetch", "waiting", "store"}
  /\ cycle.at \in Nat \cup {None} /\ cycle.seen \in Listing
  /\ cycle.batch \in [Instrument -> Observation \cup {None}]
  /\ latest \subseteq Row /\ minutes \subseteq Row /\ raw \subseteq 1..MaxAnswers
  /\ (lock = "market") = (cycle.step = "store" \/ flush # Nothing)
  /\ cycle.step = "store" => flush = Nothing
  /\ \A r, s \in latest : r.instrument = s.instrument /\ r.version = s.version => r = s

NoCycle == [step |-> "idle", at |-> None, seen |-> Nothing, batch |-> Nothing]

Init ==
  /\ CatalogInit
  /\ ids = Nothing
  /\ sweep = Nothing /\ fetching = Nothing
  /\ answers = 0
  /\ snapshots = Nothing
  /\ dirty = {}
  /\ published = Nothing
  /\ flush = Nothing
  /\ cycle = NoCycle
  /\ latest = {} /\ minutes = {} /\ raw = {}

ForgetMarket ==
  /\ ids' = Nothing
  /\ sweep' = Nothing /\ fetching' = Nothing
  /\ snapshots' = Nothing
  /\ dirty' = {}
  /\ published' = Nothing
  /\ flush' = Nothing
  /\ cycle' = NoCycle
  /\ UNCHANGED answers

----------------------------------------------------------------------------
(* The catalog, as far as the writers need it *)

CurrentActive == {r \in versions : r.to = None /\ r.terms \in ActiveTerms}

\* load_current_mexc_version_ids
CurrentIds ==
  [i \in Instrument |->
     LET rows == {r \in CurrentActive : r.instrument = i /\ VenueOf[i] = Mexc}
     IN  IF rows = {} THEN None ELSE (CHOOSE r \in rows : TRUE).from]

\* A refresh that persisted MEXC loads the version ids before it publishes anything.
LoadIds == ids' = IF Mexc \in refresh.done THEN CurrentIds ELSE ids

Aside == UNCHANGED <<fundingVars, published, flush, cycle, writeVars>>

RefreshBegins == Begin /\ UNCHANGED ids /\ Aside

RefreshEnters == Enter /\ UNCHANGED ids /\ Aside

\* What a refresh does by itself once it has begun, the lock aside.
RefreshGoesOn ==
  \/ Publish /\ LoadIds /\ Aside
  \/ RefreshWorks /\ UNCHANGED ids /\ Aside
  \/ LoadFails /\ UNCHANGED ids /\ Aside

RefreshBreaks == ConnectionLost /\ UNCHANGED ids /\ Aside

----------------------------------------------------------------------------
(* The funding loop *)

\* funding_reason is None: the answer is valid, and for the definition t.
Usable(s, t) == s # None /\ s.good /\ s.terms = t /\ clock < s.until

\* One sweep at a time, which asks for each active instrument once and forgets the others.
BeginSweep ==
  /\ service = "up"
  /\ sweep = Nothing /\ fetching = Nothing
  /\ answers < MaxAnswers
  /\ sweep' = [i \in Instrument |->
       IF VenueOf[i] = Mexc /\ catalogs[i] \in ActiveTerms THEN catalogs[i] ELSE None]
  /\ snapshots' = [i \in Instrument |-> IF sweep'[i] = None THEN None ELSE snapshots[i]]
  /\ UNCHANGED <<clock, catalogVars, service, ids, fetching, answers, dirty, published, flush,
                 cycle, writeVars>>

Ask(i) ==
  /\ sweep[i] # None
  /\ sweep' = [sweep EXCEPT ![i] = None]
  /\ fetching' = [fetching EXCEPT ![i] =
       IF ids[i] = None THEN None ELSE [version |-> ids[i], terms |-> sweep[i]]]
  /\ UNCHANGED <<clock, catalogVars, service, ids, answers, snapshots, dirty, published, flush,
                 cycle, writeVars>>

\* The catalog still says what it said when the answer was asked for.
StillCurrent(i) ==
  /\ ids[i] = fetching[i].version
  /\ catalogs[i] = fetching[i].terms /\ catalogs[i] \in ActiveTerms

\* The answer, or that there is none, replaces the one before, unless the catalog changed.
Answer(i) ==
  /\ fetching[i] # None
  /\ answers < MaxAnswers
  /\ fetching' = [fetching EXCEPT ![i] = None]
  /\ IF StillCurrent(i)
       THEN /\ \E good \in BOOLEAN, life \in 1..Life :
                 snapshots' = [snapshots EXCEPT ![i] =
                   [id |-> answers + 1, version |-> fetching[i].version,
                    terms |-> fetching[i].terms, good |-> good,
                    until |-> IF good THEN clock + life ELSE 0]]
            /\ dirty' = dirty \cup {i}
            /\ answers' = answers + 1
       ELSE UNCHANGED <<snapshots, dirty, answers>>
  /\ UNCHANGED <<clock, catalogVars, service, ids, sweep, published, flush, cycle, writeVars>>

----------------------------------------------------------------------------
(* The L1 cycle *)

\* funding_quality
Quality(status, usable) ==
  IF status = "unavailable" THEN status
  ELSE IF usable THEN "ready" ELSE "unfunded"

\* The grid of whole minutes; run_cycle is never entered twice.
BeginCycle ==
  /\ service = "up"
  /\ cycle.step = "idle"
  /\ clock % 2 = 0 /\ cycle.at # clock
  /\ cycle' = [step |-> "fetch", at |-> clock, seen |-> catalogs, batch |-> Nothing]
  /\ UNCHANGED <<clock, catalogVars, service, ids, fundingVars, published, flush, writeVars>>

\* parse_mexc_l1, and the parsers of the other venues, which have no funding apart.
Parsed(i) ==
  LET usable == Usable(snapshots[i], cycle.seen[i])
  IN  IF VenueOf[i] = Mexc
        THEN [terms |-> cycle.seen[i], status |-> Quality("ready", usable),
              snapshot |-> snapshots[i], usable |-> usable]
        ELSE [terms |-> cycle.seen[i], status |-> "ready", snapshot |-> None, usable |-> FALSE]

\* The venues that answered within the deadline; the others are stored as unavailable.
EndFetch ==
  /\ cycle.step = "fetch"
  /\ \E answered \in SUBSET Venue :
       cycle' = [cycle EXCEPT
         !.step = "waiting", !.seen = Nothing,
         !.batch = [i \in Instrument |->
           IF VenueOf[i] \in answered /\ cycle.seen[i] \in ActiveTerms THEN Parsed(i) ELSE None]]
  /\ UNCHANGED <<clock, catalogVars, service, ids, fundingVars, published, flush, writeVars>>

\* join_funding, with the lock: for the instruments that the catalog has by now.
Joined(i) ==
  LET o == cycle.batch[i]
      usable == /\ Usable(snapshots[i], catalogs[i])
                /\ ids[i] # None => snapshots[i].version = ids[i]
  IN  IF o = None \/ VenueOf[i] # Mexc \/ catalogs[i] = None
        THEN o
        ELSE [terms |-> o.terms, status |-> Quality(o.status, usable),
              snapshot |-> snapshots[i], usable |-> usable]

EnterCycle ==
  /\ cycle.step = "waiting"
  /\ clock <= cycle.at + 1
  /\ lock = None
  /\ lock' = "market"
  /\ cycle' = [cycle EXCEPT !.step = "store", !.batch = [i \in Instrument |-> Joined(i)]]
  /\ UNCHANGED <<clock, versions, catalogs, starts, refresh, service,
                 ids, fundingVars, published, flush, writeVars>>

\* The deadline of the cycle comes while it waits for the lock.
GiveUp ==
  /\ cycle.step = "waiting"
  /\ clock > cycle.at
  /\ cycle' = [cycle EXCEPT !.step = "idle", !.batch = Nothing]
  /\ UNCHANGED <<clock, catalogVars, service, ids, fundingVars, published, flush, writeVars>>

\* What of the batch a row of the version r takes over: a quantity counted in contracts of
\* another size is refused.
Accepted(r) ==
  LET o == cycle.batch[r.instrument]
  IN  IF o # None /\ (VenueOf[r.instrument] = Mexc => Multiplier[o.terms] = Multiplier[r.terms])
        THEN o ELSE None

\* The funding of the batch is for the version r.
Matches(r) == VenueOf[r.instrument] = Mexc => ids[r.instrument] = r.from

CycleRow(r) ==
  LET o == Accepted(r)
      usable == o # None /\ Matches(r) /\ o.usable
  IN  [instrument |-> r.instrument, version |-> r.from, cycle |-> cycle.at,
       terms |-> IF o = None THEN None ELSE o.terms,
       status |-> IF o = None THEN "unavailable"
                  ELSE IF Matches(r) THEN o.status ELSE Quality(o.status, FALSE),
       funding |-> IF usable THEN o.snapshot ELSE None]

SameVersion(r, s) == r.instrument = s.instrument /\ r.version = s.version

CycleRows == {CycleRow(r) : r \in CurrentActive}

\* _upsert_latest: a version's row of a later cycle stays.
CycledLatest ==
  {s \in latest : \A r \in CycleRows : SameVersion(r, s) => s.cycle > r.cycle}
    \cup {r \in CycleRows : \A s \in latest : SameVersion(r, s) => s.cycle <= r.cycle}

\* _upsert_minute
CycledMinutes ==
  {s \in minutes : \A r \in CycleRows : SameVersion(r, s) => s.cycle # r.cycle} \cup CycleRows

\* _insert_funding_raw: the answers that the rows took over are kept as evidence.
Evidence ==
  {Accepted(r).snapshot.id : r \in {q \in CurrentActive :
     /\ VenueOf[q.instrument] = Mexc /\ Accepted(q) # None /\ Matches(q)
     /\ Accepted(q).snapshot # None /\ Accepted(q).snapshot.good
     /\ Accepted(q).snapshot.version = q.from}}

\* persist_market_cycle: the rows of the current versions.
Cycled == [latest |-> CycledLatest, minutes |-> CycledMinutes, raw |-> raw \cup Evidence]

EndCycle ==
  /\ lock' = None
  /\ cycle' = [cycle EXCEPT !.step = "idle", !.batch = Nothing]
  /\ UNCHANGED <<clock, versions, catalogs, starts, refresh, service,
                 ids, fundingVars, published, flush>>

CommitCycle ==
  /\ cycle.step = "store"
  /\ latest' = Cycled.latest /\ minutes' = Cycled.minutes /\ raw' = Cycled.raw
  /\ EndCycle

\* A failure after the deadline is only that of the cycle: the thread is joined, its error lost.
LoseCycle ==
  /\ cycle.step = "store"
  /\ clock > cycle.at
  /\ UNCHANGED writeVars
  /\ EndCycle

----------------------------------------------------------------------------
(* The flush of the funding, every two seconds *)

\* Writes what is new, and never again once it has been written.
DueMutant ==
  [i \in Instrument |->
     IF /\ VenueOf[i] = Mexc /\ catalogs[i] # None
        /\ snapshots[i] # None
        /\ snapshots[i].version = ids[i]
        /\ i \in dirty
       THEN [snapshot |-> snapshots[i], usable |-> Usable(snapshots[i], catalogs[i])] ELSE None]

\* What a flush that has the lock would write: what is new or has become unusable.
Due ==
  [i \in Instrument |->
     LET usable == Usable(snapshots[i], catalogs[i])
     IN  IF /\ VenueOf[i] = Mexc /\ catalogs[i] # None
            /\ snapshots[i] # None
            /\ snapshots[i].version = ids[i]
            /\ i \in dirty \/ published[i] # [id |-> snapshots[i].id, usable |-> usable]
           THEN [snapshot |-> snapshots[i], usable |-> usable] ELSE None]

\* A flush that waits for the lock when a stop comes goes on.
EnterFlush ==
  /\ service \in {"up", "stopping"}
  /\ flush = Nothing
  /\ lock = None
  /\ Due # Nothing
  /\ flush' = Due
  /\ lock' = "market"
  /\ UNCHANGED <<clock, versions, catalogs, starts, refresh, service,
                 ids, fundingVars, published, cycle, writeVars>>

\* The rows that a flush updates: those of the version that the answer was asked for.
Flushed ==
  {r \in latest :
     /\ flush[r.instrument] # None
     /\ flush[r.instrument].snapshot.version = r.version
     /\ \E v \in CurrentActive : v.instrument = r.instrument /\ v.from = r.version}

\* A row with the funding of the flush, if its instrument's latest row has the status.
Refunded(r, status) ==
  [r EXCEPT
     !.funding = IF flush[r.instrument].usable THEN flush[r.instrument].snapshot ELSE None,
     !.status = Quality(status, flush[r.instrument].usable)]

\* persist_mexc_funding: the latest row and the minute that it came from.
Refilled ==
  [latest |-> (latest \ Flushed) \cup {Refunded(r, r.status) : r \in Flushed},
   minutes |-> {m \in minutes : \A r \in Flushed : SameVersion(r, m) => r.cycle # m.cycle}
               \cup UNION {{Refunded(m, r.status) :
                               m \in {n \in minutes : SameVersion(r, n) /\ r.cycle = n.cycle}} :
                             r \in Flushed},
   raw |-> raw \cup {flush[r.instrument].snapshot.id : r \in {q \in Flushed :
             flush[q.instrument].snapshot.good}}]

\* Only what the transaction wrote is done: not an answer that came meanwhile.
Done == {i \in Instrument : flush[i] # None /\ snapshots[i] = flush[i].snapshot}

CommitFlush ==
  /\ flush # Nothing
  /\ latest' = Refilled.latest /\ minutes' = Refilled.minutes /\ raw' = Refilled.raw
  /\ dirty' = dirty \ Done
  /\ published' = [i \in Instrument |->
       IF i \in Done THEN [id |-> flush[i].snapshot.id, usable |-> flush[i].usable]
       ELSE published[i]]
  /\ flush' = Nothing
  /\ lock' = None
  /\ UNCHANGED <<clock, versions, catalogs, starts, refresh, service,
                 ids, sweep, fetching, answers, snapshots, cycle>>

----------------------------------------------------------------------------
(* The process *)

\* SIGTERM: the funding loop is cancelled, a cycle or a flush in progress finishes.
Stop ==
  /\ service = "up"
  /\ service' = "stopping"
  /\ sweep' = Nothing /\ fetching' = Nothing
  /\ UNCHANGED <<clock, catalogVars, ids, answers, snapshots, dirty, published, flush, cycle,
                 writeVars>>

Stopped ==
  /\ service = "stopping"
  /\ refresh.step = "idle" /\ cycle.step = "idle" /\ flush = Nothing
  /\ service' = "down"
  /\ ForgetMarket
  /\ UNCHANGED <<clock, catalogVars, writeVars>>

Restart ==
  /\ service = "down"
  /\ Forget
  /\ ForgetMarket
  /\ UNCHANGED writeVars

\* A database error in a task or a kill ends the process; the transaction in progress commits
\* or does not.
Die ==
  /\ service # "down"
  /\ Forget
  /\ ForgetMarket
  /\ \/ UNCHANGED writeVars
     \/ /\ cycle.step = "store"
        /\ latest' = Cycled.latest /\ minutes' = Cycled.minutes /\ raw' = Cycled.raw
     \/ /\ flush # Nothing
        /\ latest' = Refilled.latest /\ minutes' = Refilled.minutes /\ raw' = Refilled.raw

Tick ==
  /\ clock < MaxClock
  /\ refresh.step = "idle" \/ clock < refresh.begun + MaxLag
  /\ clock' = clock + 1
  /\ UNCHANGED <<catalogVars, service, ids, fundingVars, published, flush, cycle, writeVars>>

Next ==
  \/ RefreshBegins \/ RefreshEnters \/ RefreshGoesOn \/ RefreshBreaks
  \/ BeginSweep
  \/ \E i \in Instrument : Ask(i) \/ Answer(i)
  \/ BeginCycle \/ EndFetch \/ EnterCycle \/ GiveUp \/ CommitCycle \/ LoseCycle
  \/ EnterFlush \/ CommitFlush
  \/ Stop \/ Stopped \/ Restart \/ Die
  \/ Tick

Spec == Init /\ [][Next]_vars

----------------------------------------------------------------------------
(* Properties *)

VersionOf(row) ==
  CHOOSE v \in versions : v.instrument = row.instrument /\ v.from = row.version

\* The funding in a row was asked for when the row's version was the current one, for its
\* definition, and the answer is kept as evidence.
FundingOfVersion(row) ==
  row.funding # None =>
    /\ row.funding.version = row.version
    /\ row.funding.terms = VersionOf(row).terms
    /\ row.funding.id \in raw

\* The quantities of MEXC in a row were counted with the multiplier of the row's version.
QuantityOfVersion(row) ==
  row.terms # None /\ VenueOf[row.instrument] = Mexc =>
    Multiplier[row.terms] = Multiplier[VersionOf(row).terms]

\* Although a cycle fetches without the lock, and a refresh may commit versions that memory
\* never learns of, no row mixes two versions; and a row of MEXC is ready only with its funding.
RowsOfOneVersion ==
  \A row \in latest \cup minutes :
    /\ FundingOfVersion(row)
    /\ QuantityOfVersion(row)
    /\ VenueOf[row.instrument] = Mexc /\ row.status = "ready" => row.funding # None

\* The row of a version that memory and database agree on.
Agreed(row) ==
  /\ row.version = ids[row.instrument]
  /\ \E v \in CurrentActive : v.instrument = row.instrument /\ v.from = row.version

\* Nothing is left for a flush to write for i.
Settled(i) == flush = Nothing /\ snapshots[i] # None /\ snapshots[i].version = ids[i] /\ Due[i] = None

\* When nothing is left to write, the rows say what the cache says, in both tables: no answer is
\* lost to a cycle or a flush that read an older one, and no value outlives its validity.  Only
\* the row of a venue that did not answer the cycle may be empty until the next answer.
CacheReachesRows ==
  \A row \in latest :
    /\ row \in minutes
    /\ Settled(row.instrument) /\ Agreed(row) =>
         \/ row.funding = IF Usable(snapshots[row.instrument], catalogs[row.instrument])
                            THEN snapshots[row.instrument] ELSE None
         \/ row.funding = None /\ row.status = "unavailable"

\* What two tables, a cache and three writers must agree on: whose a row's values are, and that
\* the newest answer gets there.
WritesHold == TypeOK /\ RowsOfOneVersion /\ CacheReachesRows
=============================================================================
