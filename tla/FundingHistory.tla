--------------------------- MODULE FundingHistory ---------------------------
(***************************************************************************)
(* The history of settled funding (funding_runtime.py, funding_store.py,   *)
(* sources/funding.py).  A sweep loads the current versions and the last   *)
(* recorded settlements, asks every venue for what came after them, and    *)
(* saves all answers in one transaction; an operator may start a sweep     *)
(* while another one runs.  Meanwhile venues publish settlements late, a   *)
(* venue may correct a rate, and the catalog ends and starts versions.     *)
(***************************************************************************)
EXTENDS Integers, FiniteSets, FiniteSetsExt, Sequences

CONSTANTS
  Symbols,     \* instruments, each asked of its venue
  Sweeps,      \* sweeps that may run at once
  Interval,    \* steps between settlements, and the catalog's funding interval
  Grace,       \* FUNDING_PUBLICATION_GRACE
  Lookback,    \* FUNDING_LOOKBACK
  Settlements, \* bound: settlements of an instrument
  MaxTime,     \* bound: steps of the clock
  MaxVersions, \* bound: versions of an instrument
  MaxSetbacks   \* bound: corrected rates, failing requests and failing transactions

ASSUME FundingAssumption ==
  /\ {Interval, Grace, Lookback, Settlements, MaxTime, MaxVersions, MaxSetbacks} \subseteq Nat
  /\ Interval > 0

Never == MaxTime + 1
EventAt(e) == e * Interval

VARIABLES
  time,
  published,  \* how many settlements each venue shows, in their order
  rate,       \* the venues' rates of the settlements: 0, or 1 once corrected
  versions,   \* venue_instrument_versions of each instrument: valid_from and valid_to
  events,     \* funding_events: by instrument, version and settlement the rate and the sweep's time
  sweep,      \* each sweep's step, its time and what it loaded and fetched
  lastRun,    \* status of the last collector run
  setbacks

fundingVars == <<time, published, rate, versions, events, sweep, lastRun, setbacks>>

NoSweep == [step |-> "idle", at |-> 0, from |-> [i \in Symbols |-> Never],
            latest |-> [i \in Symbols |-> 0], answers |-> [i \in Symbols |-> {}],
            asked |-> {}, failed |-> {}]

FundingInit ==
  /\ time = 0
  /\ published = [i \in Symbols |-> 0]
  /\ rate = [i \in Symbols |-> [e \in 1..Settlements |-> 0]]
  /\ versions = [i \in Symbols |-> <<[from |-> 0, to |-> Never]>>]
  /\ events = {}
  /\ sweep = [s \in Sweeps |-> NoSweep]
  /\ lastRun = "none" /\ setbacks = 0

-----------------------------------------------------------------------------
(* The venues and the catalog *)

FundingTick ==
  /\ time < MaxTime /\ time' = time + 1
  /\ UNCHANGED <<published, rate, versions, events, sweep, lastRun, setbacks>>

PublishSettlement(i) ==
  /\ published[i] < Settlements /\ EventAt(published[i] + 1) <= time
  /\ published' = [published EXCEPT ![i] = @ + 1]
  /\ UNCHANGED <<time, rate, versions, events, sweep, lastRun, setbacks>>

Revise(i, e) ==
  /\ e <= published[i] /\ rate[i][e] = 0
  /\ setbacks < MaxSetbacks /\ setbacks' = setbacks + 1
  /\ rate' = [rate EXCEPT ![i][e] = 1]
  /\ UNCHANGED <<time, published, versions, events, sweep, lastRun>>

Current(i) == versions[i][Len(versions[i])]
Listed(i) == Current(i).to = Never

(***************************************************************************)
(* A refresh of the catalog ends the version; a changed definition starts  *)
(* the next one at once.  Never at the instant of a settlement: the row    *)
(* carries the time its catalog was fetched, and a settlement between the  *)
(* fetch and the commit may already be recorded under the old version.     *)
(***************************************************************************)
EndVersion(i, changed) ==
  /\ Listed(i) /\ Current(i).from < time
  /\ time % Interval # 0
  /\ changed => Len(versions[i]) < MaxVersions
  /\ LET ended == [versions[i] EXCEPT ![Len(versions[i])].to = time] IN
     versions' = [versions EXCEPT ![i] =
       IF changed THEN Append(ended, [from |-> time, to |-> Never]) ELSE ended]
  /\ UNCHANGED <<time, published, rate, events, sweep, lastRun, setbacks>>

-----------------------------------------------------------------------------
(* run_once *)

RowsOf(i) == {r \in events : r.i = i}

(* Mutant: the time of the last sweep that recorded a settlement. *)
LatestMutant(i) == Max({0} \cup {r.at : r \in RowsOf(i)})

(* load_latest_funding_times: over all versions of the instrument *)
Latest(i) == Max({0} \cup {EventAt(r.e) : r \in RowsOf(i)})

StartSweep(s) ==
  /\ sweep[s].step = "idle"
  /\ sweep' = [sweep EXCEPT ![s] = [NoSweep EXCEPT
       !.step = "fetching", !.at = time,
       !.from = [i \in Symbols |-> IF Listed(i) THEN Current(i).from ELSE Never],
       !.latest = [i \in Symbols |-> Latest(i)]]]
  /\ UNCHANGED <<time, published, rate, versions, events, lastRun, setbacks>>

(* funding_request_window: only when a settlement may be due *)
Due(w, i) ==
  /\ w.from[i] # Never
  /\ w.latest[i] > 0 => w.at >= w.latest[i] + Interval + Grace
  /\ w.from[i] <= w.at

InWindow(w, i, t) ==
  /\ t >= w.from[i] /\ t >= w.at - Lookback
  /\ t > w.latest[i] /\ t <= w.at

(* fetch_funding_history and _parse_events *)
Answers(w, i) == {[e |-> e, rate |-> rate[i][e]] : e \in {n \in 1..published[i] : InWindow(w, i, EventAt(n))}}

ToAsk(w) == {i \in Symbols : Due(w, i)} \ w.asked

Fetch(s, i) ==
  /\ sweep[s].step = "fetching" /\ i \in ToAsk(sweep[s])
  /\ sweep' = [sweep EXCEPT ![s].asked = @ \cup {i}, ![s].answers[i] = Answers(sweep[s], i)]
  /\ UNCHANGED <<time, published, rate, versions, events, lastRun, setbacks>>

FetchFails(s, i) ==
  /\ sweep[s].step = "fetching" /\ i \in ToAsk(sweep[s])
  /\ setbacks < MaxSetbacks /\ setbacks' = setbacks + 1
  /\ sweep' = [sweep EXCEPT ![s].asked = @ \cup {i}, ![s].failed = @ \cup {i}]
  /\ UNCHANGED <<time, published, rate, versions, events, lastRun>>

(* _version_covering *)
Covering(i, t) == {v \in DOMAIN versions[i] : versions[i][v].from <= t /\ t < versions[i][v].to}
VersionAt(i, t) == CHOOSE v \in Covering(i, t) : TRUE

Received(w) == UNION {{i} \X w.answers[i] : i \in Symbols}

(* What the transaction would insert, before it looks for what is there already. *)
NewRows(w) ==
  {[i |-> x[1], v |-> VersionAt(x[1], EventAt(x[2].e)), e |-> x[2].e, rate |-> x[2].rate, at |-> w.at] :
     x \in {y \in Received(w) : Covering(y[1], EventAt(y[2].e)) # {}}}

SameEvent(r, q) == r.i = q.i /\ r.v = q.v /\ r.e = q.e

(* A recorded rate differs: FundingConflictError rolls back the whole sweep. *)
Conflict(w) == \E r \in NewRows(w), q \in events : SameEvent(r, q) /\ r.rate # q.rate

EveryoneAnswered(w) == ToAsk(w) = {}

(* How the sweep ended: a version the catalog does not have any more makes it partial. *)
SweepStatus(w) ==
  LET rejected == \E x \in Received(w) : Covering(x[1], EventAt(x[2].e)) = {}
  IN  IF w.asked = w.failed THEN "failed"
      ELSE IF w.failed # {} \/ rejected THEN "partial" ELSE "succeeded"

(* persist_funding_sweep, unless nothing was asked *)
Persist(s) ==
  LET w == sweep[s]
  IN /\ w.step = "fetching" /\ EveryoneAnswered(w)
     /\ sweep' = [sweep EXCEPT ![s] = NoSweep]
     /\ IF Conflict(w) \/ w.asked = {}
        THEN UNCHANGED <<events, lastRun>>
        ELSE /\ events' = events \cup {r \in NewRows(w) : ~\E q \in events : SameEvent(r, q)}
             /\ lastRun' = SweepStatus(w)
     /\ UNCHANGED <<time, published, rate, versions, setbacks>>

(* The sweep is stopped, or its transaction fails. *)
SweepLost(s) ==
  /\ sweep[s].step = "fetching"
  /\ setbacks < MaxSetbacks /\ setbacks' = setbacks + 1
  /\ sweep' = [sweep EXCEPT ![s] = NoSweep]
  /\ UNCHANGED <<time, published, rate, versions, events, lastRun>>

FundingNext ==
  \/ FundingTick
  \/ \E i \in Symbols :
       PublishSettlement(i) \/ (\E e \in 1..Settlements : Revise(i, e))
         \/ (\E changed \in BOOLEAN : EndVersion(i, changed))
  \/ \E s \in Sweeps :
       StartSweep(s) \/ (\E i \in Symbols : Fetch(s, i) \/ FetchFails(s, i)) \/ Persist(s) \/ SweepLost(s)

SweepGoesOn(s) == StartSweep(s) \/ (\E i \in Symbols : Fetch(s, i)) \/ Persist(s)

(* Somebody starts sweeps again and again, and every sweep goes on. *)
FundingFairness ==
  /\ WF_fundingVars(FundingTick)
  /\ \A s \in Sweeps : WF_fundingVars(SweepGoesOn(s))

FundingSpec == FundingInit /\ [][FundingNext]_fundingVars /\ FundingFairness

-----------------------------------------------------------------------------
(* Properties *)

(* The history of a version has no holes: whatever sweeps overlap or fail, a     *)
(* settlement is recorded before a later one of its version, unless it was       *)
(* already out of the lookback of the sweep that recorded the later one; each    *)
(* settlement is recorded once, under the version of its time.                   *)
NoHoles ==
  /\ \A r, q \in events : r.i = q.i /\ r.e = q.e => r = q
  /\ \A r \in events :
       LET v == versions[r.i][r.v] IN
       /\ v.from <= EventAt(r.e) /\ EventAt(r.e) < v.to
       /\ \A e \in 1..(r.e - 1) :
            \/ EventAt(e) < v.from
            \/ EventAt(e) < r.at - Lookback
            \/ \E q \in events : q.i = r.i /\ q.v = r.v /\ q.e = e

Recorded(i, e) == \E r \in events : r.i = i /\ r.e = e

(* A published settlement of the version in force does not stay missing as long  *)
(* as sweeps are started before it leaves the lookback; a conflict about a       *)
(* corrected rate never stands in the way for ever.                              *)
StillMissing(i, e) ==
  /\ published[i] >= e /\ ~Recorded(i, e)
  /\ Listed(i) /\ Current(i).from <= EventAt(e)
  /\ EventAt(e) >= time - Lookback

SettlementsAreRecorded ==
  \A i \in Symbols : \A e \in 1..Settlements : []<>~StillMissing(i, e)

=============================================================================
