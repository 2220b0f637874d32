----------------------------- MODULE ResearchTrial ------------------------------
(* research/evaluation.py under the rules of trials.py: a fixed A/B comparison is  *)
(* replayed from what the reader knew and when.  Times are whole minutes; an       *)
(* observation brings one native row, so it may be late or correct an older one.   *)
(* Prices, sizes and rates are chosen so that every division is exact.             *)
EXTENDS Integers, FiniteSets, FiniteSetsExt, Sequences, SequencesExt

CONSTANTS
  RowKinds,              \* what an observation may bring: records [lag, price, oi]
  DecisionStart, TrainEnd, ValidationEnd, StudyEnd, Holding,
  InitialCapital, TradeNotional, FeeDivisor,
  FundingPeriod,     \* settlements are at its multiples
  FundingRows,       \* the settlements the snapshot holds a rate for
  MaxObservations,   \* bound: observations of the snapshot
  Never

(* the contract of TrialRules, and of the rows a reader may have seen *)
ASSUME TrialAssumption ==
  /\ RowKinds \subseteq [lag : Nat, price : Nat \ {0}, oi : Nat]
  /\ {DecisionStart, TrainEnd, ValidationEnd, StudyEnd} \subseteq Nat
  /\ DecisionStart < TrainEnd /\ TrainEnd < ValidationEnd /\ ValidationEnd < StudyEnd
  /\ {Holding, FeeDivisor, FundingPeriod} \subseteq Nat \ {0}
  /\ {InitialCapital, TradeNotional, MaxObservations} \subseteq Nat

ASSUME NeverIsNone == Never \notin Int

VARIABLE observations

trialVars == observations

(* lag: how many minutes before its observation the row's bucket lies *)
TrialRow(at, row) == [at |-> at, bucket |-> at - row.lag, price |-> row.price, oi |-> row.oi]

TrialInit == \E row \in RowKinds : observations = <<TrialRow(1, row)>>

ObserveRow ==
  /\ Len(observations) < MaxObservations
  /\ \E row \in RowKinds :
       observations' = Append(observations, TrialRow(Last(observations).at + 1, row))

(* VerifiedSnapshot.rows: per bucket the last row that was available at the cutoff *)
KnownBuckets(trace, at) == {trace[i].bucket : i \in {j \in DOMAIN trace : trace[j].at <= at}}

(* Mutant: the last row of the whole snapshot. *)
KnownRowMutant(trace, at, bucket) ==
  trace[Max({j \in DOMAIN trace : trace[j].bucket = bucket})]

KnownRow(trace, at, bucket) ==
  trace[Max({j \in DOMAIN trace : trace[j].at <= at /\ trace[j].bucket = bucket})]

PriceEvent(trace, i) ==
  LET at == trace[i].at
      bucket == Max(KnownBuckets(trace, at))
  IN  [at |-> at, priceAt |-> bucket + 1, price |-> KnownRow(trace, at, bucket).price]

(* the known marks, by the observation that brought each *)
PricesOf(trace) ==
  LET marks == [i \in DOMAIN trace |-> PriceEvent(trace, i)]
  IN  [i \in {j \in DOMAIN trace : marks[j].priceAt <= marks[j].at} |-> marks[i]]

LastPrice(prices) == prices[Max(DOMAIN prices)]

Splits == {"train", "validation", "test"}

SplitOf(at) ==
  CASE at < TrainEnd -> "train"
    [] at >= TrainEnd /\ at < ValidationEnd -> "validation"
    [] OTHER -> "test"

Boundary(at) ==
  CASE at < TrainEnd -> TrainEnd
    [] at >= TrainEnd /\ at < ValidationEnd -> ValidationEnd
    [] OTHER -> StudyEnd

InStudy(trace) == {i \in DOMAIN trace : DecisionStart <= trace[i].at /\ trace[i].at < StudyEnd}

NewestBucket(trace, i) == Max(KnownBuckets(trace, trace[i].at))

(* one decision per newest bucket, at the observation that first showed it *)
DecidedAt(trace) ==
  {i \in InStudy(trace) :
     \A j \in InStudy(trace) : j < i => NewestBucket(trace, j) # NewestBucket(trace, i)}

DecisionOf(trace, i) ==
  LET at == trace[i].at
      bucket == NewestBucket(trace, i)
      complete == bucket - 1 \in KnownBuckets(trace, at) /\ bucket + 1 <= at
      now == KnownRow(trace, at, bucket)
      before == KnownRow(trace, at, bucket - 1)
  IN  [at |-> at, bucket |-> bucket, split |-> SplitOf(at),
       eligible |-> complete /\ at + Holding < Boundary(at),
       signalA |-> complete /\ now.price > before.price,
       signalB |-> complete /\ now.price > before.price /\ now.oi > before.oi]

(* the decisions, by the observation that each was taken at *)
Decisions(trace) == [i \in DecidedAt(trace) |-> DecisionOf(trace, i)]

FirstPrice(prices, found) == IF found = {} THEN Never ELSE prices[Min(found)]

(* the prices after the decision, and those on which an entry may be left again *)
EntryPrices(prices, d) ==
  {i \in DOMAIN prices : prices[i].at > d.at /\ prices[i].priceAt > d.at}

ExitPrices(prices, target) ==
  {i \in DOMAIN prices : prices[i].at >= target /\ prices[i].priceAt >= target}

PricesBy(prices, at) ==
  {i \in DOMAIN prices : prices[i].at <= at /\ prices[i].priceAt <= at}

SettlementsIn(from, to) == {at \in from + 1..to : at % FundingPeriod = 0}

(* _episodes: one position at a time, its window closed before the next decision *)
Consider(prices, state, d) ==
  LET entry == FirstPrice(prices, EntryPrices(prices, d))
      target == entry.at + Holding
      exit == FirstPrice(prices, ExitPrices(prices, target))
      finalAt == IF exit = Never THEN LastPrice(prices).at ELSE exit.at
      free == state.reserved = Never \/ d.at > state.reserved
      purged == \/ entry.at >= Boundary(d.at)
                \/ target >= Boundary(d.at)
                \/ exit # Never /\ exit.at >= Boundary(d.at)
      funded == \A at \in SettlementsIn(entry.at, finalAt) :
                  at \in FundingRows /\ PricesBy(prices, at) # {}
  IN  IF d.eligible /\ d.signalA /\ free /\ entry # Never /\ ~purged /\ funded
      THEN [episodes |-> Append(state.episodes,
              [decision |-> d, entry |-> entry, exit |-> exit, finalAt |-> finalAt]),
            reserved |-> IF exit = Never THEN StudyEnd ELSE exit.at]
      ELSE state

Episodes(trace) ==
  LET prices == PricesOf(trace)
      decisions == Decisions(trace)
      after[n \in 0..Len(trace)] ==
        IF n = 0 THEN [episodes |-> <<>>, reserved |-> Never]
        ELSE IF n \in DOMAIN decisions THEN Consider(prices, after[n - 1], decisions[n])
        ELSE after[n - 1]
  IN  after[Len(trace)].episodes

FeeOf(amount) == amount \div FeeDivisor

(* an event of the arm, with its cash_delta and the split of its decision *)
Earn(arm, split, delta) ==
  [arm EXCEPT !.cash = arm.cash + delta,
              !.earned = [arm.earned EXCEPT ![split] = arm.earned[split] + delta]]

EnterPosition(arm, e) ==
  LET paid == TradeNotional + FeeOf(TradeNotional)
  IN  IF arm.cash < paid
      THEN [arm EXCEPT !.failed = TRUE]
      ELSE [Earn(arm, e.decision.split, 0 - paid) EXCEPT
              !.quantity = TradeNotional \div e.entry.price, !.openIn = e.decision.split]

PayFunding(prices, arm, e, at) ==
  LET known == prices[Max(PricesBy(prices, at))].price
      payment == (arm.quantity * known) \div FeeDivisor
  IN  IF arm.failed THEN arm
      ELSE IF payment > arm.cash THEN [arm EXCEPT !.failed = TRUE]
      ELSE Earn(arm, e.decision.split, 0 - payment)

ExitPosition(arm, e) ==
  LET proceeds == arm.quantity * e.exit.price
  IN  IF arm.failed \/ e.exit = Never
      THEN arm
      ELSE [Earn(arm, e.decision.split, proceeds - FeeOf(proceeds)) EXCEPT !.quantity = 0]

(* _arm: the first rejected entry or settlement ends it *)
TradeEpisode(prices, arm, e) ==
  LET dues == SettlementsIn(e.entry.at, e.finalAt)
      paid[n \in 0..(e.finalAt - e.entry.at)] ==
        IF n = 0 THEN EnterPosition(arm, e)
        ELSE IF e.entry.at + n \in dues THEN PayFunding(prices, paid[n - 1], e, e.entry.at + n)
        ELSE paid[n - 1]
  IN  IF arm.failed THEN arm ELSE ExitPosition(paid[e.finalAt - e.entry.at], e)

NewArm == [cash |-> InitialCapital, quantity |-> 0, failed |-> FALSE, openIn |-> Never,
           earned |-> [split \in Splits |-> 0]]

(* both arms go through the same episodes, B only where the open interest rose too *)
ArmOf(trace, name) ==
  LET prices == PricesOf(trace)
      episodes == Episodes(trace)
      arm[n \in 0..Len(episodes)] ==
        IF n = 0 THEN NewArm
        ELSE IF name = "B" /\ ~episodes[n].decision.signalB THEN arm[n - 1]
        ELSE TradeEpisode(prices, arm[n - 1], episodes[n])
      final == arm[Len(episodes)]
      open == IF DOMAIN prices = {} THEN 0 ELSE final.quantity * LastPrice(prices).price
  IN  [earned |-> final.earned, open |-> open, equity |-> final.cash + open,
       openIn |-> IF final.quantity = 0 THEN Never ELSE final.openIn]

DeltaOf(arm, split) == arm.earned[split] + (IF arm.openIn = split THEN arm.open ELSE 0)

(* _split_results: each split starts where the one before ended; the last ends at  *)
(* the arm's final equity, whatever its own events add up to.                      *)
SplitEquity(arm) ==
  LET train == InitialCapital + DeltaOf(arm, "train")
  IN  [train |-> train,
       validation |-> train + DeltaOf(arm, "validation"),
       test |-> arm.equity]

Arms(trace) == {ArmOf(trace, name) : name \in {"A", "B"}}

(* Episodes never overlap, nor does one reach from one split into the next: each   *)
(* is entered after its decision at a price of a later minute and left before its  *)
(* split ends, and only then is the next decision taken.                           *)
EpisodesAreSeparate ==
  LET episodes == Episodes(observations)
  IN  \A i \in DOMAIN episodes :
        LET e == episodes[i] IN
        /\ e.decision.at < e.entry.priceAt /\ e.entry.at < Boundary(e.decision.at)
        /\ e.exit # Never =>
             /\ e.entry.at + Holding <= e.exit.priceAt
             /\ e.exit.at < Boundary(e.decision.at)
        /\ \A j \in i + 1..Len(episodes) :
             e.exit # Never /\ e.exit.at < episodes[j].decision.at

(* What an arm earned in the test split is what it traded in the test split.       *)
SplitsAddUp ==
  \A arm \in Arms(observations) :
    SplitEquity(arm).test - SplitEquity(arm).validation = DeltaOf(arm, "test")

TrialHolds == EpisodesAreSeparate /\ SplitsAddUp

(* A decision is never revised by what is observed later, corrections of the rows  *)
(* it was taken from included, nor is one taken later about an earlier observation. *)
DecisionsAreCausal ==
  [][Decisions(observations) =
       [i \in DecidedAt(observations') \cap DOMAIN observations |->
          Decisions(observations')[i]]]_trialVars
==================================================================================
