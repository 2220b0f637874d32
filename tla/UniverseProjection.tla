------------------------- MODULE UniverseProjection -------------------------
(***************************************************************************)
(* The universe file (build_universe_snapshot in artifacts.py): each       *)
(* instrument's quality and values, and each group's reference median.     *)
(* The cycles of the venues and MEXC's funding writes change the rows      *)
(* while time passes; a publication reads the clock first and the rows     *)
(* later, so that rows may be newer than its clock.  Time is in steps of   *)
(* half a minute.                                                          *)
(***************************************************************************)
EXTENDS Integers, FiniteSets, FiniteSetsExt

CONSTANTS
  Members,     \* the instruments of one group, each of another venue
  Mexc,        \* the one of MEXC
  Marks,       \* mark prices
  NoValueYet,  \* a model value: no row, or no value
  MaxAge,      \* _L1_MAX_AGE (4 steps)
  MaxSkew,     \* observations of one median may lie this far apart (1 step)
  FundingAge,  \* a funding value is that of the last so many steps (3)
  Period,      \* steps between cycles (2)
  MaxMarketClock  \* bound: steps that pass

ASSUME UniverseAssumption ==
  /\ Mexc \in Members /\ Marks \subseteq Nat
  /\ {MaxAge, MaxSkew, FundingAge, Period, MaxMarketClock} \subseteq Nat /\ Period > 0

VARIABLES
  marketClock,
  asked,    \* generated_at of the publication that reads the rows
  row,      \* latest_market_state: each instrument's last observation
  funding   \* the funding of MEXC's row

universeVars == <<marketClock, asked, row, funding>>

UniverseInit ==
  /\ marketClock = 0 /\ asked = 0
  /\ row = [i \in Members |-> NoValueYet]
  /\ funding = NoValueYet

UniverseTick ==
  /\ marketClock < MaxMarketClock /\ marketClock' = marketClock + 1
  /\ UNCHANGED <<asked, row, funding>>

(* A new publication takes its time. *)
AskTime ==
  /\ asked # marketClock /\ asked' = marketClock
  /\ UNCHANGED <<marketClock, row, funding>>

(* Of the ways a row may not be ready each kind of venue has those that it alone needs. *)
Statuses(i) == {"ready"} \cup IF i = Mexc THEN {"funding_only_partial", "stale"} ELSE {"partial"}

(* A venue's cycle writes its row, which is partial without a mark. *)
ObserveMarket(i, status, mark) ==
  /\ mark = NoValueYet => status = "partial"
  /\ row' = [row EXCEPT ![i] = [cycle |-> marketClock - (marketClock % Period),
                                observed |-> marketClock, status |-> status, mark |-> mark]]
  /\ UNCHANGED <<marketClock, asked, funding>>

(* MEXC's funding is observed and settles next after so many steps, or nobody knows. *)
Fund(settles) ==
  /\ funding' = [observed |-> marketClock, until |-> marketClock + FundingAge,
                 next |-> IF settles = NoValueYet THEN NoValueYet ELSE marketClock + settles]
  /\ UNCHANGED <<marketClock, asked, row>>

UniverseNext ==
  \/ UniverseTick \/ AskTime
  \/ \E i \in Members, mark \in Marks \cup {NoValueYet} :
       \E status \in Statuses(i) : ObserveMarket(i, status, mark)
  \/ \E settles \in 1..2 \cup {NoValueYet} : Fund(settles)

UniverseSpec == UniverseInit /\ [][UniverseNext]_universeVars

-----------------------------------------------------------------------------
(* build_universe_snapshot *)

Age(i) == asked - row[i].observed

Fresh(i) == row[i] # NoValueYet /\ Age(i) \in 0..MaxAge

(* _market_quality, which does not look at the mark *)
MarketQuality(i) ==
  IF row[i] = NoValueYet THEN "unavailable"
  ELSE IF Age(i) < 0 THEN "unavailable"
  ELSE IF Age(i) > MaxAge \/ row[i].status = "stale" THEN "stale"
  ELSE IF row[i].status = "ready" THEN "ready" ELSE "partial"

(* The checks of MEXC's funding in _universe_item *)
FundingUsable ==
  /\ funding # NoValueYet /\ funding.observed <= asked
  /\ funding.next # NoValueYet /\ asked < funding.next
  /\ asked < funding.until /\ asked - funding.observed < FundingAge

PublishesValues(i) == MarketQuality(i) \in {"ready", "partial"}

(* _universe_item *)
Item(i) ==
  [quality |-> IF i = Mexc /\ MarketQuality(i) = "ready" /\ ~FundingUsable THEN "partial"
               ELSE MarketQuality(i),
   mark    |-> IF PublishesValues(i) THEN row[i].mark ELSE NoValueYet,
   funding |-> IF i = Mexc /\ PublishesValues(i) /\ FundingUsable THEN funding ELSE NoValueYet]

(* _price_comparison_eligible: only its funding may be missing of a partial row of MEXC. *)
PriceEligible(i) ==
  row[i].status = "ready" \/ (i = Mexc /\ row[i].status = "funding_only_partial")

Points == {i \in Members : Fresh(i) /\ PriceEligible(i) /\ row[i].mark # NoValueYet}

OfCycle(c) == {i \in Points : row[i].cycle = c}

EligibleCycles == {c \in {row[i].cycle : i \in Points} : Cardinality(OfCycle(c)) >= 2}

NoMedian == [venues |-> {}, double |-> 0]

(* The points of the latest cycle that two venues share. *)
MedianPoints == OfCycle(Max(EligibleCycles))

(* Twice the middle price, or the sum of the two in the middle. *)
DoubleMedian(points) ==
  LET rank(v) == Cardinality({i \in points : row[i].mark <= v})
      marks == {row[i].mark : i \in points}
      n == Cardinality(points)
      lower == Min({v \in marks : 2 * rank(v) >= n})
      upper == Min({v \in marks : 2 * rank(v) > n})
  IN lower + upper

(* _reference_medians *)
Median ==
  IF EligibleCycles = {} THEN NoMedian
  ELSE LET observed == {row[i].observed : i \in MedianPoints} IN
       IF Max(observed) - Min(observed) > MaxSkew THEN NoMedian
       ELSE [venues |-> MedianPoints, double |-> DoubleMedian(MedianPoints)]

-----------------------------------------------------------------------------
(* Properties *)

(* The median is one of prices the same file shows: each venue it counts has a   *)
(* ready item, or MEXC's whose funding alone is missing, with a mark; all are of *)
(* one cycle and seen within the skew; and it lies between them.                 *)
MedianOfShownPrices ==
  Median # NoMedian =>
    /\ Cardinality(Median.venues) >= 2
    /\ \A i \in Median.venues :
         /\ Item(i).mark # NoValueYet
         /\ Item(i).quality = "ready" \/ (i = Mexc /\ Item(i).quality = "partial")
    /\ Cardinality({row[i].cycle : i \in Median.venues}) = 1
    /\ \A i, j \in Median.venues : row[i].observed - row[j].observed <= MaxSkew
    /\ \E i, j \in Median.venues : 2 * row[i].mark <= Median.double /\ Median.double <= 2 * row[j].mark

(* MEXC's instrument is ready only with a funding that is younger than its limit *)
(* and settles after the publication, and a stale or unavailable item shows      *)
(* nothing.                                                                      *)
ReadyMeansUsable ==
  /\ Item(Mexc).quality = "ready" =>
       /\ Item(Mexc).funding # NoValueYet
       /\ Item(Mexc).funding.observed \in (asked - FundingAge + 1)..asked
       /\ Item(Mexc).funding.next > asked
  /\ \A i \in Members : Item(i).quality \in {"stale", "unavailable"} =>
       Item(i).mark = NoValueYet /\ Item(i).funding = NoValueYet

=============================================================================
