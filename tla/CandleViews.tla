----------------------------- MODULE CandleViews -----------------------------
(***************************************************************************)
(* Three projections of one instrument's 1-minute candles that the market  *)
(* service publishes side by side: the chart's bars (artifacts.py), the    *)
(* price changes between two closes (market_metrics.py) and the turnover   *)
(* activity of windows against the same windows of earlier days            *)
(* (native_activity.py).  Candles come one after the other and the last    *)
(* one before the common cutoff is FinalMinute; a change of the            *)
(* instrument's definition starts a new version at some minute.            *)
(***************************************************************************)
EXTENDS Integers, FiniteSets, FiniteSetsExt, Sequences, SequencesExt

CONSTANTS
  FinalMinute, \* the minute before the cutoff; the first one is 0
  Widths,      \* minutes of the chart's bars, each dividing the next
  Width,       \* minutes of the window of activity and of a price change
  Candles,     \* candles a minute may have
  NoVolume, NoCandle,
  MinDays,     \* MIN_BASELINE_DAYS
  LowTurnover, \* LOW_BASELINE_TURNOVER
  DayValues,   \* turnovers of the same window on an earlier day
  NoDay,       \* a model value: a day without a complete valid window
  Days         \* BASELINE_DAYS

ASSUME CandleViewAssumption ==
  /\ \A c \in Candles :
       /\ DOMAIN c = {"price", "volume", "finality", "future"}
       /\ c.finality \in {"confirmed", "derived_final"}
  /\ {FinalMinute, Width, MinDays, LowTurnover, Days} \subseteq Nat
  /\ Widths \subseteq Nat \ {0}
  /\ Width > 0 /\ FinalMinute + 1 >= 2 * Width + 1

Minutes == 0..FinalMinute

VARIABLES
  change,  \* the first minute of the current version
  candle,  \* candle_1m: each minute's candle, or none
  filled,  \* minutes that are over
  days,    \* the window's turnover on the earlier days
  slow     \* the query took so long that the cutoff is too old when it ends

viewVars == <<change, candle, filled, days, slow>>

ViewInit ==
  /\ change \in Minutes
  /\ candle = [m \in Minutes |-> NoCandle]
  /\ filled = 0 /\ days = <<>> /\ slow \in BOOLEAN

(* A minute passes with a candle or without one. *)
Minute(c) ==
  /\ filled <= FinalMinute
  /\ candle' = [candle EXCEPT ![filled] = c]
  /\ filled' = filled + 1
  /\ UNCHANGED <<change, days, slow>>

Day(v) ==
  /\ filled > FinalMinute /\ Len(days) < Days
  /\ days' = Append(days, v)
  /\ UNCHANGED <<change, candle, filled, slow>>

ViewNext ==
  \/ \E c \in Candles \cup {NoCandle} : Minute(c)
  \/ \E v \in DayValues \cup {NoDay} : Day(v)

ViewSpec == ViewInit /\ [][ViewNext]_viewVars

Version(m) == IF m < change THEN 1 ELSE 2
Has(m) == m \in Minutes /\ candle[m] # NoCandle
Current(m) == Has(m) /\ m >= change

-----------------------------------------------------------------------------
(* build_market_chart *)

Rows(width, b) == {m \in (b * width)..((b + 1) * width - 1) : Has(m)}

(* Mutant: candles of two versions make one bar. *)
OneVersionMutant(rows) == rows # {}

(* A bar of two versions is omitted. *)
OneVersion(rows) == rows # {} /\ Cardinality({Version(m) : m \in rows}) = 1

Complete(width, b) ==
  /\ Rows(width, b) = (b * width)..((b + 1) * width - 1)
  /\ (b + 1) * width <= filled

(* _sum_optional *)
Volume(rows) ==
  IF \E m \in rows : candle[m].volume = NoVolume THEN NoVolume
  ELSE MapThenSumSet(LAMBDA m : candle[m].volume, rows)

Finality(rows) ==
  LET all == {candle[m].finality : m \in rows} IN
  IF Cardinality(all) = 1 THEN CHOOSE f \in all : TRUE ELSE "mixed"

(* _aggregate_chart *)
Bar(width, b) ==
  LET rows == Rows(width, b)
      prices == {candle[m].price : m \in rows}
  IN [open |-> candle[Min(rows)].price, close |-> candle[Max(rows)].price,
      high |-> Max(prices), low |-> Min(prices),
      volume |-> Volume(rows), finality |-> Finality(rows),
      complete |-> Complete(width, b)]

Bars(width) ==
  LET shown == {b \in 0..(FinalMinute \div width) : OneVersion(Rows(width, b))} IN
  [b \in shown |-> Bar(width, b)]

-----------------------------------------------------------------------------
(* build_market_metrics: the trade changes of the current version *)

EndMinute == FinalMinute

(* The candle that closes where the window starts. *)
StartMinute(end) == end - Width

NoChange(reason) == [status |-> reason, start |-> 0, end |-> 0]

EndpointChange(start, end) ==
  IF candle[start].future \/ candle[end].future THEN NoChange("future_timestamp")
  ELSE IF slow THEN NoChange("endpoint_stale")
  ELSE [status |-> "available", start |-> candle[start].price, end |-> candle[end].price]

TradeChange ==
  LET start == StartMinute(EndMinute) IN
  IF Current(start) /\ Current(EndMinute) THEN EndpointChange(start, EndMinute)
  ELSE NoChange("endpoint_missing")

-----------------------------------------------------------------------------
(* read_native_activity *)

Window(end) == (end - Width + 1)..end

NoSample(status) == [status |-> status, turnover |-> 0, price |-> NoChange(status)]

SamplePrice(end) ==
  LET start == end - Width IN
  IF ~Current(start) THEN NoChange("history_missing")
  ELSE IF candle[start].future THEN NoChange("invalid_data")
  ELSE [status |-> "ready", start |-> candle[start].price, end |-> candle[end].price]

(* NATIVE_ACTIVITY_SQL's totals and _sample *)
Sample(end) ==
  LET got == {m \in Window(end) : Current(m)} IN
  IF got # Window(end) \/ \E m \in got : candle[m].volume = NoVolume THEN NoSample("history_missing")
  ELSE IF \E m \in got : candle[m].future THEN NoSample("invalid_data")
  ELSE [status |-> "ready", turnover |-> Volume(got), price |-> SamplePrice(end)]

ReadyDays == SelectSeq(days, LAMBDA v : v # NoDay)

(* Twice the median of the complete days. *)
Baseline ==
  LET v == SortSeq(ReadyDays, <)
      middle == (Len(v) \div 2) + 1
  IN IF Len(v) < MinDays THEN NoDay
     ELSE IF Len(v) % 2 = 1 THEN 2 * v[middle] ELSE v[middle - 1] + v[middle]

(* _comparison: the two turnovers, the second one doubled. *)
Ratio ==
  LET now == Sample(EndMinute) IN
  IF now.status # "ready" THEN NoChange(now.status)
  ELSE IF Baseline = NoDay THEN NoChange("history_missing")
  ELSE IF Baseline = 0 THEN NoChange("no_baseline")
  ELSE IF Baseline < 2 * LowTurnover THEN NoChange("low_baseline")
  ELSE [status |-> "ready", start |-> Baseline, end |-> now.turnover]

(* previous_change_pct *)
Previous ==
  LET now == Sample(EndMinute)
      before == Sample(EndMinute - Width)
  IN IF now.status # "ready" THEN NoChange(now.status)
     ELSE IF before.status # "ready" THEN NoChange(before.status)
     ELSE IF before.turnover = 0 THEN NoChange("no_baseline")
     ELSE IF before.turnover < LowTurnover THEN NoChange("low_baseline")
     ELSE [status |-> "ready", start |-> before.turnover, end |-> now.turnover]

-----------------------------------------------------------------------------
(* Properties *)

(* Every complete bar of a longer timeframe is exactly what the complete bars of *)
(* a shorter one add up to, and bars of one version that are complete in the     *)
(* shorter one are never missing from the longer one.                            *)
TimeframesAgree ==
  \A small, large \in Widths : small < large =>
    \A b \in 0..(FinalMinute \div large) :
      LET parts == (b * (large \div small))..((b + 1) * (large \div small) - 1)
          sub == Bars(small)
          whole == Bars(large)
          complete == {p \in parts \cap DOMAIN sub : sub[p].complete}
      IN IF b \in DOMAIN whole /\ whole[b].complete
         THEN /\ complete = parts
              /\ whole[b].open = sub[Min(parts)].open /\ whole[b].close = sub[Max(parts)].close
              /\ \A p \in parts : sub[p].high <= whole[b].high /\ sub[p].low >= whole[b].low
              /\ \E p \in parts : sub[p].high = whole[b].high
              /\ \E p \in parts : sub[p].low = whole[b].low
              /\ IF \E p \in parts : sub[p].volume = NoVolume
                 THEN whole[b].volume = NoVolume
                 ELSE whole[b].volume = MapThenSumSet(LAMBDA p : sub[p].volume, parts)
              /\ change \notin (b * large + 1)..((b + 1) * large - 1)
         ELSE complete = parts => change \in (b * large + 1)..((b + 1) * large - 1)

(* A price change that activity and metrics both show is the same one; what      *)
(* activity shows, metrics shows too unless its query was too slow; and neither  *)
(* compares closes of two versions.                                              *)
ChangesAgree ==
  LET activity == Sample(EndMinute).price IN
  /\ activity.status = "ready" =>
       \/ slow /\ TradeChange.status = "endpoint_stale"
       \/ TradeChange = [activity EXCEPT !.status = "available"]
  /\ (activity.status = "ready" \/ TradeChange.status = "available") => change <= EndMinute - Width

(* A ratio is shown only of a window all of whose minutes traded or stood still  *)
(* under the current version, against a true median of at least MinDays complete *)
(* days that is not too low, and the window before it never counts twice.        *)
ActivityIsEarned ==
  /\ Ratio.status = "ready" =>
       LET got == {i \in 1..Len(days) : days[i] # NoDay}
           upTo == {i \in got : 2 * days[i] <= Ratio.start}
           from == {i \in got : 2 * days[i] >= Ratio.start}
       IN /\ Cardinality(got) >= MinDays
          /\ 2 * Cardinality(upTo) >= Cardinality(got) /\ 2 * Cardinality(from) >= Cardinality(got)
          /\ Ratio.start >= 2 * LowTurnover
  /\ "ready" \in {Ratio.status, Previous.status} =>
       \A m \in Window(EndMinute) : Current(m) /\ ~candle[m].future /\ candle[m].volume # NoVolume
  /\ Previous.status = "ready" =>
       Previous.start + Previous.end
         = MapThenSumSet(LAMBDA m : candle[m].volume, (EndMinute - 2 * Width + 1)..EndMinute)

=============================================================================
