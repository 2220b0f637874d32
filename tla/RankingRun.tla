----------------------------- MODULE RankingRun -----------------------------
(***************************************************************************)
(* The ranking service (apps/ranking-core): closed one-minute bars arrive  *)
(* by stream and by backfill, every minute one generation freezes a window *)
(* of them, and a reader is answered with the ranks of that generation and *)
(* with their moves since the one before it.                               *)
(*                                                                         *)
(* All code runs on one event loop, so what has no await in it is one      *)
(* step: publish_loop after its sleep, enqueue, a worker between two       *)
(* pages.  Time is counted in minutes; a bar is one number, which stands   *)
(* for its close and for its turnover, and 0 is a bar that is missing.     *)
(***************************************************************************)
EXTENDS Integers, FiniteSets, FiniteSetsExt, Sequences, Functions

CONSTANTS
  Refs,           \* how many references the map ranks: 1..Refs
  ProviderOf,     \* the provider of each
  Worker,         \* the backfill workers of a provider
  Closes,         \* what each minute may close at: positive bars, one per reference
  History,        \* HISTORY_MINUTES: minutes in front of the cutoff a generation holds
  Retention,      \* RETENTION_MINUTES
  Short,          \* minutes of the short period
  DayLength,      \* minutes of a day
  PageLimit,      \* bars in a page of the provider's history
  Retry,          \* minutes between two backfills of a gap
  Fresh,          \* minutes after which a generation is stale
  None, Down,    \* no value; no service running
  FirstMinute,    \* the minute at which the service is first started
  MaxMinute, MaxMishaps   \* bounds

Ref == 1..Refs
Provider == {ProviderOf[r] : r \in Ref}
Minute == 0..MaxMinute
Period == {"short", "daily"}
Order == {"gainers", "losers", "turnover"}

ASSUME RankingConstants ==
  /\ Refs \in Nat \ {0} /\ ProviderOf \in [Ref -> Provider]
  /\ \A m \in Minute : Closes[m] \subseteq [Ref -> Nat \ {0}]
  /\ {History, Short, DayLength, PageLimit, Retry, Fresh} \subseteq Nat \ {0}
  /\ Short <= History /\ DayLength <= History /\ History < Retention

VARIABLES
  minute,      \* the last closed minute, cutoff of what is published now
  closed,      \* what the provider closed: per reference and minute
  bars,        \* minute_bars
  invalid,     \* invalid_contracts
  unavailable, \* catalog_unavailable
  pending,     \* references with a backfill asked for
  queue,       \* the queue of each provider
  job,         \* what each worker is fetching
  tried,       \* last_backfill
  generation,  \* the generation served, with its predecessor
  snapshot,    \* the cutoff in last-snapshot.json
  turned,      \* the minute of publish_loop's last turn
  mishaps     \* what has gone wrong so far

rankingVars == <<minute, closed, bars, invalid, unavailable, pending,
                 queue, job, tried, generation, snapshot, turned, mishaps>>

store  == <<closed, bars, minute>>
served == <<generation, snapshot, turned>>
work   == <<pending, queue, job, tried>>

Mishap == mishaps < MaxMishaps /\ mishaps' = mishaps + 1

Larger(a, b) == IF a > b THEN a ELSE b
Smaller(a, b) == IF a < b THEN a ELSE b

-----------------------------------------------------------------------------
(* Backfills *)

Workers == Worker \X Provider

\* enqueue for a set of references, each with its number of minutes; the
\* order in which the map lists the references is the order of the queue
Wanting(wanted, invalidNow) == {r \in DOMAIN wanted : r \notin pending \cup invalidNow}

Request(r, minutes, cutoff) ==
  [ref |-> r, first |-> cutoff - (Smaller(History + 1, Larger(2, minutes)) - 1)]

Requests(wanted, fresh, p) ==
  LET mine == {r \in fresh : ProviderOf[r] = p}
      nth(i) == CHOOSE r \in mine : Cardinality({s \in mine : s <= r}) = i
  IN [i \in 1..Cardinality(mine) |-> Request(nth(i), wanted[nth(i)], minute)]

Enqueue(wanted, invalidNow) ==
  LET fresh == Wanting(wanted, invalidNow)
  IN /\ pending' = pending \cup fresh
     /\ queue' = [p \in Provider |-> queue[p] \o Requests(wanted, fresh, p)]

\* a worker is done with a reference, whatever came of it
Settled(r) ==
  /\ tried' = [tried EXCEPT ![r] = minute]
  /\ pending' = pending \ {r}

\* a worker takes a request; it drops one whose reference must not be asked for
Take(w) ==
  LET p == w[2]
      request == Head(queue[p])
  IN /\ job[w] = None /\ queue[p] # <<>>
     /\ queue' = [queue EXCEPT ![p] = Tail(@)]
     /\ IF request.ref \in invalid \/ p \in unavailable
          THEN Settled(request.ref) /\ UNCHANGED job
          ELSE /\ job' = [job EXCEPT ![w] =
                    [ref |-> request.ref, first |-> Larger(request.first, minute - History),
                     last |-> minute, next |-> minute, pages |-> 0]]
               /\ UNCHANGED <<tried, pending>>
     /\ UNCHANGED <<store, invalid, unavailable, served, mishaps>>

\* the minutes one page holds: the newest PageLimit the provider has
PageOf(j) == {m \in Larger(j.first, 0)..j.next : m > j.next - PageLimit}

MaxPages == (History + PageLimit) \div PageLimit

LastPage(j) ==
  \/ j.pages + 1 >= MaxPages
  \/ PageOf(j) = {}
  \/ j.next - PageLimit < j.first

\* the whole answer is stored once its last page has come
Page(w) ==
  LET j == job[w]
      got == {m \in Larger(j.first, 0)..j.last : m > j.next - PageLimit}
  IN /\ j # None
     /\ IF LastPage(j)
          THEN /\ bars' = [bars EXCEPT ![j.ref] =
                    [m \in Minute |-> IF m \in got THEN closed[j.ref][m] ELSE @[m]]]
               /\ Settled(j.ref)
               /\ job' = [job EXCEPT ![w] = None]
          ELSE /\ job' = [job EXCEPT ![w] =
                    [j EXCEPT !.next = @ - PageLimit, !.pages = @ + 1]]
               /\ UNCHANGED <<bars, tried, pending>>
     /\ UNCHANGED <<minute, closed, invalid, unavailable, queue, served, mishaps>>

\* a page that fails discards what the pages before it brought
PageFails(w) ==
  /\ job[w] # None /\ Mishap
  /\ Settled(job[w].ref)
  /\ job' = [job EXCEPT ![w] = None]
  /\ UNCHANGED <<store, invalid, unavailable, queue, served>>

-----------------------------------------------------------------------------
(* The stream *)

\* the stream brings the bar of the minute that closed last.  It may bring it late, or
\* be cut and never bring it: the next minute's turn need not wait for it
Collect(r) ==
  /\ generation # Down /\ ProviderOf[r] \notin unavailable /\ r \notin invalid
  /\ bars[r][minute] # closed[r][minute]
  /\ bars' = [bars EXCEPT ![r] = [@ EXCEPT ![minute] = closed[r][minute]]]
  /\ UNCHANGED <<minute, closed, invalid, unavailable, work, served, mishaps>>

\* check_catalogs of one provider: contracts that no longer match stay invalid
CheckCatalog(p) ==
  /\ generation # Down /\ Mishap
  /\ \/ /\ unavailable' = unavailable \ {p}
        /\ \E bad \in SUBSET {r \in Ref : ProviderOf[r] = p} : invalid' = invalid \cup bad
     \/ /\ unavailable' = unavailable \cup {p}
        /\ UNCHANGED invalid
  /\ UNCHANGED <<store, work, served>>

-----------------------------------------------------------------------------
(* A generation: Series.from_rows and what is calculated from it *)

SeriesOf(r, cutoff) ==
  [m \in (cutoff - History)..cutoff |-> IF m \in Minute THEN bars[r][m] ELSE 0]

Freeze(cutoff) ==
  [cutoff |-> cutoff, series |-> [r \in Ref |-> SeriesOf(r, cutoff)],
   invalid |-> invalid, unavailable |-> unavailable]

\* the minutes in (from, to] that are missing, by the difference of two prefixes
\* mutant
MissingMutant(series, from, to) == {m \in (from + 1)..(to - 1) : series[m] = 0}

Missing(series, from, to) == {m \in (from + 1)..to : series[m] = 0}

TurnoverOf(series, from, to) == FoldFunctionOnSet(+, 0, series, (from + 1)..to)

AnchorAt(period, cutoff) ==
  IF period = "short" THEN cutoff - Short ELSE (cutoff \div DayLength) * DayLength

\* calculate: the state of a row for one period
Calculate(series, anchor, cutoff) ==
  IF anchor = cutoff THEN "starting"
  ELSE IF series[cutoff] = 0 THEN "source_delayed"
  ELSE IF series[anchor] = 0 \/ Missing(series, anchor, cutoff) # {} THEN "history_missing"
  ELSE "ready"

StateOf(g, r, period) ==
  IF r \in g.invalid THEN "reference_invalid"
  ELSE IF ProviderOf[r] \in g.unavailable THEN "source_unavailable"
  ELSE Calculate(g.series[r], AnchorAt(period, g.cutoff), g.cutoff)

RankingRow(g, r, period) ==
  LET anchor == AnchorAt(period, g.cutoff)
  IN [base |-> g.series[r][anchor], close |-> g.series[r][g.cutoff],
      turnover |-> TurnoverOf(g.series[r], anchor, g.cutoff)]

\* what order a row has among the others, ties by id
Above(x, y, order) ==
  CASE order = "turnover" -> x.turnover > y.turnover
    [] order = "gainers"  -> x.close * y.base > y.close * x.base
    [] order = "losers"   -> x.close * y.base < y.close * x.base

Directed(row, order) == /\ order = "gainers" => row.close > row.base
                        /\ order = "losers" => row.close < row.base

\* _calculate: the ranks of a generation, 0 for a row that has none
RanksOf(row, eligible, order) ==
  [r \in Ref |->
     IF r \notin eligible THEN 0
     ELSE 1 + Cardinality({s \in eligible :
                 \/ Above(row[s], row[r], order)
                 \/ ~Above(row[r], row[s], order) /\ s < r})]

Ranks(g, period, order) ==
  LET ready == {r \in Ref : StateOf(g, r, period) = "ready"}
      row == [r \in ready |-> RankingRow(g, r, period)]
  IN RanksOf(row, {r \in ready : Directed(row[r], order)}, order)

\* turnover_window for the same hours of an earlier day
RowWindow(g, r, period, shift) ==
  LET anchor == AnchorAt(period, g.cutoff) - shift * DayLength
      cutoff == g.cutoff - shift * DayLength
  IN IF anchor = cutoff THEN None
     ELSE IF anchor < g.cutoff - History THEN None
     ELSE IF Missing(g.series[r], anchor, cutoff) # {} THEN None
     ELSE TurnoverOf(g.series[r], anchor, cutoff)

\* why response() compares no ranks, "none" when it does; now is the reader's minute
Reason(g, previous, period, now) ==
  CASE now - g.cutoff > Fresh -> "current_stale"
    [] previous = None -> "no_previous_generation"
    [] previous # None /\ previous.cutoff # g.cutoff - 1 -> "generation_gap"
    [] previous # None /\ now - previous.cutoff > Fresh -> "previous_stale"
    [] /\ previous # None /\ period = "daily"
       /\ AnchorAt(period, previous.cutoff) # AnchorAt(period, g.cutoff) -> "anchor_changed"
    [] OTHER -> "none"

\* the moves shown for a period and an order: previous rank - rank, by row
Moves(g, previous, period, order, now) ==
  LET ranks == Ranks(g, period, order)
      older == Ranks(previous, period, order)
  IN IF Reason(g, previous, period, now) # "none" THEN <<>>
     ELSE [r \in {q \in Ref : ranks[q] > 0 /\ older[q] > 0} |-> older[r] - ranks[r]]

-----------------------------------------------------------------------------
(* publish_loop *)

\* minutes each reference is to be backfilled for, after a candidate was frozen
Latest(r) == LET known == {m \in Minute : bars[r][m] # 0}
             IN IF known = {} THEN None ELSE Max(known)

Gaps(g) == {r \in Ref : \E m \in DOMAIN g.series[r] : g.series[r][m] = 0}

Due(g, r) ==
  IF g.series[r][g.cutoff] = 0
    THEN IF Latest(r) = None THEN History + 1 ELSE g.cutoff - Latest(r) + 2
    ELSE History + 1

DueRefs(g) == {r \in Gaps(g) : \/ g.series[r][g.cutoff] = 0
                               \/ minute - tried[r] >= Retry}

Prune(cutoff) == [r \in Ref |-> [m \in Minute |-> IF m < cutoff - Retention THEN 0 ELSE bars[r][m]]]

\* what is left of a generation when the next one keeps it as its predecessor
Previous == IF generation = None THEN None
            ELSE [cutoff |-> generation.cutoff, series |-> generation.series,
                  invalid |-> generation.invalid, unavailable |-> generation.unavailable]

\* one turn of the loop.  "slow": the deadline passed before the file was written,
\* "late": after it, "unwritten": the file could not be written
PublicationEnd == {"published", "slow", "late", "unwritten"}

Publish(outcome) ==
  LET g == Freeze(minute)
      due == [r \in DueRefs(g) |-> Due(g, r)]
  IN /\ generation # Down
     /\ minute > turned /\ turned' = minute
     /\ IF outcome = "published" THEN UNCHANGED mishaps ELSE Mishap
     /\ Enqueue(due, invalid)
     /\ bars' = Prune(minute)
     /\ snapshot' = IF outcome \in {"published", "late"} THEN minute ELSE snapshot
     /\ generation' = IF outcome = "published"
                        THEN [cutoff |-> g.cutoff, series |-> g.series, invalid |-> g.invalid,
                              unavailable |-> g.unavailable, previous |-> Previous]
                        ELSE generation
     /\ UNCHANGED <<minute, closed, invalid, unavailable, job, tried>>

-----------------------------------------------------------------------------
(* Starts and minutes *)

\* a start asks for everything from the first minute that is missing in the window
Start ==
  LET window == (minute - History)..minute
      first(r) == Min({m \in window : IF m \in Minute THEN bars[r][m] = 0 ELSE TRUE})
      lacking == {r \in Ref : \E m \in window : IF m \in Minute THEN bars[r][m] = 0 ELSE TRUE}
  IN /\ generation = Down
     /\ generation' = None
     /\ Enqueue([r \in lacking |-> minute - first(r) + 1], invalid)
     /\ UNCHANGED <<store, invalid, unavailable, job, tried, snapshot, turned, mishaps>>

Crash ==
  /\ generation # Down /\ Mishap
  /\ generation' = Down
  /\ invalid' = {} /\ unavailable' = {}
  /\ pending' = {} /\ queue' = [p \in Provider |-> <<>>]
  /\ job' = [w \in Workers |-> None]
  /\ tried' = [r \in Ref |-> -Retry]
  /\ UNCHANGED <<store, snapshot, turned>>

\* a minute ends, and the provider closes one bar of each reference
Tick ==
  /\ minute < MaxMinute
  /\ minute' = minute + 1
  /\ \E bar \in Closes[minute + 1] :
       closed' = [r \in Ref |-> [closed[r] EXCEPT ![minute + 1] = bar[r]]]
  /\ UNCHANGED <<bars, invalid, unavailable, work, served, mishaps>>

RankingInit ==
  /\ minute = FirstMinute
  /\ \E bar \in [0..FirstMinute -> UNION {Closes[m] : m \in 0..FirstMinute}] :
       /\ \A m \in 0..FirstMinute : bar[m] \in Closes[m]
       /\ closed = [r \in Ref |-> [m \in Minute |-> IF m <= FirstMinute THEN bar[m][r] ELSE 0]]
  /\ bars = [r \in Ref |-> [m \in Minute |-> 0]]
  /\ invalid = {} /\ unavailable = {}
  /\ pending = {} /\ queue = [p \in Provider |-> <<>>]
  /\ job = [w \in Workers |-> None]
  /\ tried = [r \in Ref |-> -Retry]
  /\ generation = Down /\ snapshot = None
  /\ turned = FirstMinute - 1 /\ mishaps = 0

RankingNext ==
  \/ Start \/ Crash \/ Tick
  \/ \E outcome \in PublicationEnd : Publish(outcome)
  \/ \E p \in Provider : CheckCatalog(p)
  \/ \E r \in Ref : Collect(r)
  \/ \E w \in Workers : Take(w) \/ Page(w) \/ PageFails(w)

RankingSpec == RankingInit /\ [][RankingNext]_rankingVars

-----------------------------------------------------------------------------
(* Properties *)

Running == generation \notin {Down, None}

\* What the provider's own bars say of a row: its base, its close, and every bar
\* between them added up.
TrueTurnover(r, from, to) == FoldFunctionOnSet(+, 0, closed[r], (from + 1)..to)

TrueRow(r, anchor, cutoff) ==
  [base |-> closed[r][anchor], close |-> closed[r][cutoff],
   turnover |-> TrueTurnover(r, anchor, cutoff)]

\* A row that is ready shows what the provider's bars say of exactly that period,
\* and so does each turnover it is compared with: a missing bar, wherever a cut
\* of the stream or a failed page left it, never lowers a turnover silently
\* (ranking.py Series.calculate, turnover_window).
RowsAreTrue ==
  Running =>
    \A r \in Ref, period \in Period :
      LET anchor == AnchorAt(period, generation.cutoff)
      IN /\ StateOf(generation, r, period) = "ready"
              => RankingRow(generation, r, period) = TrueRow(r, anchor, generation.cutoff)
         /\ \A shift \in 0..1 :
              LET got == RowWindow(generation, r, period, shift)
              IN got # None => got = TrueTurnover(r, anchor - shift * DayLength,
                                                   generation.cutoff - shift * DayLength)

\* A move that is shown is the move of the row between the provider's own ranking of
\* the minute before and that of the cutoff, each among the rows that were ready
\* then, however many minutes were not published in between (RankingService.
\* publish_loop keeps the old generation, Generation.response compares with it).
MovesAreTrue ==
  Running =>
    \A period \in Period, order \in Order :
      LET moves == Moves(generation, generation.previous, period, order, minute)
          cutoff == generation.cutoff
          anchor == AnchorAt(period, cutoff)
          ranked(c, a, g) ==
            LET row == [r \in {q \in Ref : StateOf(g, q, period) = "ready"} |-> TrueRow(r, a, c)]
            IN RanksOf(row, {r \in DOMAIN row : Directed(row[r], order)}, order)
          before == IF period = "daily" THEN anchor ELSE anchor - 1
      IN \A r \in DOMAIN moves :
           moves[r] = ranked(cutoff - 1, before, generation.previous)[r]
                        - ranked(cutoff, anchor, generation)[r]

\* A reference whose backfill is asked for is queued or being fetched, once: if it
\* were pending without being either, no gap of it would ever be asked for again
\* (enqueue returns early for what is pending).
NoneIsStranded ==
  \A r \in Ref :
    LET queued == {e \in Provider \X (1..Refs) :
                     e[2] <= Len(queue[e[1]]) /\ queue[e[1]][e[2]].ref = r}
        held == {w \in Workers : job[w] # None /\ job[w].ref = r}
    IN Cardinality(queued) + Cardinality(held) = (IF r \in pending THEN 1 ELSE 0)

=============================================================================
