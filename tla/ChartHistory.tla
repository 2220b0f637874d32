------------------------------ MODULE ChartHistory ------------------------------
(* server/chart-history.ts: one web process reads chart pages of an instrument     *)
(* from its venue for many readers.  A load is shared by the readers of its page,  *)
(* its requests leave one at a time and a second apart, and the instrument's       *)
(* version is read before the load and again before its page is kept.              *)
EXTENDS Integers, FiniteSets, FiniteSetsExt, Sequences, SequencesExt

CONSTANTS
  Readers,          \* requests under way in the web process
  ChartPages,       \* the pages (timeframe and end) they may ask for
  MaxInflight,      \* MAX_INFLIGHT
  MaxRequests,      \* requests of an older page: 6 in the code
  RequestInterval,         \* BITGET_REQUEST_INTERVAL_MS, in ticks
  CacheTime,        \* CACHE_MS, in ticks
  CacheEntries,     \* CACHE_ENTRIES
  MaxVersion,       \* bound: instrument versions
  MaxTick,          \* bound: the clock
  NoLoad

VARIABLES tick, listedVersion, universeUsable, readers, loads, queue, nextStart, cache

chartVars == <<tick, listedVersion, universeUsable, readers, loads, queue, nextStart, cache>>

ChartVersions == 1..MaxVersion
PageKeys == ChartVersions \X ChartPages
LoadIds == PageKeys \cup Readers       \* a minute load belongs to its own reader

Load == [stage : {"queued", "fetching", "checking"}, left : Int, aborted : BOOLEAN]
KeptPage == [key : PageKeys, expires : Nat]

ASSUME ChartAssumption ==
  /\ {MaxInflight, MaxRequests, RequestInterval, CacheTime, CacheEntries, MaxVersion, MaxTick}
       \subseteq Nat
  /\ Readers \cap PageKeys = {}
ASSUME NoLoadIsNone == NoLoad \notin Load

FreeReader == [stage |-> "free", key |-> NoLoad, asked |-> 0]

ChartInit ==
  /\ tick = 0
  /\ listedVersion = 1
  /\ universeUsable = TRUE
  /\ readers = [r \in Readers |-> FreeReader]
  /\ loads = [l \in LoadIds |-> NoLoad]
  /\ queue = <<>>
  /\ nextStart = 0
  /\ cache = <<>>

Inflight == {l \in LoadIds : loads[l] # NoLoad}

WaitingFor(l) == {r \in Readers : readers[r].stage = "waiting" /\ readers[r].key = l}

(* all who await a load's promise get its outcome, and the load is forgotten *)
SettleLoad(l) ==
  /\ readers' = [r \in Readers |-> IF r \in WaitingFor(l) THEN FreeReader ELSE readers[r]]
  /\ loads' = [loads EXCEPT ![l] = NoLoad]

(* history: the page and the version the page's reader expects; now is read here *)
AskPage(r) ==
  /\ readers[r].stage = "free"
  /\ \E key \in PageKeys :
       readers' = [readers EXCEPT ![r] = [stage |-> "resolving", key |-> key, asked |-> tick]]
  /\ UNCHANGED <<tick, listedVersion, universeUsable, loads, queue, nextStart, cache>>

KeptAt(key) == {i \in DOMAIN cache : cache[i].key = key}

(* a Map keeps one page of a key, in the order in which they were set *)
CacheWithout(key) ==
  IF KeptAt(key) = {} THEN cache ELSE RemoveAt(cache, CHOOSE i \in KeptAt(key) : TRUE)

StartLoad(l, limit) ==
  /\ loads' = [loads EXCEPT ![l] = [stage |-> "queued", left |-> limit, aborted |-> FALSE]]
  /\ queue' = Append(queue, l)

RequestLimit(key) == IF key[2] = "latest" THEN 1 ELSE MaxRequests

(* resolveInstrument: the universe is fresh and still lists this version *)
Resolves(version) == universeUsable /\ listedVersion = version

(* the rest of history, after resolveInstrument *)
ResolvePage(r) ==
  LET key == readers[r].key
      kept == KeptAt(key)
      fresh == kept # {} /\ cache[CHOOSE i \in kept : TRUE].expires > readers[r].asked
      leave == readers' = [readers EXCEPT ![r] = FreeReader]
  IN  /\ readers[r].stage = "resolving"
      /\ \/ /\ ~Resolves(key[1])             \* unavailable, or chart_instrument_changed
            /\ leave
            /\ UNCHANGED <<loads, queue, cache>>
         \/ /\ Resolves(key[1]) /\ fresh
            /\ leave
            /\ cache' = Append(CacheWithout(key), cache[CHOOSE i \in kept : TRUE])
            /\ UNCHANGED <<loads, queue>>
         \/ /\ Resolves(key[1]) /\ ~fresh
            /\ cache' = CacheWithout(key)
            /\ \/ /\ loads[key] # NoLoad
                  /\ readers' = [readers EXCEPT ![r].stage = "waiting"]
                  /\ UNCHANGED <<loads, queue>>
               \/ /\ loads[key] = NoLoad
                  /\ Cardinality(Inflight) >= MaxInflight    \* chart_history_busy
                  /\ leave
                  /\ UNCHANGED <<loads, queue>>
               \/ /\ loads[key] = NoLoad
                  /\ Cardinality(Inflight) < MaxInflight
                  /\ StartLoad(key, RequestLimit(key))
                  /\ readers' = [readers EXCEPT ![r].stage = "waiting"]
      /\ UNCHANGED <<tick, listedVersion, universeUsable, nextStart>>

(* minuteCandles: counted with the pages, never shared, never kept *)
AskMinute(r) ==
  /\ readers[r].stage = "free"
  /\ Cardinality(Inflight) < MaxInflight
  /\ StartLoad(r, 1)
  /\ readers' = [readers EXCEPT ![r] = [stage |-> "waiting", key |-> r, asked |-> tick]]
  /\ UNCHANGED <<tick, listedVersion, universeUsable, nextStart, cache>>

(* paceRequests: the head of the chain waits for its second, or gives its turn up *)
StartRequest ==
  /\ queue # <<>>
  /\ ~loads[Head(queue)].aborted
  /\ nextStart <= tick
  /\ nextStart' = tick + RequestInterval
  /\ loads' = [loads EXCEPT ![Head(queue)] =
                [stage |-> "fetching", left |-> loads[Head(queue)].left - 1, aborted |-> FALSE]]
  /\ queue' = Tail(queue)
  /\ UNCHANGED <<tick, listedVersion, universeUsable, readers, cache>>

GiveUpTurn ==
  /\ queue # <<>>
  /\ loads[Head(queue)].aborted
  /\ SettleLoad(Head(queue))
  /\ queue' = Tail(queue)
  /\ UNCHANGED <<tick, listedVersion, universeUsable, nextStart, cache>>

(* the page's own timer; a request under way is cut off by it, or by its own *)
AbortPage(l) ==
  /\ loads[l] # NoLoad
  /\ \/ /\ loads[l].stage = "queued" /\ ~loads[l].aborted
        /\ loads' = [loads EXCEPT ![l].aborted = TRUE]
        /\ UNCHANGED readers
     \/ /\ loads[l].stage = "fetching"
        /\ SettleLoad(l)
  /\ UNCHANGED <<tick, listedVersion, universeUsable, queue, nextStart, cache>>

(* an answer the checks of candle and normalizeBars accept: the page is complete,  *)
(* or the next older part is asked for.  Any other answer ends the load.           *)
AnswerRequest(l) ==
  /\ loads[l] # NoLoad /\ loads[l].stage = "fetching"
  /\ \/ /\ SettleLoad(l)
        /\ UNCHANGED queue
     \/ /\ l \in PageKeys
        /\ loads' = [loads EXCEPT ![l].stage = "checking"]
        /\ UNCHANGED <<readers, queue>>
     \/ /\ loads[l].left > 0
        /\ loads' = [loads EXCEPT ![l].stage = "queued"]
        /\ queue' = Append(queue, l)
        /\ UNCHANGED readers
  /\ UNCHANGED <<tick, listedVersion, universeUsable, nextStart, cache>>

(* resolveInstrument again; what is no longer the version is answered to nobody *)
KeepPage(l) ==
  /\ loads[l] # NoLoad /\ loads[l].stage = "checking"
  /\ SettleLoad(l)
  /\ \/ /\ Resolves(l[1])
        /\ LET kept == Append(CacheWithout(l), [key |-> l, expires |-> tick + CacheTime])
           IN  cache' = IF Len(kept) > CacheEntries THEN Tail(kept) ELSE kept
     \/ ~Resolves(l[1]) /\ UNCHANGED cache
  /\ UNCHANGED <<tick, listedVersion, universeUsable, queue, nextStart>>

(* the market service publishes a new version, or no usable universe for a while *)
PublishUniverse ==
  /\ \/ listedVersion < MaxVersion /\ listedVersion' = listedVersion + 1 /\ UNCHANGED universeUsable
     \/ universeUsable' = ~universeUsable /\ UNCHANGED listedVersion
  /\ UNCHANGED <<tick, readers, loads, queue, nextStart, cache>>

ChartTick ==
  /\ tick < MaxTick
  /\ tick' = tick + 1
  /\ UNCHANGED <<listedVersion, universeUsable, readers, loads, queue, nextStart, cache>>

ChartNext ==
  \/ \E r \in Readers : AskPage(r) \/ ResolvePage(r) \/ AskMinute(r)
  \/ \E l \in LoadIds : AbortPage(l) \/ AnswerRequest(l) \/ KeepPage(l)
  \/ StartRequest \/ GiveUpTurn \/ PublishUniverse \/ ChartTick

(* No reader is left with a promise nobody will settle: whoever waits, waits for a *)
(* load in flight, every load that is to send a request has its one turn in the    *)
(* queue, and no load is there for nobody.                                         *)
NobodyWaitsInVain ==
  /\ \A r \in Readers : readers[r].stage = "waiting" => loads[readers[r].key] # NoLoad
  /\ \A l \in Inflight : WaitingFor(l) # {}
  /\ IsInjective(queue)
  /\ ToSet(queue) = {l \in Inflight : loads[l].stage = "queued"}

(* However many readers ask at once, the limits on loads and kept pages hold.      *)
LimitsHold ==
  /\ Cardinality(Inflight) <= MaxInflight
  /\ Len(cache) <= CacheEntries
  /\ \A i, j \in DOMAIN cache : cache[i].key = cache[j].key => i = j

ChartHolds == NobodyWaitsInVain /\ LimitsHold

(* A page is kept only while its version is the published one, whatever happened   *)
(* while it was being read; and two requests never start within the interval.      *)
PagesAreCurrent ==
  [][/\ \A kept \in ToSet(cache') : kept \notin ToSet(cache) => kept.key[1] = listedVersion
     /\ nextStart' # nextStart =>
          tick >= nextStart /\ nextStart' >= nextStart + RequestInterval]_chartVars
==================================================================================
