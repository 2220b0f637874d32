--------------------------- MODULE PriceChangeService ---------------------------
(* server/price-change.ts, for one version of one instrument: an answer joins the  *)
(* newest minute candle and the candle before the day's reference time.  Each is   *)
(* looked for in a cache, then among the loads under way, then at the venue, which *)
(* may correct what it says of a past candle.  The reference time is midnight.     *)
EXTENDS Integers, FiniteSets

CONSTANTS
  Callers,         \* requests under way in the web process
  BaselineCloses,          \* closing prices the venue may state for the baseline candle
  DayLength, MinuteLength, MissingTime, MaxCandleAge,     \* in ticks
  LastTick,        \* bound: the clock
  NoPrice

ASSUME ServiceAssumption ==
  /\ {DayLength, MinuteLength} \subseteq Nat \ {0}
  /\ {MissingTime, MaxCandleAge, LastTick} \subseteq Nat

(* what the venue says of a candle, what is kept of it, and an answer *)
Candle(closes) == [bucket : Int, close : closes \cup {NoPrice}]
KeptCandle(closes) == [expires : Int, value : Candle(closes)]
Answer == [day : Nat, close : BaselineCloses, at : Nat]

ASSUME NoPriceIsNothing ==
  NoPrice \notin KeptCandle({1}) \cup KeptCandle(BaselineCloses) \cup Answer

VARIABLES serviceTime, callers, latest, baselines, loading, answered

serviceVars == <<serviceTime, callers, latest, baselines, loading, answered>>

BaselineDays == 0..LastTick \div DayLength
LatestMinutes == 0..LastTick \div MinuteLength

Resting == [stage |-> "resting", at |-> 0, newest |-> NoPrice]

ServiceInit ==
  /\ serviceTime = 0
  /\ callers = [c \in Callers |-> Resting]
  /\ latest = [m \in LatestMinutes |-> NoPrice]
  /\ baselines = [d \in BaselineDays |-> NoPrice]
  /\ loading = {}
  /\ answered = NoPrice

DayOf(c) == callers[c].at \div DayLength
MinuteOf(c) == callers[c].at \div MinuteLength

CandleAt(bucket, close) == [bucket |-> bucket, close |-> close]

FreshCandle(kept) == kept # NoPrice /\ kept.expires > serviceTime

(* change: the clock is read before the instrument is resolved *)
BeginChange(c) ==
  /\ callers[c].stage = "resting"
  /\ callers' = [callers EXCEPT ![c] = [Resting EXCEPT !.stage = "latest", !.at = serviceTime]]
  /\ UNCHANGED <<serviceTime, latest, baselines, loading, answered>>

(* cachedCandle: the same step for either cache.  A failed resolution ends the call. *)
SeekCandle(c, kept, load) ==
  \/ /\ FreshCandle(kept)
     /\ UNCHANGED loading
  \/ /\ ~FreshCandle(kept)
     /\ loading' = loading \cup {load}

SeekLatest(c) ==
  LET kept == latest[MinuteOf(c)] IN
  /\ callers[c].stage = "latest"
  /\ SeekCandle(c, kept, <<"latest", MinuteOf(c)>>)
  /\ latest' = [latest EXCEPT ![MinuteOf(c)] = IF FreshCandle(kept) THEN kept ELSE NoPrice]
  /\ callers' = [callers EXCEPT ![c] =
       IF FreshCandle(kept) THEN [callers[c] EXCEPT !.stage = "baseline", !.newest = kept.value]
                            ELSE [callers[c] EXCEPT !.stage = "latest awaited"]]
  /\ UNCHANGED <<serviceTime, baselines, answered>>

(* the reason of an answer, judged by a clock read once both candles are there *)
AnswerReady(c, newest, baseline) ==
  /\ baseline.close # NoPrice /\ newest.close # NoPrice
  /\ newest.bucket <= serviceTime
  /\ serviceTime - newest.bucket <= MaxCandleAge
  /\ newest.bucket >= DayOf(c) * DayLength - MinuteLength

ReplyTo(c, newest, baseline) ==
  IF AnswerReady(c, newest, baseline)
  THEN [day |-> DayOf(c), close |-> baseline.close, at |-> serviceTime]
  ELSE answered

SeekBaseline(c) ==
  LET kept == baselines[DayOf(c)] IN
  /\ callers[c].stage = "baseline"
  /\ SeekCandle(c, kept, <<"baseline", DayOf(c)>>)
  /\ baselines' = [baselines EXCEPT ![DayOf(c)] = IF FreshCandle(kept) THEN kept ELSE NoPrice]
  /\ IF FreshCandle(kept)
     THEN /\ callers' = [callers EXCEPT ![c] = Resting]
          /\ answered' = ReplyTo(c, callers[c].newest, kept.value)
     ELSE /\ callers' = [callers EXCEPT ![c].stage = "baseline awaited"]
          /\ UNCHANGED answered
  /\ UNCHANGED <<serviceTime, latest>>

AwaitLatest(m) == {c \in Callers : callers[c].stage = "latest awaited" /\ MinuteOf(c) = m}
AwaitBaseline(d) == {c \in Callers : callers[c].stage = "baseline awaited" /\ DayOf(c) = d}

(* what was found is kept to the end of its minute or day, a miss only shortly *)
KeptUntil(value, end) ==
  [expires |-> IF value.close = NoPrice THEN serviceTime + MissingTime ELSE end, value |-> value]

(* of the newest candle only its presence and its minute matter here *)
LatestLoaded(m) ==
  /\ <<"latest", m>> \in loading
  /\ \E bucket \in {serviceTime - MinuteLength, serviceTime}, close \in {1, NoPrice} :
       LET value == CandleAt(bucket, close) IN
       /\ latest' = [latest EXCEPT ![m] = KeptUntil(value, (m + 1) * MinuteLength)]
       /\ callers' = [c \in Callers |->
            IF c \in AwaitLatest(m)
            THEN [callers[c] EXCEPT !.stage = "baseline", !.newest = value] ELSE callers[c]]
  /\ loading' = loading \ {<<"latest", m>>}
  /\ UNCHANGED <<serviceTime, baselines, answered>>

(* all who share the load are answered at one time, one after the other *)
BaselineLoaded(d) ==
  /\ <<"baseline", d>> \in loading
  /\ \E close \in BaselineCloses \cup {NoPrice} :
       LET value == CandleAt(d * DayLength - MinuteLength, close)
           ready == {c \in AwaitBaseline(d) : AnswerReady(c, callers[c].newest, value)}
       IN  /\ baselines' = [baselines EXCEPT ![d] = KeptUntil(value, (d + 1) * DayLength)]
           /\ answered' \in IF ready = {} THEN {answered}
                            ELSE {ReplyTo(c, callers[c].newest, value) : c \in ready}
  /\ callers' = [c \in Callers |-> IF c \in AwaitBaseline(d) THEN Resting ELSE callers[c]]
  /\ loading' = loading \ {<<"baseline", d>>}
  /\ UNCHANGED <<serviceTime, latest>>

(* a load that fails fails everyone who shares it, and nothing is kept *)
LoadFails ==
  /\ \E load \in loading :
       /\ loading' = loading \ {load}
       /\ callers' = [c \in Callers |->
            IF c \in (IF load[1] = "latest" THEN AwaitLatest(load[2]) ELSE AwaitBaseline(load[2]))
            THEN Resting ELSE callers[c]]
  /\ UNCHANGED <<serviceTime, latest, baselines, answered>>

ServiceTick ==
  /\ serviceTime < LastTick
  /\ serviceTime' = serviceTime + 1
  /\ UNCHANGED <<callers, latest, baselines, loading, answered>>

ServiceNext ==
  \/ \E c \in Callers : BeginChange(c) \/ SeekLatest(c) \/ SeekBaseline(c)
  \/ \E m \in LatestMinutes : LatestLoaded(m)
  \/ \E d \in BaselineDays : BaselineLoaded(d)
  \/ LoadFails \/ ServiceTick

(* While a day lasts its answers all measure from one baseline price, however many *)
(* callers ask at once and whatever the venue corrects in the meantime.            *)
BaselineIsSteady ==
  [][/\ answered # NoPrice /\ answered' # answered
     /\ answered'.day = answered.day
     /\ answered'.at < (answered.day + 1) * DayLength
     => answered'.close = answered.close]_serviceVars

(* Every caller that awaits a candle awaits a load that is under way.              *)
AwaitedIsLoading ==
  \A c \in Callers :
    /\ callers[c].stage = "latest awaited" => <<"latest", MinuteOf(c)>> \in loading
    /\ callers[c].stage = "baseline awaited" => <<"baseline", DayOf(c)>> \in loading
==================================================================================
