--------------------------- MODULE CandleCollection ---------------------------
(***************************************************************************)
(* Candles on their way from a venue's stream into candle_1m               *)
(* (candle_runtime.py, candle_store.py), beside the catalog refresh that   *)
(* changes the versions they belong to.  A stream hands each closed candle *)
(* to CandleBatchWriter.add, which filters it under _catalog_update_lock   *)
(* and queues it without the lock; the writer collects a batch, filters it *)
(* again under the lock and stores it in one transaction, the lock held.   *)
(*                                                                         *)
(* The candles of one venue all have the same finality, so of two versions *)
(* of a candle the one observed later wins.                                *)
(***************************************************************************)
EXTENDS CatalogRefresh, Sequences, SequencesExt

CONSTANTS
  Bucket,     \* the starts of the minutes, even clock values
  Scaled,     \* the venues whose candles carry a contract multiplier (MEXC)
  QueueSize,  \* CANDLE_QUEUE_SIZE
  BatchSize,  \* CANDLE_BATCH_SIZE
  Reach       \* how long after its minute a venue may still send a candle

ASSUME CandleAssumption ==
  /\ Bucket \subseteq Nat /\ \A b \in Bucket : b % 2 = 0
  /\ Scaled \subseteq Venue
  /\ QueueSize \in Nat \ {0} /\ BatchSize \in Nat \ {0} /\ Reach \in Nat

VARIABLES
  streams,   \* the definition each instrument's running stream was started with
  received,  \* the candle a stream waits with in add, before the lock
  blocked,   \* the candle a stream waits with in add, for room in the queue
  queue,
  pending,   \* the writer's batch in the making, by storage key
  batch,     \* the candles of the transaction in progress
  writer,    \* "collect", "flush" (wants the lock) or "store"
  stored,    \* candle_1m: the rows, each with its version's start
  overdue,   \* history: a version was closed after the minute in which it ended was over
  failed     \* history: a refresh of this process ended after a commit without publishing it

candleVars == <<streams, received, blocked, queue, pending, batch, writer>>
historyVars == <<overdue, failed>>
vars == <<clock, catalogVars, service, candleVars, stored, historyVars>>

Candle == [instrument: Instrument, bucket: Bucket, terms: Terms, seen: Nat]

Stored == [instrument: Instrument, bucket: Bucket, version: Nat, seen: Nat]

TasksTypeOK ==
  /\ streams \in Listing
  /\ received \in [Instrument -> Candle \cup {None}]
  /\ blocked \in [Instrument -> Candle \cup {None}]
  /\ queue \in Seq(Candle) /\ Len(queue) <= QueueSize
  /\ pending \subseteq Candle /\ Cardinality(pending) <= BatchSize
  /\ \A c, d \in pending : c.instrument = d.instrument /\ c.bucket = d.bucket => c = d
  /\ batch \subseteq Candle
  /\ writer \in {"collect", "flush", "store"}
  /\ writer = "store" <=> lock = "candles"
  /\ stored \subseteq Stored
  /\ overdue \in BOOLEAN /\ failed \in BOOLEAN

TypeOK == CatalogTypeOK /\ TasksTypeOK

FreshTasks ==
  /\ streams = Nothing
  /\ received = Nothing
  /\ blocked = Nothing
  /\ queue = <<>>
  /\ pending = {}
  /\ batch = {}
  /\ writer = "collect"

ForgetTasks ==
  /\ streams' = Nothing
  /\ received' = Nothing
  /\ blocked' = Nothing
  /\ queue' = <<>>
  /\ pending' = {}
  /\ batch' = {}
  /\ writer' = "collect"

Init ==
  /\ CatalogInit
  /\ FreshTasks
  /\ stored = {}
  /\ overdue = FALSE /\ failed = FALSE

----------------------------------------------------------------------------
(* The streams *)

Active(i) == catalogs[i] \in ActiveTerms

\* _candle_is_covered_by_current_version
Covered(c) == starts[c.instrument] # None /\ starts[c.instrument] <= c.bucket

Wanted(i) == IF Active(i) THEN catalogs[i] ELSE None

\* The supervisor restarts a stream whose instruments changed.
Supervise(i) ==
  /\ service = "up"
  /\ streams[i] # Wanted(i)
  /\ streams' = [streams EXCEPT ![i] = Wanted(i)]
  /\ received' = [received EXCEPT ![i] = None]
  /\ blocked' = [blocked EXCEPT ![i] = None]
  /\ UNCHANGED <<clock, catalogVars, service, queue, pending, batch, writer, stored, historyVars>>

\* The reading of the wall clock that a candle carries is not before the end of its minute; the
\* clock may have been set back since an earlier reading.
Receive(i) ==
  /\ streams[i] # None
  /\ received[i] = None /\ blocked[i] = None
  /\ \E b \in Bucket : \E t \in (b + 2)..clock :
       /\ clock <= b + 2 + Reach
       /\ received' = [received EXCEPT ![i] =
            [instrument |-> i, bucket |-> b, terms |-> streams[i], seen |-> t]]
  /\ UNCHANGED <<clock, catalogVars, service, streams, blocked, queue, pending, batch, writer,
                 stored, historyVars>>

\* Keeps the lock when it has to wait for room in the queue.
AdmitMutant(i) ==
  /\ received[i] # None
  /\ lock = None
  /\ received' = [received EXCEPT ![i] = None]
  /\ blocked' = IF Covered(received[i]) THEN [blocked EXCEPT ![i] = received[i]] ELSE blocked
  /\ lock' = IF Covered(received[i]) /\ Len(queue) = QueueSize THEN "market" ELSE None
  /\ UNCHANGED <<clock, versions, catalogs, starts, refresh, service, streams,
                 queue, pending, batch, writer, stored, historyVars>>

\* add: the filter runs under the lock, the put after it.
Admit(i) ==
  /\ received[i] # None
  /\ lock = None
  /\ received' = [received EXCEPT ![i] = None]
  /\ blocked' = IF Covered(received[i]) THEN [blocked EXCEPT ![i] = received[i]] ELSE blocked
  /\ UNCHANGED <<clock, catalogVars, service, streams, queue, pending, batch, writer, stored,
                 historyVars>>

Enqueue(i) ==
  /\ blocked[i] # None
  /\ Len(queue) < QueueSize
  /\ queue' = Append(queue, blocked[i])
  /\ blocked' = [blocked EXCEPT ![i] = None]
  /\ UNCHANGED <<clock, catalogVars, service, streams, received, pending, batch, writer, stored,
                 historyVars>>

----------------------------------------------------------------------------
(* The writer *)

SameKey(c, d) == c.instrument = d.instrument /\ c.bucket = d.bucket

\* The candle that comes last wins.
PreferMutant(c, known) == {d \in known : ~SameKey(c, d)} \cup {c}

\* _preferred_candle, for candles of one finality
Prefer(c, known) ==
  IF \E d \in known : SameKey(c, d) /\ c.seen <= d.seen
    THEN known
    ELSE {d \in known : ~SameKey(c, d)} \cup {c}

Take ==
  /\ writer = "collect"
  /\ queue # <<>>
  /\ queue' = Tail(queue)
  /\ pending' = Prefer(Head(queue), pending)
  /\ writer' = IF Cardinality(pending') >= BatchSize THEN "flush" ELSE "collect"
  /\ UNCHANGED <<clock, catalogVars, service, streams, received, blocked, batch, stored,
                 historyVars>>

\* The flush timeout, or the end of the queue at a stop.
FlushDue ==
  /\ writer = "collect"
  /\ queue = <<>>
  /\ pending # {}
  /\ writer' = "flush"
  /\ UNCHANGED <<clock, catalogVars, service, streams, received, blocked, queue, pending, batch,
                 stored, historyVars>>

\* What the writer may still store when it has the lock.
Eligible == {c \in pending : Active(c.instrument) /\ Covered(c)}

FlushEnter ==
  /\ writer = "flush"
  /\ lock = None
  /\ batch' = Eligible
  /\ pending' = {}
  /\ lock' = IF Eligible = {} THEN None ELSE "candles"
  /\ writer' = IF Eligible = {} THEN "collect" ELSE "store"
  /\ UNCHANGED <<clock, versions, catalogs, starts, refresh, service, streams,
                 received, blocked, queue, stored, historyVars>>

\* Asks only that the version began before the candle's minute did.
CoveringMutant(c) == {r \in versions : r.instrument = c.instrument /\ r.from <= c.bucket}

\* _versions_covering_candles: the versions that cover the candle's whole minute.
Covering(c) ==
  {r \in versions :
     /\ r.instrument = c.instrument
     /\ r.from <= c.bucket
     /\ r.to = None \/ c.bucket + 2 <= r.to
     /\ VenueOf[c.instrument] \in Scaled => r.terms = c.terms}

\* upsert_candles: a row is replaced only by one observed later.
Upserted(candles) ==
  LET rows == {[instrument |-> c.instrument, bucket |-> c.bucket,
                version |-> (CHOOSE r \in Covering(c) : TRUE).from, seen |-> c.seen] :
                 c \in candles}
      Beats(a, b) == SameKey(a, b) /\ a.version = b.version /\ a.seen > b.seen
      Yields(a, b) == SameKey(a, b) /\ a.version = b.version /\ a.seen <= b.seen
  IN  {s \in stored : ~\E r \in rows : Beats(r, s)}
      \cup {r \in rows : ~\E s \in stored : Yields(r, s)}

Known == \A c \in batch : Covering(c) # {}

Store ==
  /\ writer = "store"
  /\ Known
  /\ stored' = Upserted(batch)
  /\ batch' = {}
  /\ lock' = None
  /\ writer' = "collect"
  /\ UNCHANGED <<clock, versions, catalogs, starts, refresh, service, streams,
                 received, blocked, queue, pending, historyVars>>

----------------------------------------------------------------------------
(* The refresh, which the tasks see through the catalog in memory and the lock *)

\* What the histories remember of a step of the refresh.
Noted(fails) ==
  /\ overdue' = \/ overdue
                \/ clock \div 2 > refresh.at \div 2 /\ \E r \in versions \ versions' : r.to = None
  /\ failed' = (failed \/ fails)
  /\ UNCHANGED <<candleVars, stored>>

RefreshBegins == Begin /\ Noted(FALSE)

RefreshEnters == Enter /\ Noted(FALSE)

\* What a refresh does by itself once it has begun, the lock aside.
RefreshGoesOn ==
  \/ RefreshWorks /\ Noted(FALSE)
  \/ Publish /\ Noted(FALSE)
  \/ LoadFails /\ Noted(TRUE)

RefreshBreaks == ConnectionLost /\ Noted(TRUE)

----------------------------------------------------------------------------
(* The process *)

\* SIGTERM: the streams are cancelled, the writer drains what it has.
Stop ==
  /\ service = "up"
  /\ service' = "stopping"
  /\ streams' = Nothing
  /\ received' = Nothing
  /\ blocked' = Nothing
  /\ UNCHANGED <<clock, catalogVars, queue, pending, batch, writer, stored, historyVars>>

Drained == queue = <<>> /\ pending = {} /\ writer = "collect"

Stopped ==
  /\ service = "stopping"
  /\ Drained
  /\ refresh.step = "idle"
  /\ service' = "down"
  /\ ForgetTasks
  /\ UNCHANGED <<clock, catalogVars, stored, historyVars>>

Restart ==
  /\ service = "down"
  /\ Forget
  /\ ForgetTasks
  /\ failed' = FALSE
  /\ UNCHANGED <<stored, overdue>>

\* A database error in any task or a kill ends the process; the transaction in progress
\* commits or does not.
Die ==
  /\ service # "down"
  /\ Forget
  /\ ForgetTasks
  /\ failed' = FALSE
  /\ stored' \in {stored} \cup (IF writer = "store" /\ Known THEN {Upserted(batch)} ELSE {})
  /\ UNCHANGED overdue

\* UnknownCandleInstrumentError: the writer fails, and with it the process.
StoreFails ==
  /\ writer = "store"
  /\ ~Known
  /\ Forget
  /\ ForgetTasks
  /\ failed' = FALSE
  /\ UNCHANGED <<stored, overdue>>

\* Time passes unless a refresh would take longer than MaxLag or the supervisor, which looks
\* every five seconds, would be late.
Tick ==
  /\ clock < MaxClock
  /\ refresh.step = "idle" \/ clock < refresh.begun + MaxLag
  /\ service = "up" => \A i \in Instrument : streams[i] = Wanted(i)
  /\ clock' = clock + 1
  /\ UNCHANGED <<catalogVars, service, candleVars, stored, historyVars>>

Next ==
  \/ RefreshBegins
  \/ RefreshEnters
  \/ RefreshGoesOn
  \/ RefreshBreaks
  \/ \E i \in Instrument : Supervise(i) \/ Receive(i) \/ Admit(i) \/ Enqueue(i)
  \/ Take
  \/ FlushDue
  \/ FlushEnter
  \/ Store
  \/ StoreFails
  \/ Stop
  \/ Stopped
  \/ Restart
  \/ Die
  \/ Tick

Spec == Init /\ [][Next]_vars

\* Every task of a live process goes on: threads return, statements end or fail.  An asyncio
\* lock is handed over in the order of its waiters, so a task that keeps asking gets it.
Fairness ==
  /\ WF_vars(RefreshGoesOn) /\ SF_vars(RefreshEnters)
  /\ \A i \in Instrument : SF_vars(Admit(i)) /\ WF_vars(Enqueue(i))
  /\ WF_vars(Take) /\ WF_vars(FlushDue)
  /\ SF_vars(FlushEnter)
  /\ WF_vars(Store \/ StoreFails)
  /\ WF_vars(Stopped)

LiveSpec == Spec /\ Fairness

----------------------------------------------------------------------------
(* Properties *)

\* A stored candle lies within the validity of its version, the whole minute of it, although
\* refreshes close versions while candles wait in the queue: as long as every refresh closes a
\* version before the minute in which it ended is over, and with it the candle of that minute.
StoredInVersion ==
  ~overdue => \A s \in stored :
    \E r \in versions :
      /\ r.instrument = s.instrument /\ r.from = s.version
      /\ r.from <= s.bucket
      /\ r.to = None \/ s.bucket + 2 <= r.to

\* Unless a refresh ended without publishing what it had committed, the two filters leave the
\* store no candle without a version, which would end the process.
UnknownOnlyAfterFailure == writer = "store" /\ ~Known => failed

\* A stored candle is only ever replaced by one observed later.
StoredOnlyImproves ==
  [][\A s \in stored : \E t \in stored' :
       SameKey(s, t) /\ t.version = s.version /\ t.seen >= s.seen]_vars

\* A candle in the queue, in the making of a batch or in a transaction is not lost, in a stop
\* either: it moves on, yields to a later version of itself, is stored or is refused because the
\* catalog changed.  Only a process that ends with an error starts again without it.
InFlight == ToSet(queue) \cup pending \cup batch

Served(c, rows) == \E d \in rows : SameKey(c, d) /\ d.seen >= c.seen

NoSilentLoss ==
  [][service' # "starting" =>
       \A c \in InFlight :
         \/ Served(c, InFlight')
         \/ Served(c, stored')
         \/ c \in pending \ Eligible]_vars

\* What is stored, and what the store is asked for, belongs to a version.
StorageHolds == TypeOK /\ StoredInVersion /\ UnknownOnlyAfterFailure

\* Neither a stored candle nor one on its way is lost to an older one, to a stop, or silently.
NothingIsLost == StoredOnlyImproves /\ NoSilentLoss

\* While streams wait for room in the queue, some of them get it again and again: the writer
\* never waits for a lock that is held by someone who waits for the writer.
QueueMoves ==
  \/ []<>(\A i \in Instrument : blocked[i] = None)
  \/ []<><<\E i \in Instrument : Enqueue(i)>>_vars

\* A stop ends: the writer drains the queue and the refresh in progress finishes.
StopEnds == service = "stopping" ~> service # "stopping"
=============================================================================
