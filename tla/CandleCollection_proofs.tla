----------------------- MODULE CandleCollection_proofs -----------------------
(***************************************************************************)
(* The safety properties of CatalogRefresh and CandleCollection for every  *)
(* number of instruments, venues, streams and refreshes and every size of  *)
(* the queue and of a batch.  None is inductive by itself.                 *)
(*                                                                         *)
(* IInv and MInv, of the catalog alone, are those of CatalogRefresh_proofs.*)
(*                                                                         *)
(* StoreInv: that a row stays in its version follows from every candle on  *)
(* its way being of a minute that is over (CandlesAreOver), while a        *)
(* version is closed in the minute of its fetch or later; that nothing is  *)
(* lost, from one row and one candle of a batch for each minute.           *)
(*                                                                         *)
(* LagInv: that the store is asked for no candle without a version follows *)
(* from memory, the streams and the candles saying what the current        *)
(* versions say, whichever venues the refresh has committed: only if it    *)
(* takes less than two minutes (MaxLag <= 3).  With MaxLag = 4 a candle of *)
(* an old stream can begin after the fetch and still reach the store, and  *)
(* end the process.                                                        *)
(***************************************************************************)
EXTENDS CandleCollection, CatalogRefresh_proofs, SequenceTheorems, FiniteSetTheorems, TLAPS

LEMMA InitHolds == Init => IInv
  BY CatalogInitHolds DEF Init

LEMMA NextKeeps == IInv /\ [Next]_vars => IInv'
<1> SUFFICES ASSUME IInv, [Next]_vars PROVE IInv'
  OBVIOUS
<1> USE DEF catalogVars, candleVars
<1>1. clock \in Nat /\ refresh \in Refresh
  BY DEF IInv, Typed
<1>2. CASE RefreshStep
  BY <1>2, RefreshKeeps
<1>3. CASE RefreshBegins \/ RefreshEnters \/ RefreshGoesOn \/ RefreshBreaks
  BY <1>2, <1>3 DEF RefreshStep, RefreshFails, RefreshBegins, RefreshEnters, RefreshGoesOn,
                    RefreshBreaks
<1>4. ASSUME NEW i \in Instrument, Supervise(i) \/ Receive(i) \/ Admit(i) \/ Enqueue(i)
      PROVE  IInv'
  BY <1>1, <1>4, TableAsideKeeps DEF TableAside, Supervise, Receive, Admit, Enqueue
<1>5. CASE Take \/ FlushDue \/ FlushEnter \/ Store
  BY <1>1, <1>5, TableAsideKeeps DEF TableAside, Take, FlushDue, FlushEnter, Store
<1>6. CASE Stop \/ Stopped
  BY <1>1, <1>6, TableAsideKeeps DEF TableAside, Stop, Stopped
<1>7. CASE StoreFails \/ Restart \/ Die
  BY <1>7, ForgetKeeps DEF StoreFails, Restart, Die
<1>8. CASE Tick
  BY <1>1, <1>8, TableAsideKeeps DEF TableAside, Tick
<1>9. CASE UNCHANGED vars
  BY <1>1, <1>9, TableAsideKeeps DEF TableAside, vars
<1>10. QED
  BY <1>2, <1>3, <1>4, <1>5, <1>6, <1>7, <1>8, <1>9 DEF Next

\* In every reachable state the versions of an instrument have intervals that are not empty and
\* do not overlap: a candle never matches two of them, for any set of instruments and venues
\* and any number of refreshes, failures and restarts.
THEOREM VersionsStayDisjoint == Spec => []VersionsDisjoint
<1>1. IInv => VersionsDisjoint
  BY DEF IInv
<1>2. QED
  BY <1>1, InitHolds, NextKeeps, PTL DEF Spec

----------------------------------------------------------------------------
(* Memory *)

LEMMA MInitHolds == Init => MInv
  BY MemoryInitHolds DEF Init

LEMMA MNextKeeps == MInv /\ [Next]_vars => MInv'
<1> SUFFICES ASSUME MInv, [Next]_vars PROVE MInv'
  OBVIOUS
<1> USE DEF catalogVars
<1>1. Written /\ MemoryWasPersisted
  BY DEF MInv
<1>2. IInv'
  BY NextKeeps DEF MInv
<1>3. CASE RefreshStep
  BY <1>2, <1>3, MRefreshKeeps DEF MInv
<1>4. CASE RefreshBegins \/ RefreshEnters \/ RefreshGoesOn \/ RefreshBreaks
  BY <1>3, <1>4 DEF RefreshStep, RefreshFails, RefreshBegins, RefreshEnters, RefreshGoesOn,
                    RefreshBreaks
<1>5. CASE UNCHANGED <<versions, refresh, catalogs, starts>>
  BY <1>1, <1>2, <1>5 DEF MInv, Written, MemoryWasPersisted
<1>6. CASE Forget
  <2>1. versions' = versions /\ refresh' = Idle
    BY <1>6 DEF Forget
  <2>2. \A i \in Instrument : catalogs'[i] = None /\ starts'[i] = None
    BY <1>6 DEF Forget, Nothing
  <2>3. Carried
    BY <2>1 DEF Carried
  <2>4. QED
    BY <1>1, <1>2, <2>1, <2>2, <2>3, WrittenKeeps, MemoryKeeps DEF MInv, Idle
<1>7. ASSUME NEW i \in Instrument, Supervise(i) \/ Receive(i) \/ Admit(i) \/ Enqueue(i)
      PROVE  MInv'
  BY <1>5, <1>7 DEF Supervise, Receive, Admit, Enqueue
<1>8. CASE Take \/ FlushDue \/ FlushEnter \/ Store
  BY <1>5, <1>8 DEF Take, FlushDue, FlushEnter, Store
<1>9. CASE Stop \/ Stopped \/ Tick \/ UNCHANGED vars
  BY <1>5, <1>9 DEF Stop, Stopped, Tick, vars
<1>10. CASE StoreFails \/ Restart \/ Die
  BY <1>6, <1>10 DEF StoreFails, Restart, Die
<1>11. QED
  BY <1>3, <1>4, <1>7, <1>8, <1>9, <1>10 DEF Next

\* In every reachable state what memory says of an instrument, its definition and the start of
\* its version, is in a committed row: whatever a refresh had committed when it failed, and
\* whichever venues answered.
THEOREM MemoryStaysPersisted == Spec => []MemoryWasPersisted
<1>1. MInv => MemoryWasPersisted
  BY DEF MInv
<1>2. QED
  BY <1>1, MInitHolds, MNextKeeps, PTL DEF Spec
----------------------------------------------------------------------------
(* What is stored *)

\* The candles anywhere between a stream and the table.
InTransit ==
  InFlight \cup (({received[i] : i \in Instrument} \cup {blocked[i] : i \in Instrument}) \ {None})

\* Who holds the lock, and what the writer and the streams hold.
TasksHeld ==
  /\ RefreshHeld
  /\ IsFiniteSet(pending)
  /\ writer # "flush" => Cardinality(pending) < BatchSize
  /\ writer # "store" => batch = {}
  /\ \A c, d \in batch : SameKey(c, d) => c = d
  /\ service # "up" => streams = Nothing

\* A candle on its way, and one that is stored, is of a minute that is over.
CandlesAreOver ==
  /\ \A c \in InTransit : c.bucket + 2 <= clock
  /\ \A s \in stored : s.bucket + 2 <= clock

\* One row for each minute of a version.
RowsAreSingle == \A s, t \in stored : SameKey(s, t) /\ s.version = t.version => s = t

StoreInv ==
  /\ IInv /\ CatalogTypeOK /\ TasksTypeOK /\ TasksHeld
  /\ CandlesAreOver /\ RowsAreSingle /\ StoredInVersion

LEMMA QueueEnds ==
  ASSUME NEW S, NEW q \in Seq(S), NEW x \in S
  PROVE  /\ Append(q, x) \in Seq(S) /\ Len(Append(q, x)) = Len(q) + 1
         /\ ToSet(Append(q, x)) = ToSet(q) \cup {x}
<1>1. Append(q, x) \in Seq(S) /\ Len(Append(q, x)) = Len(q) + 1
  BY AppendProperties
<1>2. \A n \in 1..Len(q) : Append(q, x)[n] = q[n]
  BY AppendProperties
<1>3. Append(q, x)[Len(q) + 1] = x
  BY AppendProperties
<1>4. DOMAIN q = 1..Len(q) /\ DOMAIN Append(q, x) = 1..Len(Append(q, x)) /\ Len(q) \in Nat
  BY <1>1, LenProperties
<1>5. ToSet(Append(q, x)) \subseteq ToSet(q) \cup {x}
  BY <1>1, <1>2, <1>3, <1>4 DEF ToSet
<1>6. ToSet(q) \cup {x} \subseteq ToSet(Append(q, x))
  BY <1>1, <1>2, <1>3, <1>4 DEF ToSet
<1>7. QED
  BY <1>1, <1>5, <1>6

LEMMA QueueStarts ==
  ASSUME NEW S, NEW q \in Seq(S), q # <<>>
  PROVE  /\ Tail(q) \in Seq(S) /\ Len(Tail(q)) = Len(q) - 1
         /\ Head(q) \in S
         /\ ToSet(q) = ToSet(Tail(q)) \cup {Head(q)}
<1>1. /\ Tail(q) \in Seq(S) /\ Len(Tail(q)) = Len(q) - 1
      /\ Len(q) \in Nat /\ Len(q) > 0
      /\ \A n \in 1..Len(Tail(q)) : Tail(q)[n] = q[n + 1]
      /\ Head(q) = q[1]
  BY HeadTailProperties, EmptySeq, LenProperties
<1>2. DOMAIN q = 1..Len(q) /\ DOMAIN Tail(q) = 1..Len(Tail(q))
  BY <1>1, LenProperties
<1>3. Head(q) \in S
  BY <1>1, <1>2, ElementOfSeq
<1>4. ASSUME NEW n \in 1..Len(q) PROVE q[n] \in ToSet(Tail(q)) \cup {Head(q)}
  <2>1. CASE n = 1
    BY <1>1, <2>1
  <2>2. CASE n # 1
    <3>1. n - 1 \in 1..Len(Tail(q)) /\ n = (n - 1) + 1
      BY <1>1, <2>2
    <3>2. Tail(q)[n - 1] = q[n]
      BY <1>1, <3>1
    <3>3. QED
      BY <1>2, <3>1, <3>2 DEF ToSet
  <2>3. QED
    BY <2>1, <2>2
<1>5. ASSUME NEW n \in 1..Len(Tail(q)) PROVE Tail(q)[n] \in ToSet(q)
  BY <1>1, <1>2 DEF ToSet
<1>6. Head(q) \in ToSet(q)
  BY <1>1, <1>2 DEF ToSet
<1>7. ToSet(q) = ToSet(Tail(q)) \cup {Head(q)}
  BY <1>2, <1>4, <1>5, <1>6 DEF ToSet
<1>8. QED
  BY <1>1, <1>3, <1>7

\* The row that a transaction has for a candle.
Row(c) ==
  [instrument |-> c.instrument, bucket |-> c.bucket,
   version |-> (CHOOSE r \in Covering(c) : TRUE).from, seen |-> c.seen]

\* What a transaction makes of the table: its rows are old ones or those of its candles, one for
\* each minute of a version, each candle is served and no row gives way to an older one.
LEMMA UpsertedIsSound ==
  ASSUME TasksTypeOK, Typed, RowsAreSingle, Known,
         \A c, d \in batch : SameKey(c, d) => c = d
  PROVE  /\ Upserted(batch) \subseteq Stored
         /\ \A s \in Upserted(batch) :
              s \in stored \/ \E c \in batch, r \in versions :
                /\ r.instrument = c.instrument /\ r.from <= c.bucket
                /\ r.to = None \/ c.bucket + 2 <= r.to
                /\ s.instrument = c.instrument /\ s.bucket = c.bucket /\ s.version = r.from
         /\ \A s, t \in Upserted(batch) : SameKey(s, t) /\ s.version = t.version => s = t
         /\ \A s \in stored : \E t \in Upserted(batch) :
              SameKey(s, t) /\ t.version = s.version /\ t.seen >= s.seen
         /\ \A c \in batch : Served(c, Upserted(batch))
<1> DEFINE rows == {Row(c) : c \in batch}
           Beaten(s) == \E r \in rows : SameKey(r, s) /\ r.version = s.version /\ r.seen > s.seen
           Yields(r) == \E s \in stored : SameKey(r, s) /\ r.version = s.version /\ r.seen <= s.seen
<1>1. Upserted(batch) = {s \in stored : ~Beaten(s)} \cup {r \in rows : ~Yields(r)}
  BY DEF Upserted, Row
<1>2. ASSUME NEW c \in batch
      PROVE  /\ Row(c) \in Stored
             /\ \E r \in versions :
                  /\ r.instrument = c.instrument /\ r.from <= c.bucket
                  /\ r.to = None \/ c.bucket + 2 <= r.to
                  /\ Row(c).version = r.from
  <2>1. Covering(c) # {} /\ c \in Candle
    BY <1>2 DEF Known, TasksTypeOK
  <2>2. PICK r : r = CHOOSE x \in Covering(c) : TRUE
    OBVIOUS
  <2>3. r \in Covering(c)
    BY <2>1, <2>2
  <2>4. /\ r \in versions /\ r.instrument = c.instrument /\ r.from <= c.bucket
        /\ r.to = None \/ c.bucket + 2 <= r.to
    BY <2>3 DEF Covering
  <2>5. r.from \in Nat /\ Row(c).version = r.from
    BY <2>2, <2>4 DEF Typed, Version, Row
  <2>6. Row(c) \in Stored
    BY <2>1, <2>2, <2>5 DEF Row, Stored, Candle
  <2>7. QED
    BY <2>4, <2>5, <2>6
<1>3. \A c \in batch :
        /\ Row(c).instrument = c.instrument /\ Row(c).bucket = c.bucket /\ Row(c).seen = c.seen
  BY DEF Row
<1>4. \A s \in stored : s \in Stored /\ s.seen \in Nat
  BY DEF TasksTypeOK, Stored
<1>5. \A r \in rows : r \in Stored /\ r.seen \in Nat
  BY <1>2 DEF Stored
<1>6. \A r, q \in rows : SameKey(r, q) => r = q
  BY <1>3 DEF SameKey
<1>7. ASSUME NEW s \in stored
      PROVE  \E t \in Upserted(batch) :
               SameKey(s, t) /\ t.version = s.version /\ t.seen >= s.seen
  <2>1. CASE ~Beaten(s)
    BY <1>1, <1>4, <2>1 DEF SameKey
  <2>2. CASE Beaten(s)
    <3>1. PICK r \in rows : SameKey(r, s) /\ r.version = s.version /\ r.seen > s.seen
      BY <2>2
    <3>2. \A t \in stored : SameKey(r, t) /\ r.version = t.version => t = s
      BY <3>1 DEF RowsAreSingle, SameKey
    <3>3. ~Yields(r)
      BY <1>4, <1>5, <3>1, <3>2
    <3>4. QED
      BY <1>1, <1>4, <1>5, <3>1, <3>3 DEF SameKey
  <2>3. QED
    BY <2>1, <2>2
<1>8. ASSUME NEW s \in Upserted(batch), NEW t \in Upserted(batch), SameKey(s, t),
             s.version = t.version
      PROVE  s = t
  <2>1. CASE s \in stored /\ t \in stored
    BY <1>8, <2>1 DEF RowsAreSingle
  <2>2. CASE s \in rows /\ t \in rows
    BY <1>6, <1>8, <2>2
  <2>3. ASSUME NEW a \in rows, NEW b \in stored, SameKey(a, b), a.version = b.version,
               ~Yields(a), ~Beaten(b)
        PROVE  FALSE
    BY <1>4, <1>5, <2>3
  <2>4. QED
    BY <1>1, <1>8, <2>1, <2>2, <2>3 DEF SameKey
<1>9. ASSUME NEW c \in batch PROVE Served(c, Upserted(batch))
  <2>1. Row(c) \in rows /\ SameKey(c, Row(c)) /\ Row(c).seen = c.seen /\ c.seen \in Nat
    BY <1>3, <1>9 DEF SameKey, TasksTypeOK, Candle
  <2>2. CASE ~Yields(Row(c))
    BY <1>1, <2>1, <2>2 DEF Served
  <2>3. CASE Yields(Row(c))
    <3>1. PICK s \in stored : SameKey(Row(c), s) /\ Row(c).seen <= s.seen
      BY <2>3
    <3>2. PICK t \in Upserted(batch) : SameKey(s, t) /\ t.seen >= s.seen
      BY <1>7
    <3>3. t \in Stored
      BY <1>1, <1>4, <1>5
    <3>4. SameKey(c, t) /\ t.seen >= c.seen
      BY <1>4, <2>1, <3>1, <3>2, <3>3 DEF SameKey, Stored
    <3>5. QED
      BY <3>4 DEF Served
  <2>4. QED
    BY <2>2, <2>3
<1>10. Upserted(batch) \subseteq Stored
  BY <1>1, <1>4, <1>5
<1>11. ASSUME NEW s \in Upserted(batch)
       PROVE  s \in stored \/ \E c \in batch, r \in versions :
                /\ r.instrument = c.instrument /\ r.from <= c.bucket
                /\ r.to = None \/ c.bucket + 2 <= r.to
                /\ s.instrument = c.instrument /\ s.bucket = c.bucket /\ s.version = r.from
  <2>1. CASE s \in stored
    BY <2>1
  <2>2. CASE s \in rows
    <3>1. PICK c \in batch : s = Row(c)
      BY <2>2
    <3>2. QED
      BY <1>2, <1>3, <3>1
  <2>3. QED
    BY <1>1, <2>1, <2>2
<1>12. QED
  BY <1>7, <1>8, <1>9, <1>10, <1>11

LEMMA StoreInitHolds == Init => StoreInv
<1> SUFFICES ASSUME Init PROVE StoreInv
  OBVIOUS
<1>1. IInv
  BY InitHolds
<1>2. CatalogTypeOK
  BY CatalogInitHolds DEF Init
<1>3. /\ streams = Nothing /\ received = Nothing /\ blocked = Nothing
      /\ queue = <<>> /\ pending = {} /\ batch = {} /\ writer = "collect" /\ stored = {}
      /\ lock = None /\ overdue = FALSE /\ failed = FALSE /\ refresh = Idle
  BY DEF Init, FreshTasks, CatalogInit
<1>4. Cardinality(pending) = 0 /\ IsFiniteSet(pending)
  BY <1>3, FS_EmptySet
<1>5. queue \in Seq(Candle) /\ Len(queue) = 0 /\ ToSet(queue) = {}
  BY <1>3, EmptySeq DEF ToSet
<1>6. Cardinality(pending) <= BatchSize /\ Len(queue) <= QueueSize
  BY <1>4, <1>5, CandleAssumption
<1>7. overdue \in BOOLEAN /\ failed \in BOOLEAN
  BY <1>3
<1>8. streams \in Listing /\ received \in [Instrument -> Candle \cup {None}]
       /\ blocked \in [Instrument -> Candle \cup {None}]
  BY <1>3 DEF Nothing, Listing
<1>9. writer = "store" <=> lock = "candles"
  BY <1>3, CatalogAssumption
<1>10. TasksTypeOK
  BY <1>3, <1>5, <1>6, <1>7, <1>8, <1>9 DEF TasksTypeOK
<1>11. TasksHeld
  BY <1>3, <1>4, CandleAssumption DEF TasksHeld, RefreshHeld, Idle
<1>12. InTransit = {}
  BY <1>3, <1>5 DEF InTransit, InFlight, Nothing
<1>13. CandlesAreOver /\ RowsAreSingle /\ StoredInVersion
  BY <1>3, <1>12 DEF CandlesAreOver, RowsAreSingle, StoredInVersion
<1>14. QED
  BY <1>1, <1>2, <1>10, <1>11, <1>13 DEF StoreInv

\* A commit closes a version at the time of its fetch: unless that is in a minute that is over,
\* not before the end of any candle that is stored.
LEMMA CommitSpares ==
  ASSUME StoreInv, Fetched, NEW v \in Venue, clock \div 2 <= refresh.at \div 2,
         NEW s \in stored, NEW r \in versions,
         r.instrument = s.instrument, r.from = s.version, r.from <= s.bucket,
         r.to = None \/ s.bucket + 2 <= r.to
  PROVE  \E q \in Persisted(v) :
           /\ q.instrument = s.instrument /\ q.from = s.version
           /\ q.from <= s.bucket
           /\ q.to = None \/ s.bucket + 2 <= q.to
<1>1. s.bucket \in Nat /\ s.bucket % 2 = 0 /\ s.bucket + 2 <= clock
  BY CandleAssumption DEF StoreInv, CandlesAreOver, TasksTypeOK, Stored
<1>2. refresh.at \in Nat /\ clock \in Nat /\ r \in Version
  BY DEF StoreInv, IInv, Typed, Refresh
<1>3. s.bucket + 2 <= refresh.at
  BY <1>1, <1>2
<1> DEFINE q == IF r.to = None /\ r.instrument \in Changed(v)
                  THEN [r EXCEPT !.to = refresh.at] ELSE r
<1>4. q \in Persisted(v)
  BY DEF Persisted, VersionsClosed, VersionsOpened
<1>5. q.instrument = r.instrument /\ q.from = r.from /\ (q.to = r.to \/ q.to = refresh.at)
  BY <1>2 DEF Version
<1>6. QED
  BY <1>3, <1>4, <1>5

LEMMA StoreRefreshKeeps ==
  ASSUME StoreInv, RefreshStep, NEW fails \in BOOLEAN, Noted(fails)
  PROVE  StoreInv'
<1>1. /\ \/ lock' = lock
         \/ lock = None /\ lock' = "refresh"
         \/ lock = "refresh" /\ lock' = None
      /\ refresh'.step \in {"persist", "load"} => lock' = "refresh"
      /\ refresh'.step \in {"idle", "fetch", "waiting"} => refresh'.done = {}
      /\ service' # "up" => service # "up"
      /\ \/ versions' = versions
         \/ Fetched /\ \E v \in Venue : versions' = Persisted(v)
      /\ UNCHANGED clock
  BY RefreshShares DEF StoreInv, TasksHeld
<1>2. /\ UNCHANGED <<streams, received, blocked, queue, pending, batch, writer, stored>>
      /\ failed' = (failed \/ fails)
      /\ overdue' = \/ overdue
                    \/ clock \div 2 > refresh.at \div 2 /\ \E r \in versions \ versions' : r.to = None
  BY DEF Noted, candleVars
<1>3. IInv /\ CatalogTypeOK /\ TasksTypeOK /\ TasksHeld /\ CandlesAreOver /\ RowsAreSingle
      /\ StoredInVersion
  BY DEF StoreInv
<1>4. IInv'
  BY <1>3, RefreshKeeps
<1>5. CatalogTypeOK'
  <2>1. lock' \in {None, "refresh", "candles", "market"}
    BY <1>1, <1>3 DEF CatalogTypeOK
  <2>2. service' \in {"starting", "up", "stopping", "down"}
    BY <1>3 DEF CatalogTypeOK, RefreshStep, RefreshWorks, RefreshFails, Begin, Fetch, Enter,
       PersistVenue, RejectVenue, RecordRun, ConnectionLost, LoadFails, Publish, AfterFailure
  <2>3. QED
    BY <1>3, <1>4, <2>1, <2>2, CatalogTypeKeeps
<1>6. overdue' \in BOOLEAN /\ failed' \in BOOLEAN
  BY <1>2, <1>3 DEF TasksTypeOK
<1>7. (writer = "store" <=> lock = "candles")'
  <2>1. writer = "store" <=> lock = "candles"
    BY <1>3 DEF TasksTypeOK
  <2>2. lock' = "candles" <=> lock = "candles"
    BY <1>1, CatalogAssumption
  <2>3. QED
    BY <1>2, <2>1, <2>2
<1>8. TasksTypeOK'
  BY <1>2, <1>3, <1>6, <1>7 DEF TasksTypeOK
<1>9. TasksHeld'
  BY <1>1, <1>2, <1>3 DEF TasksHeld, RefreshHeld
<1>10. CandlesAreOver' /\ RowsAreSingle'
  BY <1>1, <1>2, <1>3 DEF CandlesAreOver, RowsAreSingle, InTransit, InFlight, SameKey
<1>11. StoredInVersion'
  <2>1. CASE versions' = versions
    BY <1>2, <1>3, <2>1 DEF StoredInVersion
  <2>2. ASSUME Fetched, NEW v \in Venue, versions' = Persisted(v)
        PROVE  StoredInVersion'
    <3>1. SUFFICES ASSUME ~overdue', NEW s \in stored
                   PROVE  \E q \in Persisted(v) :
                            /\ q.instrument = s.instrument /\ q.from = s.version
                            /\ q.from <= s.bucket
                            /\ q.to = None \/ s.bucket + 2 <= q.to
      BY <1>2, <2>2 DEF StoredInVersion
    <3>2. PICK r \in versions :
            /\ r.instrument = s.instrument /\ r.from = s.version
            /\ r.from <= s.bucket
            /\ r.to = None \/ s.bucket + 2 <= r.to
      BY <1>2, <1>3, <3>1 DEF StoredInVersion
    <3>3. clock \in Nat /\ refresh.at \in Nat
      BY <1>3 DEF IInv, Typed, Refresh
    <3>4. CASE r \in versions'
      BY <2>2, <3>2, <3>4
    <3>5. CASE r \notin versions' /\ r.to # None
      <4>1. r \in Persisted(v)
        BY <3>2, <3>5 DEF Persisted, VersionsClosed, VersionsOpened
      <4>2. QED
        BY <2>2, <3>5, <4>1
    <3>6. CASE r \notin versions' /\ r.to = None
      <4>1. ~(clock \div 2 > refresh.at \div 2)
        BY <1>2, <3>1, <3>2, <3>6
      <4>2. clock \div 2 <= refresh.at \div 2
        BY <3>3, <4>1
      <4>3. QED
        BY <2>2, <3>2, <4>2, CommitSpares
    <3>7. QED
      BY <3>4, <3>5, <3>6
  <2>3. QED
    BY <1>1, <2>1, <2>2
<1>12. QED
  BY <1>4, <1>5, <1>8, <1>9, <1>10, <1>11 DEF StoreInv

\* A step of the tasks that leaves the table of candles, the versions and the refresh alone,
\* puts nothing on its way but what was, and does not turn time back.
LEMMA StoreAsideKeeps ==
  ASSUME StoreInv, IInv', TasksTypeOK', InTransit' \subseteq InTransit,
         UNCHANGED <<versions, refresh, catalogs, starts, stored, overdue>>,
         clock' >= clock,
         lock' = lock \/ (refresh.step \notin {"persist", "load"} /\ lock' \in {None, "candles"}),
         service' \in {"starting", "up", "stopping", "down"},
         IsFiniteSet(pending'),
         writer' # "flush" => Cardinality(pending') < BatchSize,
         writer' # "store" => batch' = {},
         \A c, d \in batch' : SameKey(c, d) => c = d,
         service' # "up" => streams' = Nothing
  PROVE  StoreInv'
<1>1. CatalogTypeOK /\ TasksTypeOK /\ TasksHeld /\ CandlesAreOver /\ RowsAreSingle
      /\ StoredInVersion
  BY DEF StoreInv
<1>2. lock' \in {None, "refresh", "candles", "market"}
  BY <1>1 DEF CatalogTypeOK
<1>3. CatalogTypeOK'
  BY <1>1, <1>2, CatalogTypeKeeps
<1>4. TasksHeld'
  BY <1>1 DEF TasksHeld, RefreshHeld, SameKey
<1>5. CandlesAreOver'
  <2>1. clock \in Nat /\ clock' \in Nat
    BY <1>1, <1>3 DEF CatalogTypeOK
  <2>2. InTransit \subseteq Candle
    BY <1>1 DEF InTransit, InFlight, TasksTypeOK, ToSet
  <2>3. \A c \in Candle \cup Stored : c.bucket \in Nat
    BY CandleAssumption DEF Candle, Stored
  <2>4. stored \subseteq Stored
    BY <1>1 DEF TasksTypeOK
  <2>5. \A c \in InTransit : c.bucket + 2 <= clock'
    BY <1>1, <2>1, <2>2, <2>3 DEF CandlesAreOver
  <2>6. \A s \in stored : s.bucket + 2 <= clock'
    BY <1>1, <2>1, <2>3, <2>4 DEF CandlesAreOver
  <2>7. QED
    BY <2>5, <2>6 DEF CandlesAreOver
<1>6. RowsAreSingle' /\ StoredInVersion'
  BY <1>1 DEF RowsAreSingle, StoredInVersion, SameKey
<1>7. QED
  BY <1>1, <1>3, <1>4, <1>5, <1>6 DEF StoreInv

\* How the candles on their way change when the streams' ones do.
LEMMA StreamsCarry ==
  ASSUME TasksTypeOK, UNCHANGED <<pending, batch>>, queue' = queue,
         \A i \in Instrument :
           /\ received'[i] \in {None} \cup InTransit
           /\ blocked'[i] \in {None} \cup InTransit
  PROVE  InTransit' \subseteq InTransit
  BY DEF InTransit, InFlight

LEMMA AtStreams ==
  ASSUME TasksTypeOK, NEW i \in Instrument
  PROVE  /\ received[i] # None => received[i] \in InTransit /\ received[i] \in Candle
         /\ blocked[i] # None => blocked[i] \in InTransit /\ blocked[i] \in Candle
  BY DEF TasksTypeOK, InTransit

LEMMA StoreStreamKeeps ==
  ASSUME StoreInv, IInv', NEW i \in Instrument,
         Supervise(i) \/ Receive(i) \/ Admit(i) \/ Enqueue(i)
  PROVE  StoreInv'
<1>1. CatalogTypeOK /\ TasksTypeOK /\ TasksHeld
  BY DEF StoreInv
<1>2. clock \in Nat
  BY <1>1 DEF CatalogTypeOK
<1> USE DEF catalogVars, historyVars
<1>3. CASE Supervise(i)
  <2>1. Wanted(i) \in Terms \cup {None}
    BY <1>1 DEF Wanted, CatalogTypeOK, Listing
  <2>2. /\ streams' \in Listing
        /\ received' \in [Instrument -> Candle \cup {None}]
        /\ blocked' \in [Instrument -> Candle \cup {None}]
    BY <1>1, <1>3, <2>1 DEF Supervise, TasksTypeOK, Listing
  <2>3. TasksTypeOK'
    BY <1>1, <1>3, <2>2 DEF Supervise, TasksTypeOK
  <2>4. InTransit' \subseteq InTransit
    BY <1>1, <1>3, AtStreams, StreamsCarry DEF Supervise, TasksTypeOK
  <2>5. QED
    BY <1>1, <1>2, <1>3, <2>3, <2>4, StoreAsideKeeps DEF Supervise, CatalogTypeOK, TasksHeld
<1>4. CASE Receive(i)
  <2>0. PICK b \in Bucket : \E t \in (b + 2)..clock :
          received' = [received EXCEPT ![i] =
            [instrument |-> i, bucket |-> b, terms |-> streams[i], seen |-> t]]
    BY <1>4 DEF Receive
  <2>1. PICK t \in (b + 2)..clock :
          received' = [received EXCEPT ![i] =
            [instrument |-> i, bucket |-> b, terms |-> streams[i], seen |-> t]]
    BY <2>0
  <2> DEFINE new == [instrument |-> i, bucket |-> b, terms |-> streams[i], seen |-> t]
  <2>2. b \in Nat /\ t \in Nat /\ b + 2 <= clock
    BY <1>2, <2>1, CandleAssumption
  <2>3. new \in Candle
    BY <1>1, <1>4, <2>2 DEF Receive, TasksTypeOK, Listing, Candle
  <2>4. TasksTypeOK'
    BY <1>1, <1>4, <2>1, <2>3 DEF Receive, TasksTypeOK
  <2>5. \A c \in InTransit' : c \in InTransit \/ c = new
    BY <1>1, <1>4, <2>1 DEF Receive, InTransit, InFlight, TasksTypeOK
  <2>6. CandlesAreOver'
    BY <1>4, <2>2, <2>5 DEF StoreInv, CandlesAreOver, Receive
  <2>7. TasksHeld' /\ CatalogTypeOK' /\ RowsAreSingle' /\ StoredInVersion'
    BY <1>1, <1>4 DEF StoreInv, Receive, TasksHeld, RefreshHeld, CatalogTypeOK, RowsAreSingle,
       StoredInVersion, SameKey
  <2>8. QED
    BY <2>4, <2>6, <2>7 DEF StoreInv
<1>5. CASE Admit(i)
  <2>1. received[i] \in Candle /\ received[i] \in InTransit
    BY <1>1, <1>5, AtStreams DEF Admit
  <2>2. /\ received' \in [Instrument -> Candle \cup {None}]
        /\ blocked' \in [Instrument -> Candle \cup {None}]
    BY <1>1, <1>5, <2>1 DEF Admit, TasksTypeOK
  <2>3. TasksTypeOK'
    BY <1>1, <1>5, <2>2 DEF Admit, TasksTypeOK
  <2>4. InTransit' \subseteq InTransit
    BY <1>1, <1>5, <2>1, AtStreams, StreamsCarry DEF Admit, TasksTypeOK
  <2>5. QED
    BY <1>1, <1>2, <1>5, <2>3, <2>4, StoreAsideKeeps DEF Admit, CatalogTypeOK, TasksHeld
<1>6. CASE Enqueue(i)
  <2>1. blocked[i] \in Candle /\ blocked[i] \in InTransit
    BY <1>1, <1>6, AtStreams DEF Enqueue
  <2>2. /\ queue' \in Seq(Candle) /\ Len(queue') = Len(queue) + 1
        /\ ToSet(queue') = ToSet(queue) \cup {blocked[i]}
    BY <1>1, <1>6, <2>1, QueueEnds DEF Enqueue, TasksTypeOK
  <2>3. Len(queue') <= QueueSize
    BY <1>1, <1>6, <2>2, CandleAssumption, LenProperties DEF Enqueue, TasksTypeOK
  <2>4. blocked' \in [Instrument -> Candle \cup {None}]
    BY <1>1, <1>6 DEF Enqueue, TasksTypeOK
  <2>5. TasksTypeOK'
    BY <1>1, <1>6, <2>2, <2>3, <2>4 DEF Enqueue, TasksTypeOK
  <2>6. InTransit' \subseteq InTransit
    BY <1>1, <1>6, <2>1, <2>2 DEF Enqueue, InTransit, InFlight, TasksTypeOK
  <2>7. QED
    BY <1>1, <1>2, <1>6, <2>5, <2>6, StoreAsideKeeps DEF Enqueue, CatalogTypeOK, TasksHeld
<1>7. QED
  BY <1>3, <1>4, <1>5, <1>6

\* Of the candles that a batch knows and one more, none is lost to an older version of itself,
\* and the batch still has one for each minute of an instrument.
LEMMA PreferIsSound ==
  ASSUME NEW known \in SUBSET Candle, IsFiniteSet(known), NEW c \in Candle,
         \A d, e \in known : SameKey(d, e) => d = e
  PROVE  /\ Prefer(c, known) \subseteq known \cup {c}
         /\ IsFiniteSet(Prefer(c, known)) /\ Cardinality(Prefer(c, known)) <= Cardinality(known) + 1
         /\ \A d, e \in Prefer(c, known) : SameKey(d, e) => d = e
         /\ \A d \in known \cup {c} : Served(d, Prefer(c, known))
<1>1. Prefer(c, known) \subseteq known \cup {c}
  BY DEF Prefer
<1>2. /\ IsFiniteSet(known \cup {c})
      /\ Cardinality(known \cup {c}) <= Cardinality(known) + 1
      /\ Cardinality(known) \in Nat
  <2>1. Cardinality(known) \in Nat
    BY FS_CardinalityType
  <2>2. /\ IsFiniteSet(known \cup {c})
        /\ Cardinality(known \cup {c}) =
             IF c \in known THEN Cardinality(known) ELSE Cardinality(known) + 1
    BY FS_AddElement, Zenon
  <2>3. QED
    BY <2>1, <2>2
<1>3. IsFiniteSet(Prefer(c, known)) /\ Cardinality(Prefer(c, known)) <= Cardinality(known) + 1
  <2>1. /\ IsFiniteSet(Prefer(c, known))
        /\ Cardinality(Prefer(c, known)) <= Cardinality(known \cup {c})
    BY <1>1, <1>2, FS_Subset
  <2>2. Cardinality(Prefer(c, known)) \in Nat /\ Cardinality(known \cup {c}) \in Nat
    BY <1>2, <2>1, FS_CardinalityType
  <2>3. QED
    BY <1>2, <2>1, <2>2
<1>4. \A d, e \in Prefer(c, known) : SameKey(d, e) => d = e
  BY DEF Prefer, SameKey
<1>5. \A d \in Candle : d.seen \in Nat
  BY DEF Candle
<1>6. ASSUME NEW d \in known \cup {c} PROVE Served(d, Prefer(c, known))
  <2>1. CASE \E e \in known : SameKey(c, e) /\ c.seen <= e.seen
    BY <1>5, <2>1 DEF Prefer, Served, SameKey
  <2>2. CASE ~\E e \in known : SameKey(c, e) /\ c.seen <= e.seen
    <3>1. Prefer(c, known) = {e \in known : ~SameKey(c, e)} \cup {c}
      BY <2>2 DEF Prefer
    <3>2. CASE d = c \/ ~SameKey(c, d)
      BY <1>5, <3>1, <3>2 DEF Served, SameKey
    <3>3. CASE d # c /\ SameKey(c, d)
      <4>1. SameKey(d, c) /\ c.seen >= d.seen
        BY <1>5, <2>2, <3>3 DEF SameKey
      <4>2. QED
        BY <3>1, <4>1 DEF Served
    <3>4. QED
      BY <3>2, <3>3
  <2>3. QED
    BY <2>1, <2>2
<1>7. QED
  BY <1>1, <1>3, <1>4, <1>6

LEMMA TakeMoves ==
  ASSUME StoreInv, Take
  PROVE  /\ Head(queue) \in Candle
         /\ queue' \in Seq(Candle) /\ Len(queue') = Len(queue) - 1
         /\ ToSet(queue) = ToSet(queue') \cup {Head(queue)}
         /\ pending' \subseteq pending \cup {Head(queue)}
         /\ IsFiniteSet(pending') /\ Cardinality(pending') <= Cardinality(pending) + 1
         /\ \A d, e \in pending' : SameKey(d, e) => d = e
         /\ \A d \in pending \cup {Head(queue)} : Served(d, pending')
<1>1. queue \in Seq(Candle) /\ queue # <<>> /\ queue' = Tail(queue)
  BY DEF StoreInv, TasksTypeOK, Take
<1>2. pending \in SUBSET Candle /\ IsFiniteSet(pending)
      /\ \A d, e \in pending : SameKey(d, e) => d = e
  BY DEF StoreInv, TasksTypeOK, TasksHeld, SameKey
<1>3. pending' = Prefer(Head(queue), pending)
  BY DEF Take
<1>4. /\ Head(queue) \in Candle
      /\ queue' \in Seq(Candle) /\ Len(queue') = Len(queue) - 1
      /\ ToSet(queue) = ToSet(queue') \cup {Head(queue)}
  BY <1>1, QueueStarts
<1>5. QED
  BY <1>2, <1>3, <1>4, PreferIsSound

LEMMA StoreWriterKeeps ==
  ASSUME StoreInv, IInv', Take \/ FlushDue \/ FlushEnter
  PROVE  StoreInv'
<1>1. CatalogTypeOK /\ TasksTypeOK /\ TasksHeld
  BY DEF StoreInv
<1>2. clock \in Nat /\ service \in {"starting", "up", "stopping", "down"}
  BY <1>1 DEF CatalogTypeOK
<1>3. service # "up" => streams = Nothing
  BY <1>1 DEF TasksHeld
<1>4. BatchSize \in Nat /\ BatchSize > 0 /\ QueueSize \in Nat /\ Len(queue) \in Nat
  BY <1>1, CandleAssumption, LenProperties DEF TasksTypeOK
<1>5. IsFiniteSet(pending) /\ Cardinality(pending) \in Nat
  BY <1>1, FS_CardinalityType DEF TasksHeld
<1> USE DEF catalogVars, historyVars
<1>6. CASE Take
  <2>1. /\ Head(queue) \in Candle
        /\ queue' \in Seq(Candle) /\ Len(queue') = Len(queue) - 1
        /\ ToSet(queue) = ToSet(queue') \cup {Head(queue)}
        /\ pending' \subseteq pending \cup {Head(queue)}
        /\ IsFiniteSet(pending') /\ Cardinality(pending') <= Cardinality(pending) + 1
        /\ \A d, e \in pending' : SameKey(d, e) => d = e
    BY <1>6, TakeMoves
  <2>2. /\ writer = "collect"
        /\ writer' = IF Cardinality(pending') >= BatchSize THEN "flush" ELSE "collect"
        /\ UNCHANGED <<clock, versions, catalogs, starts, lock, refresh, service, streams,
                       received, blocked, batch, stored, overdue, failed>>
    BY <1>6 DEF Take
  <2>3. Cardinality(pending) < BatchSize /\ batch = {}
    BY <1>1, <2>2 DEF TasksHeld
  <2>4. Cardinality(pending') \in Nat
    BY <2>1, FS_CardinalityType
  <2>5. Len(queue') <= QueueSize
    BY <1>1, <1>4, <2>1 DEF TasksTypeOK
  <2>6. Cardinality(pending') <= BatchSize
    BY <1>4, <1>5, <2>1, <2>3, <2>4
  <2>7. writer' \in {"collect", "flush"} /\ (writer' # "flush" => Cardinality(pending') < BatchSize)
    BY <1>4, <2>2, <2>4
  <2>8. pending' \subseteq Candle
    BY <1>1, <2>1 DEF TasksTypeOK
  <2>9. TasksTypeOK'
    BY <1>1, <2>1, <2>2, <2>5, <2>6, <2>7, <2>8 DEF TasksTypeOK, SameKey
  <2>10. InTransit' \subseteq InTransit
    BY <2>1, <2>2 DEF InTransit, InFlight
  <2>11. QED
    BY <1>2, <1>3, <2>1, <2>2, <2>3, <2>7, <2>9, <2>10, StoreAsideKeeps
<1>7. CASE FlushDue
  <2>1. TasksTypeOK'
    BY <1>1, <1>7 DEF FlushDue, TasksTypeOK
  <2>2. InTransit' \subseteq InTransit
    BY <1>7 DEF FlushDue, InTransit, InFlight
  <2>3. QED
    BY <1>1, <1>2, <1>3, <1>5, <1>7, <2>1, <2>2, StoreAsideKeeps DEF FlushDue, TasksHeld
<1>8. CASE FlushEnter
  <2>1. /\ writer = "flush" /\ lock = None /\ batch' = Eligible /\ pending' = {}
        /\ UNCHANGED <<clock, versions, catalogs, starts, refresh, service, streams,
                       received, blocked, queue, stored, overdue, failed>>
    BY <1>8 DEF FlushEnter
  <2>2. /\ writer' \in {"collect", "store"}
        /\ lock' = None \/ lock' = "candles"
        /\ writer' = "store" <=> lock' = "candles"
        /\ writer' # "store" => batch' = {}
    BY <1>8, CatalogAssumption DEF FlushEnter
  <2>3. Eligible \subseteq pending
    BY DEF Eligible
  <2>4. IsFiniteSet(pending') /\ Cardinality(pending') = 0
    BY <2>1, FS_EmptySet
  <2>5. batch' \subseteq Candle /\ pending' \subseteq Candle /\ Cardinality(pending') <= BatchSize
    BY <1>1, <1>4, <2>1, <2>3, <2>4 DEF TasksTypeOK
  <2>6. TasksTypeOK'
    BY <1>1, <2>1, <2>2, <2>5 DEF TasksTypeOK
  <2>7. InTransit' \subseteq InTransit
    BY <2>1, <2>3 DEF InTransit, InFlight
  <2>8. \A c, d \in batch' : SameKey(c, d) => c = d
    BY <1>1, <2>1, <2>3 DEF TasksTypeOK, SameKey
  <2>9. refresh.step \notin {"persist", "load"}
    BY <1>1, <2>1, CatalogAssumption DEF TasksHeld, RefreshHeld
  <2>10. QED
    BY <1>2, <1>3, <1>4, <2>1, <2>2, <2>4, <2>6, <2>7, <2>8, <2>9, StoreAsideKeeps
<1>9. QED
  BY <1>6, <1>7, <1>8

\* The rows of a transaction are of versions that cover their minutes, minutes that are over.
LEMMA UpsertedStays ==
  ASSUME StoreInv, Known, versions' = versions, clock' = clock, overdue' = overdue,
         stored' = Upserted(batch)
  PROVE  /\ stored' \subseteq Stored
         /\ \A s \in stored' : s.bucket + 2 <= clock
         /\ RowsAreSingle'
         /\ StoredInVersion'
<1>1. TasksTypeOK /\ Typed /\ RowsAreSingle /\ TasksHeld /\ CandlesAreOver /\ StoredInVersion
  BY DEF StoreInv, IInv
<1>2. \A c, d \in batch : SameKey(c, d) => c = d
  BY <1>1 DEF TasksHeld
<1>3. /\ stored' \subseteq Stored
      /\ \A s \in stored' :
           s \in stored \/ \E c \in batch, r \in versions :
             /\ r.instrument = c.instrument /\ r.from <= c.bucket
             /\ r.to = None \/ c.bucket + 2 <= r.to
             /\ s.instrument = c.instrument /\ s.bucket = c.bucket /\ s.version = r.from
      /\ \A s, t \in stored' : SameKey(s, t) /\ s.version = t.version => s = t
  BY <1>1, <1>2, UpsertedIsSound
<1>4. \A c \in batch : c.bucket + 2 <= clock
  BY <1>1 DEF CandlesAreOver, InTransit, InFlight
<1>5. \A s \in stored' : s.bucket + 2 <= clock
  BY <1>1, <1>3, <1>4 DEF CandlesAreOver
<1>6. RowsAreSingle'
  BY <1>3 DEF RowsAreSingle, SameKey
<1>7. StoredInVersion'
  BY <1>1, <1>3 DEF StoredInVersion
<1>8. QED
  BY <1>3, <1>5, <1>6, <1>7

LEMMA StoreStoreKeeps ==
  ASSUME StoreInv, IInv', Store
  PROVE  StoreInv'
<1>1. CatalogTypeOK /\ TasksTypeOK /\ TasksHeld
  BY DEF StoreInv
<1>2. /\ writer = "store" /\ Known /\ stored' = Upserted(batch) /\ batch' = {}
      /\ lock' = None /\ writer' = "collect"
      /\ UNCHANGED <<clock, versions, catalogs, starts, refresh, service, streams,
                     received, blocked, queue, pending, overdue, failed>>
  BY DEF Store, historyVars
<1>3. /\ stored' \subseteq Stored
      /\ \A s \in stored' : s.bucket + 2 <= clock
      /\ RowsAreSingle'
      /\ StoredInVersion'
  BY <1>2, UpsertedStays
<1>4. CatalogTypeOK'
  BY <1>1, <1>2, CatalogTypeKeeps DEF CatalogTypeOK
<1>5. TasksTypeOK'
  BY <1>1, <1>2, <1>3, CatalogAssumption DEF TasksTypeOK
<1>6. CandlesAreOver'
  <2>1. InTransit' \subseteq InTransit
    BY <1>2 DEF InTransit, InFlight
  <2>2. QED
    BY <1>2, <1>3, <2>1 DEF StoreInv, CandlesAreOver
<1>7. lock = "candles" /\ refresh.step \notin {"persist", "load"}
  BY <1>1, <1>2 DEF TasksTypeOK, TasksHeld, RefreshHeld
<1>8. TasksHeld'
  BY <1>1, <1>2, <1>7 DEF TasksHeld, RefreshHeld
<1>9. QED
  BY <1>3, <1>4, <1>5, <1>6, <1>8 DEF StoreInv

\* A process that ends with an error: its candles are gone, and the table is what it was or
\* what its transaction made of it.
LEMMA StoreEndsKeeps ==
  ASSUME StoreInv, IInv', StoreFails \/ Restart \/ Die
  PROVE  StoreInv'
<1>1. CatalogTypeOK /\ TasksTypeOK /\ TasksHeld /\ CandlesAreOver /\ RowsAreSingle
      /\ StoredInVersion
  BY DEF StoreInv
<1>2. Forget /\ ForgetTasks /\ failed' = FALSE /\ overdue' = overdue
  BY DEF StoreFails, Restart, Die
<1>3. UNCHANGED <<clock, versions>> /\ lock' = None /\ refresh' = Idle /\ service' = "starting"
  BY <1>2 DEF Forget
<1>4. /\ stored' \subseteq Stored
      /\ \A s \in stored' : s.bucket + 2 <= clock
      /\ RowsAreSingle'
      /\ StoredInVersion'
  <2>1. stored' = stored \/ (Known /\ stored' = Upserted(batch))
    BY DEF StoreFails, Restart, Die
  <2>2. CASE stored' = stored
    BY <1>1, <1>2, <1>3, <2>2
       DEF TasksTypeOK, CandlesAreOver, RowsAreSingle, StoredInVersion, SameKey
  <2>3. CASE Known /\ stored' = Upserted(batch)
    BY <1>2, <1>3, <2>3, UpsertedStays
  <2>4. QED
    BY <2>1, <2>2, <2>3
<1>5. CatalogTypeOK'
  BY <1>1, <1>2, <1>3, CatalogTypeKeeps
<1>6. /\ streams' = Nothing /\ received' = Nothing /\ blocked' = Nothing
      /\ queue' = <<>> /\ pending' = {} /\ batch' = {} /\ writer' = "collect"
  BY <1>2 DEF ForgetTasks
<1>7. Cardinality(pending') = 0 /\ IsFiniteSet(pending')
  BY <1>6, FS_EmptySet
<1>8. queue' \in Seq(Candle) /\ Len(queue') = 0 /\ ToSet(queue') = {}
  BY <1>6, EmptySeq DEF ToSet
<1>9. TasksTypeOK'
  <2>1. Cardinality(pending') <= BatchSize /\ Len(queue') <= QueueSize
    BY <1>7, <1>8, CandleAssumption
  <2>2. overdue' \in BOOLEAN /\ failed' \in BOOLEAN
    BY <1>1, <1>2 DEF TasksTypeOK
  <2>3. streams' \in Listing /\ received' \in [Instrument -> Candle \cup {None}]
        /\ blocked' \in [Instrument -> Candle \cup {None}]
    BY <1>6 DEF Nothing, Listing
  <2>4. writer' = "store" <=> lock' = "candles"
    BY <1>3, <1>6, CatalogAssumption
  <2>5. QED
    BY <1>4, <1>6, <1>8, <2>1, <2>2, <2>3, <2>4 DEF TasksTypeOK
<1>10. TasksHeld'
  BY <1>3, <1>6, <1>7, CandleAssumption DEF TasksHeld, RefreshHeld, Idle
<1>11. CandlesAreOver'
  <2>1. InTransit' = {}
    BY <1>6, <1>8 DEF InTransit, InFlight, Nothing
  <2>2. QED
    BY <1>3, <1>4, <2>1 DEF CandlesAreOver
<1>12. QED
  BY <1>4, <1>5, <1>9, <1>10, <1>11 DEF StoreInv

LEMMA StoreStopKeeps ==
  ASSUME StoreInv, IInv', Stop \/ Stopped \/ Tick \/ UNCHANGED vars
  PROVE  StoreInv'
<1>1. CatalogTypeOK /\ TasksTypeOK /\ TasksHeld
  BY DEF StoreInv
<1>2. clock \in Nat /\ service \in {"starting", "up", "stopping", "down"}
  BY <1>1 DEF CatalogTypeOK
<1>3. UNCHANGED <<versions, refresh, catalogs, starts, lock, stored, overdue, failed>>
  BY DEF Stop, Stopped, Tick, vars, catalogVars, historyVars
<1>4. clock' >= clock /\ service' \in {"starting", "up", "stopping", "down"}
  BY <1>2 DEF Stop, Stopped, Tick, vars
<1>5. CASE Stop
  <2>1. /\ streams' = Nothing /\ received' = Nothing /\ blocked' = Nothing
        /\ UNCHANGED <<queue, pending, batch, writer>>
    BY <1>5 DEF Stop
  <2>2. streams' \in Listing /\ received' \in [Instrument -> Candle \cup {None}]
        /\ blocked' \in [Instrument -> Candle \cup {None}]
    BY <2>1 DEF Nothing, Listing
  <2>3. TasksTypeOK'
    BY <1>1, <1>3, <2>1, <2>2 DEF TasksTypeOK
  <2>4. InTransit' \subseteq InTransit
    BY <2>1 DEF InTransit, InFlight, Nothing
  <2>5. QED
    BY <1>1, <1>3, <1>4, <2>1, <2>3, <2>4, StoreAsideKeeps DEF TasksHeld
<1>6. CASE Stopped
  <2>1. /\ streams' = Nothing /\ received' = Nothing /\ blocked' = Nothing
        /\ queue' = <<>> /\ pending' = {} /\ batch' = {} /\ writer' = "collect"
        /\ queue = <<>> /\ pending = {} /\ writer = "collect"
    BY <1>6 DEF Stopped, ForgetTasks, Drained
  <2>2. streams' \in Listing /\ received' \in [Instrument -> Candle \cup {None}]
        /\ blocked' \in [Instrument -> Candle \cup {None}]
    BY <2>1 DEF Nothing, Listing
  <2>3. batch = {} /\ Cardinality(pending) < BatchSize /\ IsFiniteSet(pending)
    BY <1>1, <2>1 DEF TasksHeld
  <2>4. TasksTypeOK'
    BY <1>1, <1>3, <2>1, <2>2 DEF TasksTypeOK
  <2>5. InTransit' \subseteq InTransit
    BY <2>1 DEF InTransit, InFlight, Nothing
  <2>6. QED
    BY <1>1, <1>3, <1>4, <2>1, <2>3, <2>4, <2>5, StoreAsideKeeps DEF TasksHeld
<1>7. CASE Tick \/ UNCHANGED vars
  <2>1. UNCHANGED <<service, streams, received, blocked, queue, pending, batch, writer>>
    BY <1>7 DEF Tick, candleVars, vars
  <2>2. TasksTypeOK' /\ InTransit' \subseteq InTransit
    BY <1>1, <1>3, <2>1 DEF TasksTypeOK, InTransit, InFlight
  <2>3. QED
    BY <1>1, <1>3, <1>4, <2>1, <2>2, StoreAsideKeeps DEF TasksHeld
<1>8. QED
  BY <1>5, <1>6, <1>7

LEMMA StoreNextKeeps == StoreInv /\ [Next]_vars => StoreInv'
<1> SUFFICES ASSUME StoreInv, [Next]_vars PROVE StoreInv'
  OBVIOUS
<1>1. IInv'
  BY NextKeeps DEF StoreInv
<1>2. CASE RefreshBegins \/ RefreshEnters \/ RefreshGoesOn \/ RefreshBreaks
  <2>1. RefreshStep /\ (Noted(TRUE) \/ Noted(FALSE))
    BY <1>2 DEF RefreshStep, RefreshFails, RefreshBegins, RefreshEnters, RefreshGoesOn,
                RefreshBreaks
  <2>2. QED
    BY <2>1, StoreRefreshKeeps
<1>3. ASSUME NEW i \in Instrument, Supervise(i) \/ Receive(i) \/ Admit(i) \/ Enqueue(i)
      PROVE  StoreInv'
  BY <1>1, <1>3, StoreStreamKeeps
<1>4. CASE Take \/ FlushDue \/ FlushEnter
  BY <1>1, <1>4, StoreWriterKeeps
<1>5. CASE Store
  BY <1>1, <1>5, StoreStoreKeeps
<1>6. CASE StoreFails \/ Restart \/ Die
  BY <1>1, <1>6, StoreEndsKeeps
<1>7. CASE Stop \/ Stopped \/ Tick \/ UNCHANGED vars
  BY <1>1, <1>7, StoreStopKeeps
<1>8. QED
  BY <1>2, <1>3, <1>4, <1>5, <1>6, <1>7 DEF Next

\* In every reachable state every stored candle lies within the validity of its version, unless
\* a refresh closed a version after the minute in which it had been fetched: for any number of
\* instruments, streams and refreshes, whatever waits in the queue when a version is closed.
THEOREM RowsStayInVersion == Spec => [](TypeOK /\ StoredInVersion)
<1>1. StoreInv => TypeOK /\ StoredInVersion
  BY DEF StoreInv, TypeOK
<1>2. QED
  BY <1>1, StoreInitHolds, StoreNextKeeps, PTL DEF Spec

----------------------------------------------------------------------------
(* What is lost *)

LEMMA StoredStays ==
  ASSUME StoreInv, stored' = stored \/ (Known /\ stored' = Upserted(batch))
  PROVE  \A s \in stored : \E t \in stored' :
           SameKey(s, t) /\ t.version = s.version /\ t.seen >= s.seen
<1>1. TasksTypeOK /\ Typed /\ RowsAreSingle /\ \A c, d \in batch : SameKey(c, d) => c = d
  BY DEF StoreInv, IInv, TasksHeld
<1>2. CASE stored' = stored
  BY <1>1, <1>2 DEF SameKey, TasksTypeOK, Stored
<1>3. CASE Known /\ stored' = Upserted(batch)
  BY <1>1, <1>3, UpsertedIsSound
<1>4. QED
  BY <1>2, <1>3

LEMMA NextOnlyImproves ==
  ASSUME StoreInv, [Next]_vars
  PROVE  \A s \in stored : \E t \in stored' :
           SameKey(s, t) /\ t.version = s.version /\ t.seen >= s.seen
<1>1. stored' = stored \/ (Known /\ stored' = Upserted(batch))
  BY DEF Next, RefreshBegins, RefreshEnters, RefreshGoesOn, RefreshBreaks, Noted, Supervise,
     Receive, Admit, Enqueue, Take, FlushDue, FlushEnter, Store, StoreFails, Stop, Stopped,
     Restart, Die, Tick, vars
<1>2. QED
  BY <1>1, StoredStays

\* What becomes of a candle in a step of a process that goes on.
Kept(c) == Served(c, InFlight') \/ Served(c, stored') \/ c \in pending \ Eligible

LEMMA NextKeepsCandles ==
  ASSUME StoreInv, [Next]_vars, service' # "starting", NEW c \in InFlight
  PROVE  Kept(c)
<1>1. TasksTypeOK /\ TasksHeld /\ Typed /\ RowsAreSingle
  BY DEF StoreInv, IInv
<1>2. c.seen \in Nat
  <2>1. InFlight \subseteq Candle
    BY <1>1 DEF InFlight, TasksTypeOK, ToSet
  <2>2. QED
    BY <2>1 DEF Candle
<1>3. c \in InFlight' => Kept(c)
  BY <1>2 DEF Kept, Served, SameKey
<1>4. CASE UNCHANGED <<queue, pending, batch>>
  BY <1>3, <1>4 DEF InFlight
<1>5. CASE RefreshBegins \/ RefreshEnters \/ RefreshGoesOn \/ RefreshBreaks
  BY <1>4, <1>5 DEF RefreshBegins, RefreshEnters, RefreshGoesOn, RefreshBreaks, Noted, candleVars
<1>6. ASSUME NEW i \in Instrument, Supervise(i) \/ Receive(i) \/ Admit(i)
      PROVE  Kept(c)
  BY <1>4, <1>6 DEF Supervise, Receive, Admit
<1>7. ASSUME NEW i \in Instrument, Enqueue(i)
      PROVE  Kept(c)
  <2>1. queue \in Seq(Candle) /\ blocked[i] \in Candle
    BY <1>1, <1>7, AtStreams DEF TasksTypeOK, Enqueue
  <2>2. ToSet(queue') = ToSet(queue) \cup {blocked[i]}
    BY <1>7, <2>1, QueueEnds DEF Enqueue
  <2>3. QED
    BY <1>3, <1>7, <2>2 DEF Enqueue, InFlight
<1>8. CASE Take
  <2>1. /\ ToSet(queue) = ToSet(queue') \cup {Head(queue)}
        /\ \A d \in pending \cup {Head(queue)} : Served(d, pending')
        /\ batch' = batch
    BY <1>8, TakeMoves DEF Take
  <2>2. CASE c \in pending \cup {Head(queue)}
    BY <2>1, <2>2 DEF Kept, Served, InFlight
  <2>3. CASE c \in ToSet(queue') \cup batch
    BY <1>3, <2>1, <2>3 DEF InFlight
  <2>4. QED
    BY <2>1, <2>2, <2>3 DEF InFlight
<1>9. CASE FlushDue \/ Stop \/ Tick \/ UNCHANGED vars
  BY <1>4, <1>9 DEF FlushDue, Stop, Tick, vars, candleVars
<1>10. CASE FlushEnter
  <2>1. batch = {} /\ batch' = Eligible /\ queue' = queue
    BY <1>1, <1>10 DEF FlushEnter, TasksHeld
  <2>2. CASE c \in pending \ Eligible
    BY <2>2 DEF Kept
  <2>3. CASE c \notin pending \ Eligible
    BY <1>3, <2>1, <2>3 DEF InFlight
  <2>4. QED
    BY <2>2, <2>3
<1>11. CASE Store
  <2>1. UNCHANGED <<queue, pending>> /\ Known /\ stored' = Upserted(batch)
    BY <1>11 DEF Store
  <2>2. CASE c \in batch
    <3>1. \A d, e \in batch : SameKey(d, e) => d = e
      BY <1>1 DEF TasksHeld
    <3>2. Served(c, stored')
      BY <1>1, <2>1, <2>2, <3>1, UpsertedIsSound
    <3>3. QED
      BY <3>2 DEF Kept
  <2>3. CASE c \notin batch
    BY <1>3, <2>1, <2>3 DEF InFlight
  <2>4. QED
    BY <2>2, <2>3
<1>12. CASE Stopped
  <2>1. InFlight = {}
    BY <1>1, <1>12 DEF Stopped, Drained, TasksHeld, InFlight, ToSet
  <2>2. QED
    BY <2>1
<1>13. ~(StoreFails \/ Restart \/ Die)
  BY DEF StoreFails, Restart, Die, Forget
<1>14. QED
  BY <1>5, <1>6, <1>7, <1>8, <1>9, <1>10, <1>11, <1>12, <1>13 DEF Next

\* A row is only replaced by one observed later, and a candle in the queue, in the making of a
\* batch or in a transaction moves on, yields to a later version of itself, is stored or is
\* refused because the catalog changed: in every step of a process that does not end with an
\* error, the steps of a stop included, for queues and batches of any size.
THEOREM NothingGetsLost == Spec => NothingIsLost
<1>1. StoreInv /\ [Next]_vars =>
        [\A s \in stored : \E t \in stored' :
           SameKey(s, t) /\ t.version = s.version /\ t.seen >= s.seen]_vars
  BY NextOnlyImproves
<1>2. StoreInv /\ [Next]_vars =>
        [service' # "starting" =>
           \A c \in InFlight :
             \/ Served(c, InFlight')
             \/ Served(c, stored')
             \/ c \in pending \ Eligible]_vars
  BY NextKeepsCandles DEF Kept
<1>3. Spec => StoredOnlyImproves
  BY <1>1, StoreInitHolds, StoreNextKeeps, PTL DEF Spec, StoredOnlyImproves
<1>4. Spec => NoSilentLoss
  BY <1>2, StoreInitHolds, StoreNextKeeps, PTL DEF Spec, NoSilentLoss
<1>5. QED
  BY <1>3, <1>4 DEF NothingIsLost

----------------------------------------------------------------------------
(* What the store is asked for *)

\* How long a refresh has gone on, and when it fetched.
RefreshIsTimely ==
  /\ refresh.step # "idle" => clock <= refresh.begun + MaxLag
  /\ refresh.step # "idle" /\ service = "up" => refresh.begun % 2 = 0
  /\ Fetched /\ service = "up" => refresh.at > refresh.begun

\* No candle whose minute began at t or after it can be on its way.
NoneSince(t) == \A b \in Bucket : t <= b => b + 2 > clock

\* What the refresh has committed of its listing is current.  Memory says what is current of the
\* other instruments, and of those that were committed what was, unless they changed.
MemoryIsCurrent ==
  /\ \A i \in Instrument :
       VenueOf[i] \in refresh.done /\ refresh.seen[i] # None =>
         \E r \in Current(i) : r.terms = refresh.seen[i]
  /\ ~failed =>
       \A i \in Instrument :
         /\ VenueOf[i] \notin refresh.done =>
              /\ catalogs[i] # None => \E r \in Current(i) : r.terms = catalogs[i]
              /\ starts[i] # None => \E r \in Current(i) : r.from = starts[i]
         /\ VenueOf[i] \in refresh.done /\ catalogs[i] # None =>
              \A r \in Current(i) : r.terms = catalogs[i] \/ r.from = refresh.at

\* A stream that runs on another definition than the current one hands over no candle of it.
StreamsAreCurrent ==
  ~failed =>
    \A i \in Instrument : streams[i] # None =>
      \A r \in Current(i) : r.terms = streams[i] \/ NoneSince(r.from)

\* A candle on its way began before the refresh in progress fetched, and says what the version
\* says under which it can be stored.
CandlesAreCurrent ==
  \A c \in InTransit :
    /\ Fetched => c.bucket < refresh.at
    /\ ~failed => \A r \in Current(c.instrument) : r.from <= c.bucket => r.terms = c.terms

LagInv ==
  /\ StoreInv
  /\ RefreshIsTimely /\ MemoryIsCurrent /\ StreamsAreCurrent /\ CandlesAreCurrent
  /\ UnknownOnlyAfterFailure

\* A refresh that goes on has not fetched so long ago that a candle of a minute that began
\* since could be on its way, if it takes less than two minutes.
LEMMA FetchedLately ==
  ASSUME MaxLag <= 3, IInv, RefreshIsTimely, Fetched, service = "up", NEW now \in Nat,
         now <= refresh.begun + MaxLag
  PROVE  \A b \in Bucket : refresh.at <= b => b + 2 > now
<1>1. refresh.at \in Nat /\ refresh.begun \in Nat /\ MaxLag \in Nat
  BY CatalogAssumption DEF IInv, Typed, Refresh
<1>2. refresh.at > refresh.begun /\ refresh.begun % 2 = 0
  BY DEF RefreshIsTimely, Fetched
<1> SUFFICES ASSUME NEW b \in Bucket, refresh.at <= b PROVE b + 2 > now
  OBVIOUS
<1>3. b \in Nat /\ b % 2 = 0
  BY CandleAssumption
<1>4. b > refresh.begun
  BY <1>1, <1>2, <1>3
<1>5. b >= refresh.begun + 2
  BY <1>1, <1>2, <1>3, <1>4
<1>6. QED
  BY <1>1, <1>3, <1>5

\* What is current says what memory says, or has begun after every candle on its way.
LEMMA FollowsMemory ==
  ASSUME MaxLag <= 3, LagInv, ~failed, service = "up", NEW i \in Instrument,
         catalogs[i] # None, NEW r \in Current(i), NEW now \in Nat,
         refresh.step # "idle" => now <= refresh.begun + MaxLag
  PROVE  r.terms = catalogs[i] \/ \A b \in Bucket : r.from <= b => b + 2 > now
<1>1. IInv /\ RefreshIsTimely /\ MemoryIsCurrent /\ TasksHeld
  BY DEF LagInv, StoreInv
<1>2. CASE VenueOf[i] \notin refresh.done
  <2>1. PICK s \in Current(i) : s.terms = catalogs[i]
    BY <1>1, <1>2 DEF MemoryIsCurrent
  <2>2. r = s
    BY <1>1, CurrentIsSingle
  <2>3. QED
    BY <2>1, <2>2
<1>3. CASE VenueOf[i] \in refresh.done
  <2>1. r.terms = catalogs[i] \/ r.from = refresh.at
    BY <1>1, <1>3 DEF MemoryIsCurrent
  <2>2. Fetched /\ refresh.step # "idle"
    BY <1>1, <1>3 DEF TasksHeld, RefreshHeld, Fetched, IInv, Typed, Refresh
  <2>3. \A b \in Bucket : refresh.at <= b => b + 2 > now
    BY <1>1, <2>2, FetchedLately
  <2>4. QED
    BY <2>1, <2>3
<1>4. QED
  BY <1>2, <1>3

\* A step that leaves the versions, memory and the refresh alone, and the streams or ends them.
LEMMA LagAsideKeeps ==
  ASSUME LagInv, StoreInv', InTransit' \subseteq InTransit,
         UNCHANGED <<clock, versions, refresh, catalogs, starts, failed>>,
         streams' = streams \/ streams' = Nothing,
         service' = service \/ service' # "up",
         UnknownOnlyAfterFailure'
  PROVE  LagInv'
<1>1. RefreshIsTimely /\ MemoryIsCurrent /\ StreamsAreCurrent /\ CandlesAreCurrent
  BY DEF LagInv
<1>2. RefreshIsTimely'
  BY <1>1 DEF RefreshIsTimely, Fetched
<1>3. MemoryIsCurrent'
  BY <1>1 DEF MemoryIsCurrent, Current
<1>4. StreamsAreCurrent'
  BY <1>1 DEF StreamsAreCurrent, Current, NoneSince, Nothing
<1>5. CandlesAreCurrent'
  BY <1>1 DEF CandlesAreCurrent, Current, Fetched
<1>6. QED
  BY <1>2, <1>3, <1>4, <1>5 DEF LagInv

\* A step that leaves the transaction and the versions alone.
LEMMA UnknownAside ==
  ASSUME UnknownOnlyAfterFailure, UNCHANGED <<versions, batch, writer>>, failed => failed'
  PROVE  UnknownOnlyAfterFailure'
  BY DEF UnknownOnlyAfterFailure, Known, Covering

\* What passes the filter under the lock has a version, unless a refresh failed.
LEMMA EligibleIsKnown ==
  ASSUME LagInv, ~failed, lock = None, NEW c \in Eligible
  PROVE  Covering(c) # {}
<1>1. CatalogTypeOK /\ TasksTypeOK /\ TasksHeld /\ MemoryIsCurrent /\ CandlesAreCurrent
  BY DEF LagInv, StoreInv
<1>2. c \in pending /\ c \in Candle /\ starts[c.instrument] # None
      /\ starts[c.instrument] <= c.bucket
  BY <1>1 DEF Eligible, Covered, TasksTypeOK
<1>3. c.instrument \in Instrument /\ c \in InTransit
  BY <1>2 DEF Candle, InTransit, InFlight
<1>4. refresh.done = {}
  BY <1>1, CatalogAssumption DEF TasksHeld, RefreshHeld, CatalogTypeOK, Refresh
<1>5. PICK r \in Current(c.instrument) : r.from = starts[c.instrument]
  BY <1>1, <1>2, <1>3, <1>4 DEF MemoryIsCurrent
<1>6. r.terms = c.terms
  BY <1>1, <1>2, <1>3, <1>5 DEF CandlesAreCurrent
<1>7. r \in Covering(c)
  BY <1>2, <1>5, <1>6 DEF Covering, Current
<1>8. QED
  BY <1>7

LEMMA LagStreamKeeps ==
  ASSUME MaxLag <= 3, LagInv, StoreInv', NEW i \in Instrument,
         Supervise(i) \/ Receive(i) \/ Admit(i) \/ Enqueue(i)
  PROVE  LagInv'
<1>1. /\ IInv /\ CatalogTypeOK /\ TasksTypeOK /\ TasksHeld /\ CandlesAreOver
      /\ UnknownOnlyAfterFailure
      /\ RefreshIsTimely /\ MemoryIsCurrent /\ StreamsAreCurrent /\ CandlesAreCurrent
  BY DEF LagInv, StoreInv
<1>2. clock \in Nat
  BY <1>1 DEF CatalogTypeOK
<1>3. \A j \in Instrument : streams[j] # None => service = "up"
  BY <1>1 DEF TasksHeld, Nothing
<1> USE DEF catalogVars, historyVars
<1>4. CASE Supervise(i)
  <2>1. UNCHANGED <<clock, versions, refresh, catalogs, starts, failed, batch, writer, service>>
    BY <1>4 DEF Supervise
  <2>2. UnknownOnlyAfterFailure'
    BY <1>1, <2>1, UnknownAside
  <2>3. RefreshIsTimely' /\ MemoryIsCurrent'
    BY <1>1, <2>1 DEF RefreshIsTimely, Fetched, MemoryIsCurrent, Current
  <2>4. CandlesAreCurrent'
    <3>1. InTransit' \subseteq InTransit
      BY <1>1, <1>4, AtStreams, StreamsCarry DEF Supervise, TasksTypeOK
    <3>2. QED
      BY <1>1, <2>1, <3>1 DEF CandlesAreCurrent, Current, Fetched
  <2>5. ASSUME ~failed, NEW j \in Instrument, streams'[j] # None, NEW r \in Current(j)
        PROVE  r.terms = streams'[j] \/ NoneSince(r.from)
    <3>1. CASE j # i
      BY <1>1, <1>4, <2>5, <3>1 DEF Supervise, TasksTypeOK, Listing, StreamsAreCurrent
    <3>2. CASE j = i
      <4>1. streams'[j] = catalogs[j] /\ catalogs[j] # None /\ service = "up"
        BY <1>1, <1>4, <2>5, <3>2 DEF Supervise, Wanted, TasksTypeOK, Listing
      <4>2. refresh.step # "idle" => clock <= refresh.begun + MaxLag
        BY <1>1 DEF RefreshIsTimely
      <4>3. r.terms = catalogs[j] \/ \A b \in Bucket : r.from <= b => b + 2 > clock
        BY <1>2, <2>5, <4>1, <4>2, FollowsMemory
      <4>4. QED
        BY <4>1, <4>3 DEF NoneSince
    <3>3. QED
      BY <3>1, <3>2
  <2>6. StreamsAreCurrent'
    BY <2>1, <2>5 DEF StreamsAreCurrent, Current, NoneSince
  <2>7. QED
    BY <2>2, <2>3, <2>4, <2>6 DEF LagInv
<1>5. CASE Receive(i)
  <2>1. UNCHANGED <<clock, versions, refresh, catalogs, starts, failed, batch, writer, service,
                    streams>>
    BY <1>5 DEF Receive
  <2>2. UnknownOnlyAfterFailure' /\ RefreshIsTimely' /\ MemoryIsCurrent' /\ StreamsAreCurrent'
    BY <1>1, <2>1, UnknownAside
       DEF RefreshIsTimely, Fetched, MemoryIsCurrent, Current, StreamsAreCurrent, NoneSince
  <2>3. PICK b \in Bucket : \E t \in (b + 2)..clock :
          received' = [received EXCEPT ![i] =
            [instrument |-> i, bucket |-> b, terms |-> streams[i], seen |-> t]]
    BY <1>5 DEF Receive
  <2>4. PICK t \in (b + 2)..clock :
          received' = [received EXCEPT ![i] =
            [instrument |-> i, bucket |-> b, terms |-> streams[i], seen |-> t]]
    BY <2>3
  <2>5. b \in Nat /\ b + 2 <= clock
    BY <1>2, <2>4, CandleAssumption
  <2>6. streams[i] # None /\ service = "up"
    BY <1>3, <1>5 DEF Receive
  <2>7. Fetched => b < refresh.at
    <3>1. refresh.at \in Nat /\ (Fetched => clock <= refresh.begun + MaxLag)
      BY <1>1 DEF IInv, Typed, Refresh, RefreshIsTimely, Fetched
    <3>2. Fetched => \A a \in Bucket : refresh.at <= a => a + 2 > clock
      BY <1>1, <1>2, <2>6, <3>1, FetchedLately
    <3>3. QED
      BY <1>2, <2>5, <3>1, <3>2
  <2>8. ~failed => \A r \in Current(i) : r.from <= b => r.terms = streams[i]
    <3>1. ASSUME ~failed, NEW r \in Current(i), r.from <= b PROVE r.terms = streams[i]
      <4>1. r.terms = streams[i] \/ NoneSince(r.from)
        BY <1>1, <2>6, <3>1 DEF StreamsAreCurrent
      <4>2. ~NoneSince(r.from)
        BY <1>2, <2>5, <3>1 DEF NoneSince
      <4>3. QED
        BY <4>1, <4>2
    <3>2. QED
      BY <3>1
  <2>9. \A c \in InTransit' :
          \/ c \in InTransit
          \/ c.instrument = i /\ c.bucket = b /\ c.terms = streams[i]
    BY <1>1, <1>5, <2>4 DEF Receive, InTransit, InFlight, TasksTypeOK
  <2>10. CandlesAreCurrent'
    BY <1>1, <2>1, <2>7, <2>8, <2>9 DEF CandlesAreCurrent, Current, Fetched
  <2>11. QED
    BY <2>2, <2>10 DEF LagInv
<1>6. CASE Admit(i)
  <2>1. InTransit' \subseteq InTransit
    BY <1>1, <1>6, AtStreams, StreamsCarry DEF Admit, TasksTypeOK
  <2>2. QED
    BY <1>1, <1>6, <2>1, UnknownAside, LagAsideKeeps DEF Admit
<1>7. CASE Enqueue(i)
  <2>1. blocked[i] \in Candle /\ blocked[i] \in InTransit
    BY <1>1, <1>7, AtStreams DEF Enqueue
  <2>2. ToSet(queue') = ToSet(queue) \cup {blocked[i]}
    BY <1>1, <1>7, <2>1, QueueEnds DEF Enqueue, TasksTypeOK
  <2>3. InTransit' \subseteq InTransit
    BY <1>1, <1>7, <2>1, <2>2 DEF Enqueue, InTransit, InFlight, TasksTypeOK
  <2>4. QED
    BY <1>1, <1>7, <2>3, UnknownAside, LagAsideKeeps DEF Enqueue
<1>8. QED
  BY <1>4, <1>5, <1>6, <1>7

LEMMA LagTaskKeeps ==
  ASSUME MaxLag <= 3, LagInv, StoreInv',
         \/ Take \/ FlushDue \/ FlushEnter \/ Store \/ Stop \/ Stopped \/ Tick
         \/ UNCHANGED vars
  PROVE  LagInv'
<1>1. /\ IInv /\ CatalogTypeOK /\ TasksTypeOK /\ TasksHeld
      /\ UnknownOnlyAfterFailure
      /\ RefreshIsTimely /\ MemoryIsCurrent /\ StreamsAreCurrent /\ CandlesAreCurrent
  BY DEF LagInv, StoreInv
<1>2. clock \in Nat
  BY <1>1 DEF CatalogTypeOK
<1>3. \A j \in Instrument : streams[j] # None => service = "up"
  BY <1>1 DEF TasksHeld, Nothing
<1> USE DEF catalogVars, historyVars
<1>4. CASE Take
  <2>1. InTransit' \subseteq InTransit
    <3>1. /\ ToSet(queue) = ToSet(queue') \cup {Head(queue)}
          /\ pending' \subseteq pending \cup {Head(queue)}
      BY <1>4, TakeMoves DEF LagInv
    <3>2. QED
      BY <1>4, <3>1 DEF Take, InTransit, InFlight
  <2>2. UnknownOnlyAfterFailure'
    BY <1>4, CandleAssumption DEF UnknownOnlyAfterFailure, Take
  <2>3. QED
    BY <1>4, <2>1, <2>2, LagAsideKeeps DEF Take
<1>5. CASE FlushDue
  <2>1. InTransit' \subseteq InTransit
    BY <1>5 DEF FlushDue, InTransit, InFlight
  <2>2. UnknownOnlyAfterFailure'
    BY <1>5 DEF UnknownOnlyAfterFailure, FlushDue
  <2>3. QED
    BY <1>5, <2>1, <2>2, LagAsideKeeps DEF FlushDue
<1>6. CASE FlushEnter
  <2>1. /\ lock = None /\ batch' = Eligible /\ pending' = {}
        /\ UNCHANGED <<clock, versions, catalogs, starts, refresh, service, streams,
                       received, blocked, queue, failed>>
    BY <1>6 DEF FlushEnter
  <2>2. InTransit' \subseteq InTransit
    BY <2>1 DEF Eligible, InTransit, InFlight
  <2>3. ~failed => \A c \in Eligible : Covering(c) # {}
    BY <2>1, EligibleIsKnown
  <2>4. UnknownOnlyAfterFailure'
    BY <2>1, <2>3 DEF UnknownOnlyAfterFailure, Known, Covering
  <2>5. QED
    BY <2>1, <2>2, <2>4, LagAsideKeeps
<1>7. CASE Store
  <2>1. InTransit' \subseteq InTransit
    BY <1>7 DEF Store, InTransit, InFlight
  <2>2. UnknownOnlyAfterFailure'
    BY <1>7 DEF UnknownOnlyAfterFailure, Store
  <2>3. QED
    BY <1>7, <2>1, <2>2, LagAsideKeeps DEF Store
<1>8. CASE Stop \/ Stopped
  <2>1. InTransit' \subseteq InTransit
    BY <1>8 DEF Stop, Stopped, ForgetTasks, InTransit, InFlight, Nothing, ToSet
  <2>2. UnknownOnlyAfterFailure'
    <3>1. CASE Stop
      BY <1>1, <3>1, UnknownAside DEF Stop
    <3>2. CASE Stopped
      BY <3>2 DEF Stopped, ForgetTasks, UnknownOnlyAfterFailure
    <3>3. QED
      BY <1>8, <3>1, <3>2
  <2>3. QED
    BY <1>8, <2>1, <2>2, LagAsideKeeps DEF Stop, Stopped, ForgetTasks
<1>9. CASE Tick
  <2>1. /\ clock' = clock + 1
        /\ UNCHANGED <<versions, refresh, catalogs, starts, failed, batch, writer, service,
                       streams, received, blocked, queue, pending>>
        /\ refresh.step = "idle" \/ clock < refresh.begun + MaxLag
        /\ service = "up" => \A j \in Instrument : streams[j] = Wanted(j)
    BY <1>9 DEF Tick, candleVars
  <2>2. UnknownOnlyAfterFailure' /\ MemoryIsCurrent' /\ CandlesAreCurrent'
    BY <1>1, <2>1, UnknownAside
       DEF MemoryIsCurrent, Current, CandlesAreCurrent, Fetched, InTransit, InFlight
  <2>3. refresh.step # "idle" => clock + 1 <= refresh.begun + MaxLag
    BY <1>1, <1>2, <2>1, CatalogAssumption DEF IInv, Typed, Refresh
  <2>4. RefreshIsTimely'
    BY <1>1, <2>1, <2>3 DEF RefreshIsTimely, Fetched
  <2>5. ASSUME ~failed, NEW j \in Instrument, streams[j] # None, NEW r \in Current(j)
        PROVE  r.terms = streams[j] \/ \A b \in Bucket : r.from <= b => b + 2 > clock + 1
    <3>1. streams[j] = catalogs[j] /\ catalogs[j] # None /\ service = "up"
      BY <1>3, <2>1, <2>5 DEF Wanted
    <3>2. clock + 1 \in Nat
      BY <1>2
    <3>3. QED
      BY <2>3, <2>5, <3>1, <3>2, FollowsMemory
  <2>6. StreamsAreCurrent'
    BY <2>1, <2>5 DEF StreamsAreCurrent, Current, NoneSince
  <2>7. QED
    BY <2>2, <2>4, <2>6 DEF LagInv
<1>10. CASE UNCHANGED vars
  <2>1. InTransit' \subseteq InTransit
    BY <1>10 DEF vars, candleVars, InTransit, InFlight
  <2>2. QED
    BY <1>1, <1>10, <2>1, UnknownAside, LagAsideKeeps DEF vars, candleVars
<1>11. QED
  BY <1>4, <1>5, <1>6, <1>7, <1>8, <1>9, <1>10

LEMMA NotedAside ==
  ASSUME StoreInv, Noted(FALSE)
  PROVE  failed' = failed
<1>1. failed \in BOOLEAN
  BY DEF StoreInv, TasksTypeOK
<1>2. failed' = (failed \/ FALSE)
  BY DEF Noted
<1>3. QED
  BY <1>1, <1>2

\* A step of the refresh by which the process knows what it knew.
LEMMA LagRefreshMoves ==
  ASSUME LagInv, StoreInv', Begin \/ Fetch \/ Enter \/ RecordRun \/ \E v \in Venue : RejectVenue(v),
         Noted(FALSE)
  PROVE  LagInv'
<1>1. /\ IInv /\ CatalogTypeOK /\ TasksHeld /\ CandlesAreOver /\ UnknownOnlyAfterFailure
      /\ RefreshIsTimely /\ MemoryIsCurrent /\ StreamsAreCurrent /\ CandlesAreCurrent
  BY DEF LagInv, StoreInv
<1>2. /\ UNCHANGED <<clock, versions, catalogs, starts, service, streams, received, blocked, queue,
                     pending, batch, writer, failed>>
  BY NotedAside DEF LagInv, Noted, candleVars, Begin, Fetch, Enter, RecordRun, RejectVenue
<1>3. clock \in Nat /\ MaxLag \in Nat /\ refresh \in Refresh
  BY <1>1, CatalogAssumption DEF IInv, Typed
<1>4. \/ refresh'.step = "fetch" /\ refresh'.done = {} /\ refresh.done = {}
         /\ refresh'.begun = clock /\ (service = "up" => clock % 2 = 0)
      \/ refresh.step = "fetch" /\ refresh'.step = "waiting" /\ refresh'.done = {}
         /\ refresh.done = {} /\ refresh'.begun = refresh.begun
         /\ refresh'.at = clock /\ (service = "up" => clock > refresh.begun)
      \/ Fetched /\ Fetched' /\ refresh'.done = refresh.done /\ refresh'.seen = refresh.seen
         /\ refresh'.begun = refresh.begun /\ refresh'.at = refresh.at
  <2>1. CASE Begin
    BY <1>1, <2>1 DEF Begin, TasksHeld, RefreshHeld
  <2>2. CASE Fetch
    BY <1>1, <2>2 DEF Fetch, TasksHeld, RefreshHeld
  <2>3. CASE Enter
    BY <1>3, <2>3 DEF Enter, Fetched, Refresh
  <2>4. CASE RecordRun
    BY <1>3, <2>4 DEF RecordRun, Fetched, Refresh
  <2>5. ASSUME NEW v \in Venue, RejectVenue(v)
        PROVE  Fetched /\ Fetched' /\ refresh'.done = refresh.done /\ refresh'.seen = refresh.seen
               /\ refresh'.begun = refresh.begun /\ refresh'.at = refresh.at
    BY <1>3, <2>5 DEF RejectVenue, Fetched, Refresh
  <2>6. QED
    BY <2>1, <2>2, <2>3, <2>4, <2>5
<1>5. RefreshIsTimely'
  BY <1>1, <1>2, <1>3, <1>4 DEF RefreshIsTimely, Fetched
<1>6. MemoryIsCurrent'
  BY <1>1, <1>2, <1>4 DEF MemoryIsCurrent, Current
<1>7. StreamsAreCurrent' /\ UnknownOnlyAfterFailure'
  BY <1>1, <1>2, UnknownAside DEF StreamsAreCurrent, Current, NoneSince
<1>8. CandlesAreCurrent'
  <2>1. InTransit' = InTransit
    BY <1>2 DEF InTransit, InFlight
  <2>2. InTransit \subseteq Candle
    BY DEF LagInv, StoreInv, TasksTypeOK, InTransit, InFlight, ToSet
  <2>3. \A c \in InTransit : c.bucket \in Nat /\ c.bucket + 2 <= clock
    BY <1>1, <2>2, CandleAssumption DEF CandlesAreOver, Candle
  <2>4. Fetched' => \A c \in InTransit : c.bucket < refresh'.at
    BY <1>1, <1>3, <1>4, <2>3 DEF CandlesAreCurrent, Fetched
  <2>5. QED
    BY <1>1, <1>2, <2>1, <2>4 DEF CandlesAreCurrent, Current
<1>9. QED
  BY <1>5, <1>6, <1>7, <1>8 DEF LagInv

\* A refresh that ends without publishing what it may have committed.
LEMMA LagFails ==
  ASSUME LagInv, StoreInv', ConnectionLost \/ LoadFails, Noted(TRUE)
  PROVE  LagInv'
<1>1. failed' = TRUE /\ refresh' = Idle
  BY DEF Noted, ConnectionLost, LoadFails
<1>2. RefreshIsTimely' /\ MemoryIsCurrent'
  BY <1>1 DEF RefreshIsTimely, MemoryIsCurrent, Idle, Fetched
<1>3. StreamsAreCurrent' /\ CandlesAreCurrent' /\ UnknownOnlyAfterFailure'
  BY <1>1 DEF StreamsAreCurrent, CandlesAreCurrent, UnknownOnlyAfterFailure, Idle, Fetched
<1>4. QED
  BY <1>2, <1>3 DEF LagInv

LEMMA LagPublishKeeps ==
  ASSUME LagInv, StoreInv', Publish, Noted(FALSE)
  PROVE  LagInv'
<1>1. /\ IInv /\ CatalogTypeOK /\ UnknownOnlyAfterFailure
      /\ RefreshIsTimely /\ MemoryIsCurrent /\ StreamsAreCurrent /\ CandlesAreCurrent
  BY DEF LagInv, StoreInv
<1>2. /\ UNCHANGED <<clock, versions, streams, received, blocked, queue, pending, batch, writer,
                     failed>>
      /\ refresh' = Idle /\ starts' = CurrentStarts /\ catalogs' = Published
  BY NotedAside DEF LagInv, Noted, candleVars, Publish
<1>3. RefreshIsTimely'
  BY <1>2 DEF RefreshIsTimely, Idle, Fetched
<1>4. ASSUME ~failed, NEW i \in Instrument
      PROVE  /\ catalogs'[i] # None => \E r \in Current(i) : r.terms = catalogs'[i]
             /\ starts'[i] # None => \E r \in Current(i) : r.from = starts'[i]
  <2>1. catalogs'[i] = IF VenueOf[i] \in refresh.done THEN refresh.seen[i] ELSE catalogs[i]
    BY <1>2 DEF Published
  <2>2. starts'[i] = IF Current(i) = {} THEN None ELSE (CHOOSE r \in Current(i) : TRUE).from
    BY <1>2 DEF CurrentStarts
  <2>3. Current(i) # {} => (CHOOSE r \in Current(i) : TRUE) \in Current(i)
    OBVIOUS
  <2>4. catalogs'[i] # None => \E r \in Current(i) : r.terms = catalogs'[i]
    BY <1>1, <1>4, <2>1 DEF MemoryIsCurrent
  <2>5. QED
    BY <2>2, <2>3, <2>4
<1>5. MemoryIsCurrent'
  BY <1>2, <1>4 DEF MemoryIsCurrent, Current, Idle
<1>6. StreamsAreCurrent' /\ UnknownOnlyAfterFailure'
  BY <1>1, <1>2, UnknownAside DEF StreamsAreCurrent, Current, NoneSince
<1>7. CandlesAreCurrent'
  BY <1>1, <1>2 DEF CandlesAreCurrent, Current, InTransit, InFlight, Idle, Fetched
<1>8. QED
  BY <1>3, <1>5, <1>6, <1>7 DEF LagInv

LEMMA LagPersistKeeps ==
  ASSUME MaxLag <= 3, LagInv, StoreInv', NEW v \in Venue, PersistVenue(v), Noted(FALSE)
  PROVE  LagInv'
<1>1. /\ IInv /\ Typed /\ CatalogTypeOK /\ TasksTypeOK /\ TasksHeld
      /\ RefreshIsTimely /\ MemoryIsCurrent /\ StreamsAreCurrent /\ CandlesAreCurrent
  BY DEF LagInv, StoreInv, IInv
<1>2. /\ UNCHANGED <<clock, catalogs, starts, lock, service, streams, received, blocked, queue,
                     pending, batch, writer, failed>>
      /\ versions' = Persisted(v)
      /\ refresh.step = "persist"
  BY NotedAside DEF LagInv, Noted, candleVars, PersistVenue
<1>3. /\ refresh'.step = "persist" /\ refresh'.done = refresh.done \cup {v}
      /\ refresh'.seen = refresh.seen /\ refresh'.begun = refresh.begun /\ refresh'.at = refresh.at
  BY <1>1 DEF PersistVenue, Typed, Refresh
<1>4. Fetched /\ Fetched'
  BY <1>2, <1>3 DEF Fetched
<1>5. RefreshIsTimely'
  BY <1>1, <1>2, <1>3, <1>4 DEF RefreshIsTimely
<1>6. \A i \in Instrument :
        /\ i \notin Changed(v) => Current(i)' = Current(i)
        /\ i \in Changed(v) =>
             Current(i)' = IF refresh.seen[i] = None THEN {}
               ELSE {[instrument |-> i, terms |-> refresh.seen[i], from |-> refresh.at, to |-> None]}
        /\ i \in Changed(v) => VenueOf[i] = v
  BY <1>1, <1>2, CommitCurrent DEF Changed
<1>7. \A i \in Instrument : \A r \in Current(i)' :
        \/ i \notin Changed(v) /\ r \in Current(i)
        \/ i \in Changed(v) /\ r.from = refresh.at
  BY <1>6
<1>8. MemoryIsCurrent'
  <2>1. ASSUME NEW i \in Instrument, VenueOf[i] \in refresh.done \cup {v}, refresh.seen[i] # None
        PROVE  \E r \in Current(i)' : r.terms = refresh.seen[i]
    <3>1. CASE i \in Changed(v)
      <4> DEFINE new ==
            [instrument |-> i, terms |-> refresh.seen[i], from |-> refresh.at, to |-> None]
      <4>1. new \in Current(i)'
        BY <1>6, <2>1, <3>1
      <4>2. new.terms = refresh.seen[i]
        OBVIOUS
      <4>3. QED
        BY <4>1, <4>2
    <3>2. CASE i \notin Changed(v) /\ VenueOf[i] = v
      <4>1. {r.terms : r \in Current(i)} = {refresh.seen[i]}
        BY <2>1, <3>2 DEF Changed
      <4>2. PICK r \in Current(i) : r.terms = refresh.seen[i]
        BY <4>1
      <4>3. QED
        BY <1>6, <3>2, <4>2
    <3>3. CASE i \notin Changed(v) /\ VenueOf[i] \in refresh.done
      BY <1>1, <1>6, <2>1, <3>3 DEF MemoryIsCurrent
    <3>4. QED
      BY <2>1, <3>1, <3>2, <3>3
  <2>2. ASSUME ~failed, NEW i \in Instrument, VenueOf[i] \notin refresh.done \cup {v}
        PROVE  /\ catalogs[i] # None => \E r \in Current(i)' : r.terms = catalogs[i]
               /\ starts[i] # None => \E r \in Current(i)' : r.from = starts[i]
    <3>1. Current(i)' = Current(i)
      BY <1>6, <2>2
    <3>2. QED
      BY <1>1, <2>2, <3>1 DEF MemoryIsCurrent
  <2>3. ASSUME ~failed, NEW i \in Instrument, VenueOf[i] \in refresh.done \cup {v},
               catalogs[i] # None, NEW r \in Current(i)'
        PROVE  r.terms = catalogs[i] \/ r.from = refresh.at
    <3>1. CASE i \in Changed(v)
      BY <1>7, <3>1
    <3>2. CASE i \notin Changed(v) /\ VenueOf[i] \in refresh.done
      BY <1>1, <1>7, <2>3, <3>2 DEF MemoryIsCurrent
    <3>3. CASE i \notin Changed(v) /\ VenueOf[i] \notin refresh.done
      <4>1. r \in Current(i)
        BY <1>7, <3>3
      <4>2. PICK s \in Current(i) : s.terms = catalogs[i]
        BY <1>1, <2>3, <3>3 DEF MemoryIsCurrent
      <4>3. r = s
        BY <1>1, <4>1, CurrentIsSingle
      <4>4. QED
        BY <4>2, <4>3
    <3>4. QED
      BY <3>1, <3>2, <3>3
  <2>4. QED
    BY <1>2, <1>3, <2>1, <2>2, <2>3 DEF MemoryIsCurrent
<1>9. StreamsAreCurrent'
  <2>1. SUFFICES ASSUME ~failed, NEW i \in Instrument, streams[i] # None, NEW r \in Current(i)'
                 PROVE  r.terms = streams[i] \/ NoneSince(r.from)
    BY <1>2 DEF StreamsAreCurrent, NoneSince
  <2>2. CASE r \in Current(i)
    BY <1>1, <2>1, <2>2 DEF StreamsAreCurrent
  <2>3. CASE r.from = refresh.at
    <3>1. service = "up"
      BY <1>1, <2>1 DEF TasksHeld, Nothing
    <3>2. clock \in Nat /\ clock <= refresh.begun + MaxLag
      BY <1>1, <1>2 DEF CatalogTypeOK, RefreshIsTimely
    <3>3. \A b \in Bucket : refresh.at <= b => b + 2 > clock
      BY <1>1, <1>4, <3>1, <3>2, FetchedLately
    <3>4. QED
      BY <2>3, <3>3 DEF NoneSince
  <2>4. QED
    BY <1>7, <2>2, <2>3
<1>10. CandlesAreCurrent'
  <2>1. InTransit' = InTransit
    BY <1>2 DEF InTransit, InFlight
  <2>2. InTransit \subseteq Candle /\ refresh.at \in Nat
    BY <1>1 DEF TasksTypeOK, InTransit, InFlight, ToSet, Typed, Refresh
  <2>3. ASSUME NEW c \in InTransit, ~failed, NEW r \in Current(c.instrument)',
               r.from <= c.bucket
        PROVE  r.terms = c.terms
    <3>1. c.instrument \in Instrument /\ c.bucket \in Nat
      BY <2>2, CandleAssumption DEF Candle
    <3>2. c.bucket < refresh.at
      BY <1>1, <1>4 DEF CandlesAreCurrent
    <3>3. r \in Current(c.instrument)
      BY <1>7, <2>2, <2>3, <3>1, <3>2
    <3>4. QED
      BY <1>1, <2>3, <3>3 DEF CandlesAreCurrent
  <2>4. QED
    BY <1>1, <1>2, <1>3, <1>4, <2>1, <2>3 DEF CandlesAreCurrent
<1>11. UnknownOnlyAfterFailure'
  <2>1. writer # "store"
    BY <1>1, <1>2 DEF TasksTypeOK, TasksHeld, RefreshHeld
  <2>2. QED
    BY <1>2, <2>1 DEF UnknownOnlyAfterFailure
<1>12. QED
  BY <1>5, <1>8, <1>9, <1>10, <1>11 DEF LagInv

LEMMA LagEndsKeeps ==
  ASSUME StoreInv', StoreFails \/ Restart \/ Die
  PROVE  LagInv'
<1>1. Forget /\ ForgetTasks
  BY DEF StoreFails, Restart, Die
<1>2. /\ refresh' = Idle /\ catalogs' = Nothing /\ starts' = Nothing
      /\ streams' = Nothing /\ received' = Nothing /\ blocked' = Nothing
      /\ queue' = <<>> /\ pending' = {} /\ batch' = {} /\ writer' = "collect"
  BY <1>1 DEF Forget, ForgetTasks
<1>3. InTransit' = {}
  BY <1>2 DEF InTransit, InFlight, Nothing, ToSet
<1>4. RefreshIsTimely' /\ CandlesAreCurrent' /\ UnknownOnlyAfterFailure'
  BY <1>2, <1>3 DEF RefreshIsTimely, CandlesAreCurrent, UnknownOnlyAfterFailure, Idle, Fetched
<1>5. MemoryIsCurrent' /\ StreamsAreCurrent'
  BY <1>2 DEF MemoryIsCurrent, StreamsAreCurrent, Idle, Nothing
<1>6. QED
  BY <1>4, <1>5 DEF LagInv

LEMMA LagInitHolds == Init => LagInv
<1> SUFFICES ASSUME Init PROVE LagInv
  OBVIOUS
<1>1. StoreInv
  BY StoreInitHolds
<1>2. /\ refresh = Idle /\ catalogs = Nothing /\ starts = Nothing
      /\ streams = Nothing /\ received = Nothing /\ blocked = Nothing
      /\ queue = <<>> /\ pending = {} /\ batch = {} /\ writer = "collect"
  BY DEF Init, CatalogInit, FreshTasks
<1>3. InTransit = {}
  BY <1>2 DEF InTransit, InFlight, Nothing, ToSet
<1>4. RefreshIsTimely /\ CandlesAreCurrent /\ UnknownOnlyAfterFailure
  BY <1>2, <1>3 DEF RefreshIsTimely, CandlesAreCurrent, UnknownOnlyAfterFailure, Idle, Fetched
<1>5. MemoryIsCurrent /\ StreamsAreCurrent
  BY <1>2 DEF MemoryIsCurrent, StreamsAreCurrent, Idle, Nothing
<1>6. QED
  BY <1>1, <1>4, <1>5 DEF LagInv

LEMMA LagNextKeeps ==
  ASSUME MaxLag <= 3
  PROVE  LagInv /\ [Next]_vars => LagInv'
<1> SUFFICES ASSUME LagInv, [Next]_vars PROVE LagInv'
  OBVIOUS
<1>1. StoreInv'
  BY StoreNextKeeps DEF LagInv
<1>2. CASE RefreshBegins \/ RefreshEnters
  BY <1>1, <1>2, LagRefreshMoves DEF RefreshBegins, RefreshEnters
<1>3. CASE RefreshGoesOn
  BY <1>1, <1>3, LagRefreshMoves, LagPersistKeeps, LagPublishKeeps, LagFails
     DEF RefreshGoesOn, RefreshWorks
<1>4. CASE RefreshBreaks
  BY <1>1, <1>4, LagFails DEF RefreshBreaks
<1>5. ASSUME NEW i \in Instrument, Supervise(i) \/ Receive(i) \/ Admit(i) \/ Enqueue(i)
      PROVE  LagInv'
  BY <1>1, <1>5, LagStreamKeeps
<1>6. CASE Take \/ FlushDue \/ FlushEnter \/ Store \/ Stop \/ Stopped \/ Tick \/ UNCHANGED vars
  BY <1>1, <1>6, LagTaskKeeps
<1>7. CASE StoreFails \/ Restart \/ Die
  BY <1>1, <1>7, LagEndsKeeps
<1>8. QED
  BY <1>2, <1>3, <1>4, <1>5, <1>6, <1>7 DEF Next

\* In every reachable state what is stored belongs to a version that covers it, and, unless a
\* refresh failed after a commit, so does all that the store is asked for: provided a refresh
\* takes less than two minutes, so that no candle is over that began after the refresh fetched.
THEOREM StorageStaysHeld ==
  ASSUME MaxLag <= 3
  PROVE  Spec => []StorageHolds
<1>1. LagInv => StorageHolds
  BY DEF LagInv, StoreInv, StorageHolds, TypeOK
<1>2. LagInv /\ [Next]_vars => LagInv'
  BY LagNextKeeps
<1>3. QED
  BY <1>1, <1>2, LagInitHolds, PTL DEF Spec
=============================================================================
