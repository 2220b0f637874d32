---------------------------- MODULE PriceChangeClient ---------------------------
(* market/price-change-client.ts: a page keeps the daily change of its targets     *)
(* fresh with few requests at a time.  An aborted request keeps its slot until it  *)
(* really settles; a request belongs to the entry, the reference time and the day  *)
(* it was made for.  Time is in refresh periods.                                   *)
EXTENDS Integers, FiniteSets

CONSTANTS
  ChangeTargets,          \* venue instrument ids
  TargetVersions,
  References,       \* reference times: offsets in a day
  ClientDay,              \* length of a day, in refresh periods
  MaxChangeAge,           \* PRICE_CHANGE_MAX_AGE_MS: 2 refresh periods
  RequestSlots,            \* MAX_CONCURRENT_REQUESTS of them
  MaxNow,           \* bound: the clock
  MaxClientGeneration,    \* bound: changes of the day or of the reference time
  Nothing

VARIABLES now, client

clientVars == <<now, client>>

(* dailyBaselineAt: the last time the reference time was reached *)
BaselineAt(reference) == ((now - reference) \div ClientDay) * ClientDay + reference

Change == [version : TargetVersions, baseline : Int, at : Int]
Shown == [status : {"idle", "queued", "loading", "ready", "error", "stale"},
          data : Change \cup {Nothing}]
TargetEntry == [version : TargetVersions, shown : Shown, next : Int,
                request : RequestSlots \cup {Nothing}]
CachedResult == [version : TargetVersions, shown : Shown, next : Int]
ActiveRequest == [target : ChangeTargets, version : TargetVersions, generation : Nat,
                  reference : Int, baseline : Int, cancelled : BOOLEAN]

ASSUME ClientAssumption == References \subseteq Int /\ ClientDay \in Nat \ {0}
ASSUME NothingIsNone ==
  /\ Nothing \notin RequestSlots /\ Nothing \notin Change
  /\ Nothing \notin TargetEntry /\ Nothing \notin CachedResult /\ Nothing \notin ActiveRequest

ShownAs(status) == [status |-> status, data |-> Nothing]

NoEntry == [version |-> Nothing, shown |-> ShownAs("idle"), next |-> 0, request |-> Nothing]

ClientInit ==
  /\ now = 0
  /\ \E reference \in References :
       client = [paused |-> FALSE, disposed |-> FALSE, reference |-> reference,
                 baseline |-> BaselineAt(reference), generation |-> 0,
                 entries |-> [t \in ChangeTargets |-> Nothing],
                 cached |-> [t \in ChangeTargets |-> Nothing],
                 slots |-> [s \in RequestSlots |-> Nothing]]

ListedTargets(c) == {t \in ChangeTargets : c.entries[t] # Nothing}

Occupied(c) == {s \in RequestSlots : c.slots[s] # Nothing}

(* cancel: the entry forgets its request, which goes on as a cancelled one *)
CancelledFor(c, targets) ==
  [c EXCEPT
    !.slots = [s \in RequestSlots |->
       IF \E t \in targets : c.entries[t] # Nothing /\ c.entries[t].request = s
       THEN [c.slots[s] EXCEPT !.cancelled = TRUE] ELSE c.slots[s]],
    !.entries = [t \in ChangeTargets |->
       IF t \in targets /\ c.entries[t] # Nothing
       THEN [c.entries[t] EXCEPT !.request = Nothing] ELSE c.entries[t]]]

EmptiedOf(c, targets) ==
  LET freed == CancelledFor(c, targets)
  IN  [freed EXCEPT !.entries = [t \in ChangeTargets |->
         IF t \in targets /\ freed.entries[t] # Nothing
         THEN [freed.entries[t] EXCEPT !.shown = ShownAs("idle"), !.next = 0]
         ELSE freed.entries[t]]]

ResetContext(c, baseline) ==
  [EmptiedOf(c, ChangeTargets) EXCEPT
     !.baseline = baseline, !.generation = c.generation + 1,
     !.cached = [t \in ChangeTargets |-> Nothing]]

SynchronizeContext(c) ==
  IF BaselineAt(c.reference) = c.baseline THEN c ELSE ResetContext(c, BaselineAt(c.reference))

TooOld(shown) == shown.data # Nothing /\ now - shown.data.at > MaxChangeAge

(* the first half of reconcile: what is too old is withdrawn, what is due is queued *)
DueEntry(c, t) ==
  LET entry == c.entries[t]
      next == IF TooOld(entry.shown) /\ entry.next > now THEN now ELSE entry.next
      shown == IF TooOld(entry.shown) THEN ShownAs("stale") ELSE entry.shown
  IN  [entry EXCEPT
         !.next = next,
         !.shown = IF c.paused \/ entry.request # Nothing \/ next > now
                      \/ shown.status = "queued"
                   THEN shown ELSE ShownAs("queued")]

QueuedEntries(c) ==
  [c EXCEPT
     !.entries = [t \in ChangeTargets |-> IF t \in ListedTargets(c) THEN DueEntry(c, t) ELSE Nothing],
     !.cached = [t \in ChangeTargets |->
        IF t \in ListedTargets(c) /\ TooOld(c.entries[t].shown) THEN Nothing ELSE c.cached[t]]]

Eligible(c) ==
  IF c.paused THEN {}
  ELSE {t \in ListedTargets(c) :
          c.entries[t].shown.status = "queued" /\ c.entries[t].request = Nothing}

(* the second half: queued targets take the free slots, the Map's order left open *)
LaunchedOn(c, f) ==
  [c EXCEPT
     !.entries = [t \in ChangeTargets |->
        IF t \in DOMAIN f
        THEN [c.entries[t] EXCEPT !.request = f[t], !.shown = ShownAs("loading")]
        ELSE c.entries[t]],
     !.slots = [s \in RequestSlots |->
        IF \E t \in DOMAIN f : f[t] = s
        THEN LET t == CHOOSE t \in DOMAIN f : f[t] = s IN
             [target |-> t, version |-> c.entries[t].version, generation |-> c.generation,
              reference |-> c.reference, baseline |-> c.baseline, cancelled |-> FALSE]
        ELSE c.slots[s]]]

(* one slot each, until there is no target or no slot left *)
Launches(waiting, free) ==
  {f \in UNION {[targets -> free] : targets \in SUBSET waiting} :
     /\ \A t, u \in DOMAIN f : f[t] = f[u] => t = u
     /\ DOMAIN f = waiting \/ {f[t] : t \in DOMAIN f} = free}

LaunchChoices(c) == {LaunchedOn(c, f) : f \in Launches(Eligible(c), RequestSlots \ Occupied(c))}

Reconciled(c) == LaunchChoices(QueuedEntries(SynchronizeContext(c)))

KeptEntry(c, t, versions) ==
  t \in DOMAIN versions /\ t \in ListedTargets(c) /\ c.entries[t].version = versions[t]

Reusable(c, t, versions) ==
  /\ c.cached[t] # Nothing
  /\ c.cached[t].version = versions[t]
  /\ c.cached[t].next > now

NewEntry(c, t, versions) ==
  IF Reusable(c, t, versions)
  THEN [NoEntry EXCEPT !.version = versions[t], !.shown = c.cached[t].shown,
                       !.next = c.cached[t].next]
  ELSE [NoEntry EXCEPT !.version = versions[t]]

SetTargets ==
  /\ ~client.disposed
  /\ \E chosen \in SUBSET ChangeTargets : \E versions \in [chosen -> TargetVersions] :
       LET c == SynchronizeContext(client)
          gone == {t \in ListedTargets(c) : ~KeptEntry(c, t, versions)}
          new == {t \in chosen : ~KeptEntry(c, t, versions)}
          rest == CancelledFor(c, gone)
       IN  client' \in Reconciled([rest EXCEPT
             !.entries = [t \in ChangeTargets |->
                CASE t \in new -> NewEntry(rest, t, versions)
                  [] t \in chosen \ new -> rest.entries[t]
                  [] OTHER -> Nothing],
             !.cached = [t \in ChangeTargets |->
                IF t \in new /\ ~Reusable(rest, t, versions) THEN Nothing ELSE rest.cached[t]]])
  /\ UNCHANGED now

SetReferenceTime ==
  /\ ~client.disposed
  /\ \E reference \in References \ {client.reference} :
       client' \in Reconciled(ResetContext([client EXCEPT !.reference = reference],
                                           BaselineAt(reference)))
  /\ UNCHANGED now

RefreshTick ==
  /\ ~client.disposed
  /\ client' \in Reconciled(client)
  /\ UNCHANGED now

SetPaused ==
  /\ ~client.disposed
  /\ LET c == SynchronizeContext([client EXCEPT !.paused = ~client.paused])
         pending == {t \in ListedTargets(c) :
                       c.entries[t].request # Nothing \/ c.entries[t].shown.status = "queued"}
     IN  client' \in Reconciled(IF c.paused THEN EmptiedOf(c, pending) ELSE c)
  /\ UNCHANGED now

Dispose ==
  /\ ~client.disposed
  /\ client' = [client EXCEPT
       !.disposed = TRUE,
       !.slots = [s \in RequestSlots |-> IF client.slots[s] = Nothing THEN Nothing
                                  ELSE [client.slots[s] EXCEPT !.cancelled = TRUE]],
       !.entries = [t \in ChangeTargets |-> Nothing],
       !.cached = [t \in ChangeTargets |-> Nothing]]
  /\ UNCHANGED now

(* what the server may send: at is the older of the two times that decide the age *)
ServerAnswers ==
  [version : TargetVersions, baseline : BaselineAt(0) - ClientDay..now, at : 0..now + 1]

IsCurrent(c, s) ==
  LET request == c.slots[s]
  IN  /\ ~c.disposed /\ ~c.paused /\ ~request.cancelled
      /\ request.generation = c.generation
      /\ c.entries[request.target] # Nothing
      /\ c.entries[request.target].request = s

(* Mutant: the version of the answer is not compared. *)
ResponseStateMutant(request, answer) ==
  CASE \/ answer = Nothing
       \/ answer.baseline # request.baseline
       \/ answer.at > now \/ answer.at < request.baseline - 1 -> ShownAs("error")
    [] OTHER ->
         IF now - answer.at > MaxChangeAge THEN ShownAs("stale")
         ELSE [status |-> "ready",
               data |-> [version |-> answer.version, baseline |-> answer.baseline,
                         at |-> answer.at]]

(* responseState: only the answer to this very question counts *)
ResponseState(request, answer) ==
  CASE \/ answer = Nothing
       \/ answer.version # request.version
       \/ answer.baseline # request.baseline
       \/ answer.at > now \/ answer.at < request.baseline - 1 -> ShownAs("error")
    [] OTHER ->
         IF now - answer.at > MaxChangeAge THEN ShownAs("stale")
         ELSE [status |-> "ready",
               data |-> [version |-> answer.version, baseline |-> answer.baseline,
                         at |-> answer.at]]

SettledEntry(c, s, answer) ==
  LET t == c.slots[s].target
      shown == ResponseState(c.slots[s], answer)
  IN  IF ~IsCurrent(c, s) THEN c
      ELSE [c EXCEPT
              !.entries = [c.entries EXCEPT
                 ![t] = [c.entries[t] EXCEPT !.next = now + 1, !.shown = shown]],
              !.cached = [c.cached EXCEPT
                 ![t] = [version |-> c.slots[s].version, shown |-> shown, next |-> now + 1]]]

ReleasedSlot(c, s) ==
  [c EXCEPT
     !.slots = [c.slots EXCEPT ![s] = Nothing],
     !.entries = [t \in ChangeTargets |->
        IF t \in ListedTargets(c) /\ c.entries[t].request = s
        THEN [c.entries[t] EXCEPT !.request = Nothing] ELSE c.entries[t]]]

(* load's end: the answer or the failure, and in any case the slot *)
EndLoad(s) ==
  /\ client.slots[s] # Nothing
  /\ \E answer \in ServerAnswers \cup {Nothing} :
       LET c == IF client.disposed THEN client ELSE SynchronizeContext(client)
           done == ReleasedSlot(SettledEntry(c, s, answer), s)
       IN  client' \in IF done.disposed THEN {done} ELSE Reconciled(done)
  /\ UNCHANGED now

ClientTick ==
  /\ now < MaxNow
  /\ now' = now + 1
  /\ UNCHANGED client

ClientNext ==
  /\ \/ SetTargets \/ SetReferenceTime \/ RefreshTick \/ SetPaused \/ Dispose \/ ClientTick
     \/ \E s \in RequestSlots : EndLoad(s)
  /\ client'.generation <= MaxClientGeneration

(* Whatever is shown, or kept to be shown again, answers for the version it is     *)
(* listed under and for the day and reference time now set; an entry says it is    *)
(* loading exactly while an uncancelled request of its own is under way.           *)
ShownIsOurs ==
  LET c == client IN
  /\ \A t \in ListedTargets(c) :
       /\ c.entries[t].shown.data # Nothing =>
            /\ c.entries[t].shown.data.version = c.entries[t].version
            /\ c.entries[t].shown.data.baseline = c.baseline
       /\ (c.entries[t].shown.status = "loading") = (c.entries[t].request # Nothing)
       /\ c.entries[t].request # Nothing =>
            /\ c.slots[c.entries[t].request] # Nothing
            /\ ~c.slots[c.entries[t].request].cancelled
            /\ c.slots[c.entries[t].request].target = t
            /\ c.slots[c.entries[t].request].version = c.entries[t].version
            /\ c.slots[c.entries[t].request].generation = c.generation
  /\ \A t \in ChangeTargets : c.cached[t] # Nothing /\ c.cached[t].shown.data # Nothing =>
       c.cached[t].shown.data.version = c.cached[t].version
         /\ c.cached[t].shown.data.baseline = c.baseline

(* No target is left queued beside a free slot, though aborted requests hold slots *)
(* long after the entries that made them are gone.                                 *)
NoSlotIsWasted ==
  (\E t \in ListedTargets(client) : client.entries[t].shown.status = "queued") =>
    ~client.paused /\ Occupied(client) = RequestSlots

ChangesHold == ShownIsOurs /\ NoSlotIsWasted
==================================================================================
