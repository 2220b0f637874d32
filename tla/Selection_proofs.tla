----------------------------- MODULE Selection_proofs -----------------------------
(***************************************************************************)
(* Proofs about SelectionController, for every set of targets and ids,     *)
(* every debounce and every lease time.                                    *)
(*                                                                         *)
(* The safety properties are not inductive.  Two facts make them so: what  *)
(* each await holds (Held: which subscription is open, and which locals    *)
(* the suspended coroutine relies on), and what revisions mean (Newest:    *)
(* the pending request is always the latest one, and equals the request    *)
(* the coroutine started from when the revisions agree).                   *)
(*                                                                         *)
(* Proofs about SelectionRuntime, for every set of targets and ids, every  *)
(* debounce, lease time, queue size, number of definitions and of deaths.  *)
(*                                                                         *)
(* RuntimeInv is the inductive invariant.  It says where the runtime is    *)
(* when the controller is in one of its awaits, and what the lease rows,   *)
(* the streams and the events are at each of them.  That the controller's  *)
(* invariant (IInv) goes on holding follows from the refinement: every     *)
(* step of the runtime is one of the controller or leaves it alone.        *)
(***************************************************************************)
EXTENDS SelectionRuntime, SequenceTheorems, FiniteSetTheorems, TLAPS

-----------------------------------------------------------------------------
(* The controller *)

(* What is open, and what the coroutine holds, at each await. *)
Held ==
  /\ failed => phase \in {"idle", "stopping"}
  /\ phase \in {"expiring", "switching", "stopping"} =>
       /\ active \in ActiveSelection
       /\ ~failed => open = {active.id}
  /\ phase = "subscribing" => open = {} /\ active = NoSelection
  /\ phase = "discarding" => open = {opening} /\ active = NoSelection
  /\ phase \in {"subscribing", "discarding"} => opening \in Id
  /\ phase \in {"switching", "subscribing", "discarding"} => want \in PendingSelection

(* The pending request is the latest; the coroutine's is not from the future. *)
Newest ==
  /\ pending # NoSelection => pending.revision = revision
  /\ want # NoSelection => want.revision <= revision
  /\ pending # NoSelection /\ want # NoSelection /\ want.revision = pending.revision
       => want = pending
  /\ at <= now

IInv == TypeOK /\ Held /\ Newest /\ SingleSubscription /\ NoLeakedSubscription

-----------------------------------------------------------------------------
(* A value that is not NoSelection is a record of its kind. *)
LEMMA Records ==
  ASSUME TypeOK
  PROVE  /\ pending # NoSelection => pending \in PendingSelection
         /\ active # NoSelection => active \in ActiveSelection
         /\ want # NoSelection => want \in PendingSelection
         /\ opening # NoSelection => opening \in Id
  BY DEF TypeOK

(* Renewing the lease of a selection gives a selection with the same id. *)
LEMMA Renewed ==
  ASSUME NEW a \in ActiveSelection, NEW h \in Nat, NEW e \in Nat
  PROVE  /\ Renew(a, h, e) \in ActiveSelection /\ Renew(a, h, e) # NoSelection
         /\ Renew(a, h, e).id = a.id /\ Renew(a, h, e).target = a.target
  BY NoSelectionAssumption DEF ActiveSelection, Renew

-----------------------------------------------------------------------------
LEMMA InitHolds == Init => IInv
<1>. SUFFICES ASSUME Init PROVE IInv
  OBVIOUS
<1>1. TypeOK
  BY DEF Init, TypeOK, Phase
<1>2. Held /\ SingleSubscription /\ NoLeakedSubscription
  BY DEF Init, Held, SingleSubscription, NoLeakedSubscription
<1>3. Newest
  BY DEF Init, Newest
<1>. QED
  BY <1>1, <1>2, <1>3 DEF IInv

(***************************************************************************)
(* What Decide does, wherever it is called from, given that only           *)
(* `current` is subscribed when it returns.                                *)
(***************************************************************************)
LEMMA DecideHolds ==
  ASSUME IInv, NEW t \in 0..now, NEW current \in ActiveSelection \cup {NoSelection},
         Decide(t, current), ~failed, UNCHANGED <<now, revision, failed>>,
         open' = IF current = NoSelection THEN {} ELSE {current.id}
  PROVE  IInv'
<1>. USE DEF IInv
<1>t. t \in Nat /\ t <= now /\ now \in Nat
  BY DEF TypeOK
<1>o. open' \subseteq Id /\ SingleSubscription'
  BY DEF SingleSubscription, ActiveSelection
<1>f. failed' \in BOOLEAN /\ now' \in Nat /\ revision' \in Nat
  BY DEF TypeOK
<1>1. CASE ~Due(t) /\ Keep(current) /\ UNCHANGED pending
  BY <1>1, <1>t, <1>o, <1>f
  DEF Keep, Release, TypeOK, Phase, Held, Newest, NoLeakedSubscription
<1>2. CASE Lapsed(t) /\ Keep(current) /\ pending' = NoSelection
  BY <1>2, <1>t, <1>o, <1>f
  DEF Keep, Release, TypeOK, Phase, Held, Newest, NoLeakedSubscription
<1>3. CASE /\ Due(t) /\ Matches(current) /\ pending' = NoSelection
           /\ Keep(Renew(current, t, pending.expiresAt))
  <2>1. current \in ActiveSelection /\ pending.expiresAt \in Nat
    BY <1>3, Records DEF Matches, Due, PendingSelection
  <2>2. active' \in ActiveSelection /\ active'.id = current.id /\ active' # NoSelection
    BY <1>3, <2>1, <1>t, Renewed DEF Keep
  <2>3. pending' = NoSelection /\ Release
    BY <1>3 DEF Keep
  <2>4. TypeOK'
    BY <2>2, <2>3, <1>t, <1>o, <1>f DEF Release, TypeOK, Phase
  <2>5. Held' /\ NoLeakedSubscription'
    BY <2>1, <2>2, <2>3, NoSelectionAssumption
    DEF Release, Held, NoLeakedSubscription, Matches
  <2>6. Newest'
    BY <2>3, <1>f DEF Release, Newest
  <2>. QED
    BY <2>4, <2>5, <2>6, <1>o
<1>4. CASE /\ Due(t) /\ current # NoSelection
           /\ phase' = "switching" /\ at' = t /\ want' = pending /\ active' = current
           /\ UNCHANGED <<pending, opening>>
  BY <1>4, <1>t, <1>o, <1>f, Records
  DEF Due, TypeOK, Phase, Held, Newest, NoLeakedSubscription, PendingSelection
<1>5. CASE Due(t) /\ current = NoSelection /\ StartSubscribe(t)
  BY <1>5, <1>t, <1>o, <1>f, Records
  DEF Due, StartSubscribe, TypeOK, Phase, Held, Newest, NoLeakedSubscription, PendingSelection
<1>. QED
  BY <1>1, <1>2, <1>3, <1>4, <1>5 DEF Decide

LEMMA RequestHolds ==
  ASSUME IInv, NEW target \in Target, NEW r \in 0..now, NEW e \in 1..(now + TTL),
         Request(target, r, e)
  PROVE  IInv'
<1>1. pending' \in PendingSelection /\ pending' # NoSelection /\ revision' \in Nat
  BY TimingAssumption, NoSelectionAssumption DEF IInv, Request, TypeOK, PendingSelection
<1>2. want # NoSelection => want.revision \in Nat
  BY Records DEF IInv, PendingSelection
<1>. QED
  BY <1>1, <1>2
  DEF IInv, Request, TypeOK, Held, Newest, SingleSubscription, NoLeakedSubscription

LEMMA HeartbeatHolds ==
  ASSUME IInv, NEW beat \in 0..now, Heartbeat(beat)
  PROVE  IInv'
<1>1. active \in ActiveSelection /\ beat \in Nat /\ beat + TTL \in Nat
  BY TimingAssumption, Records DEF IInv, Heartbeat, TypeOK
<1>2. active' \in ActiveSelection /\ active'.id = active.id /\ active' # NoSelection
  BY <1>1, Renewed DEF Heartbeat
<1>. QED
  BY <1>1, <1>2
  DEF IInv, Heartbeat, TypeOK, Held, Newest, SingleSubscription, NoLeakedSubscription

LEMMA ReconcileHolds ==
  ASSUME IInv, NEW t \in 0..now, Reconcile(t)
  PROVE  IInv'
<1>1. CASE Expired(t) /\ phase' = "expiring" /\ at' = t /\ UNCHANGED <<pending, active, want, opening>>
  BY <1>1, Records
  DEF IInv, Reconcile, Expired, TypeOK, Phase, Held, Newest, SingleSubscription,
      NoLeakedSubscription
<1>2. CASE Decide(t, active)
  <2>1. active \in ActiveSelection \cup {NoSelection}
    BY DEF IInv, TypeOK
  <2>2. open' = IF active = NoSelection THEN {} ELSE {active.id}
    BY DEF IInv, Reconcile, NoLeakedSubscription
  <2>. QED
    BY <1>2, <2>1, <2>2, DecideHolds DEF Reconcile
<1>. QED
  BY <1>1, <1>2 DEF Reconcile

LEMMA StopHolds ==
  ASSUME IInv, Stop
  PROVE  IInv'
  BY Records
  DEF IInv, Stop, TypeOK, Phase, Held, Newest, SingleSubscription, NoLeakedSubscription

LEMMA CleanupDoneHolds ==
  ASSUME IInv, CleanupDone
  PROVE  IInv'
<1>1. CASE phase = "expiring" /\ Decide(at, NoSelection)
  <2>1. ~failed /\ open' = {} /\ at \in 0..now
    BY <1>1 DEF IInv, CleanupDone, Held, Newest, TypeOK
  <2>. QED
    BY <1>1, <2>1, DecideHolds DEF CleanupDone
<1>2. CASE phase = "switching" /\ ~Superseded /\ StartSubscribe(at)
  <2>1. ~failed /\ open' = {} /\ pending \in PendingSelection
    BY <1>2, Records DEF IInv, CleanupDone, Held, Superseded
  <2>. QED
    BY <1>2, <2>1
    DEF IInv, CleanupDone, StartSubscribe, TypeOK, Phase, Held, Newest, SingleSubscription,
        NoLeakedSubscription, PendingSelection
<1>3. CASE /\ phase = "stopping" \/ (phase = "switching" /\ Superseded)
           /\ Keep(NoSelection) /\ UNCHANGED pending
  BY <1>3
  DEF IInv, CleanupDone, Keep, Release, TypeOK, Phase, Held, Newest, SingleSubscription,
      NoLeakedSubscription
<1>. QED
  BY <1>1, <1>2, <1>3 DEF CleanupDone

LEMMA CleanupFailsHolds ==
  ASSUME IInv, CleanupFails
  PROVE  IInv'
  BY DEF IInv, CleanupFails, Release, TypeOK, Phase, Held, Newest, SingleSubscription,
         NoLeakedSubscription

LEMMA SubscribeDoneHolds ==
  ASSUME IInv, SubscribeDone
  PROVE  IInv'
<1>1. /\ open = {} /\ open' = {opening} /\ opening \in Id /\ ~failed
      /\ want \in PendingSelection /\ active = NoSelection
  BY DEF IInv, SubscribeDone, Held
<1>2. CASE phase' = "discarding" /\ UNCHANGED <<active, pending, at, want, opening>>
  BY <1>1, <1>2
  DEF IInv, SubscribeDone, TypeOK, Phase, Held, Newest, SingleSubscription, NoLeakedSubscription
<1>3. CASE /\ active' = [id |-> opening, revision |-> want.revision, target |-> want.target,
                         heartbeatAt |-> at, expiresAt |-> want.expiresAt]
           /\ pending' = NoSelection /\ Release
  <2>1. active' \in ActiveSelection /\ active' # NoSelection /\ active'.id = opening
    BY <1>1, <1>3, NoSelectionAssumption DEF IInv, TypeOK, ActiveSelection, PendingSelection
  <2>. QED
    BY <1>1, <1>3, <2>1
    DEF IInv, SubscribeDone, Release, TypeOK, Phase, Held, Newest, SingleSubscription,
        NoLeakedSubscription
<1>. QED
  BY <1>2, <1>3 DEF SubscribeDone

LEMMA SubscribeFailsHolds ==
  ASSUME IInv, SubscribeFails
  PROVE  IInv'
  BY DEF IInv, SubscribeFails, Release, TypeOK, Phase, Held, Newest, SingleSubscription,
         NoLeakedSubscription

LEMMA DiscardDoneHolds ==
  ASSUME IInv, DiscardDone
  PROVE  IInv'
  BY DEF IInv, DiscardDone, Release, TypeOK, Phase, Held, Newest, SingleSubscription,
         NoLeakedSubscription

LEMMA RestartHolds ==
  ASSUME IInv, Restart
  PROVE  IInv'
<1>1. TypeOK'
  BY DEF IInv, Restart, Release, TypeOK, Phase
<1>2. Held' /\ SingleSubscription' /\ NoLeakedSubscription'
  BY DEF Restart, Release, Held, SingleSubscription, NoLeakedSubscription
<1>3. Newest'
  BY DEF IInv, TypeOK, Restart, Release, Newest
<1>. QED
  BY <1>1, <1>2, <1>3 DEF IInv

LEMMA TickHolds ==
  ASSUME IInv, Tick
  PROVE  IInv'
  BY DEF IInv, Tick, TypeOK, Held, Newest, SingleSubscription, NoLeakedSubscription

LEMMA StepHolds == IInv /\ [Next]_vars => IInv'
<1>. SUFFICES ASSUME IInv, [Next]_vars PROVE IInv'
  OBVIOUS
<1>1. CASE UNCHANGED vars
  BY <1>1 DEF vars, IInv, TypeOK, Held, Newest, SingleSubscription, NoLeakedSubscription
<1>2. CASE Next
  BY <1>2, RequestHolds, HeartbeatHolds, ReconcileHolds, StopHolds, CleanupDoneHolds,
     CleanupFailsHolds, SubscribeDoneHolds, SubscribeFailsHolds, DiscardDoneHolds,
     RestartHolds, TickHolds
  DEF Next
<1>. QED
  BY <1>1, <1>2
-----------------------------------------------------------------------------
(* Theorems *)

LEMMA InvariantHolds == Spec => []IInv
  BY InitHolds, StepHolds, PTL DEF Spec

(* Every behaviour of the controller keeps its variables in their types. *)
THEOREM TypeCorrect == Spec => []TypeOK
  BY InvariantHolds, PTL DEF IInv

(* Two subscriptions never run together: whatever request arrives while the *)
(* old one closes or the new one opens, at most one is open.                *)
THEOREM SubscriptionIsSingle == Spec => []SingleSubscription
  BY InvariantHolds, PTL DEF IInv

(* Whenever the transition lock is free and nothing failed, the open        *)
(* subscription is the active selection's, and there is none without one.   *)
THEOREM SubscriptionIsNotLeaked == Spec => []NoLeakedSubscription
  BY InvariantHolds, PTL DEF IInv

(* What Decide does to the active selection: it keeps the one it was given, *)
(* with the same id, or leaves none.                                        *)
LEMMA DecideKeepsId ==
  ASSUME IInv, NEW t \in 0..now, NEW current \in ActiveSelection \cup {NoSelection},
         Decide(t, current), active' # NoSelection
  PROVE  current # NoSelection /\ active'.id = current.id
<1>1. CASE Due(t) /\ Matches(current) /\ Keep(Renew(current, t, pending.expiresAt))
  <2>1. current \in ActiveSelection /\ current # NoSelection /\ pending.expiresAt \in Nat /\ t \in Nat
    BY <1>1, Records DEF Matches, Due, PendingSelection, IInv, TypeOK
  <2>. QED
    BY <1>1, <2>1, Renewed DEF Keep
<1>2. CASE Keep(current)
  BY <1>2 DEF Keep
<1>3. CASE active' = current
  BY <1>3
<1>4. CASE StartSubscribe(t)
  BY <1>4 DEF StartSubscribe
<1>. QED
  BY <1>1, <1>2, <1>3, <1>4 DEF Decide

LEMMA StepActivatesLatest ==
  ASSUME IInv, [Next]_vars,
         active' # NoSelection, active = NoSelection \/ active.id # active'.id
  PROVE  active'.revision = revision
<1>1. CASE SubscribeDone
  <2>1. ~Superseded /\ active'.revision = want.revision
    BY <1>1 DEF SubscribeDone, IInv, Held
  <2>. QED
    BY <2>1 DEF Superseded, IInv, Newest
<1>2. CASE \E beat \in 0..now : Heartbeat(beat)
  <2>1. PICK beat \in 0..now : Heartbeat(beat)
    BY <1>2
  <2>2. active \in ActiveSelection /\ beat \in Nat /\ beat + TTL \in Nat
    BY <2>1, TimingAssumption, Records DEF Heartbeat, IInv, TypeOK
  <2>. QED
    BY <2>1, <2>2, Renewed DEF Heartbeat
<1>3. CASE \E t \in 0..now : Reconcile(t)
  <2>1. PICK t \in 0..now : Reconcile(t)
    BY <1>3
  <2>2. active \in ActiveSelection \cup {NoSelection}
    BY DEF IInv, TypeOK
  <2>. QED
    BY <2>1, <2>2, DecideKeepsId DEF Reconcile
<1>4. CASE CleanupDone
  <2>1. at \in 0..now
    BY DEF IInv, TypeOK, Newest
  <2>2. phase = "expiring" /\ Decide(at, NoSelection) => FALSE
    BY <2>1, DecideKeepsId
  <2>. QED
    BY <1>4, <2>2 DEF CleanupDone, StartSubscribe, Keep
<1>5. CASE active' = active
  BY <1>5
<1>6. CASE Restart
  BY <1>6 DEF Restart
<1>. QED
  BY <1>1, <1>2, <1>3, <1>4, <1>5, <1>6
  DEF Next, vars, Request, Stop, CleanupFails, SubscribeFails, DiscardDone, Tick

(* A selection becomes active only for the newest request, however requests *)
(* interleave with the awaits of reconcile.                                 *)
THEOREM LatestRequestActivates == Spec => OnlyLatestActivates
<1>1. IInv /\ [Next]_vars =>
        [active' # NoSelection /\ (active = NoSelection \/ active.id # active'.id)
           => active'.revision = revision]_vars
  BY StepActivatesLatest
<1>. QED
  BY <1>1, InvariantHolds, PTL DEF Spec, OnlyLatestActivates

LEMMA DecideLosesNothing ==
  ASSUME IInv, NEW t \in 0..now, NEW current \in ActiveSelection \cup {NoSelection},
         Decide(t, current), pending # NoSelection, pending' = NoSelection
  PROVE  \/ pending.expiresAt <= now
         \/ active' # NoSelection /\ active'.target = pending.target
<1>1. pending \in PendingSelection /\ t \in Nat /\ now \in Nat /\ t <= now
  BY Records DEF IInv, TypeOK
<1>2. CASE Lapsed(t)
  BY <1>1, <1>2 DEF Lapsed, PendingSelection
<1>3. CASE Matches(current) /\ Keep(Renew(current, t, pending.expiresAt))
  <2>1. current \in ActiveSelection /\ pending.expiresAt \in Nat /\ current.target = pending.target
    BY <1>1, <1>3 DEF Matches, PendingSelection
  <2>. QED
    BY <1>1, <1>3, <2>1, Renewed DEF Keep
<1>. QED
  BY <1>2, <1>3 DEF Decide, StartSubscribe

LEMMA StepLosesNothing ==
  ASSUME IInv, [Next]_vars, pending # NoSelection, pending' = NoSelection
  PROVE  \/ pending.expiresAt <= now
         \/ active' # NoSelection /\ active'.target = pending.target
         \/ Stop
         \/ Restart
<1>1. CASE SubscribeDone
  <2>1. /\ ~Superseded /\ active'.target = want.target /\ active' # NoSelection
        /\ want # NoSelection
    BY <1>1, NoSelectionAssumption
    DEF SubscribeDone, IInv, TypeOK, Held, ActiveSelection, PendingSelection
  <2>. QED
    BY <2>1 DEF Superseded, IInv, Newest
<1>2. CASE \E t \in 0..now : Reconcile(t)
  <2>1. PICK t \in 0..now : Reconcile(t)
    BY <1>2
  <2>2. active \in ActiveSelection \cup {NoSelection}
    BY DEF IInv, TypeOK
  <2>. QED
    BY <2>1, <2>2, DecideLosesNothing DEF Reconcile
<1>3. CASE CleanupDone
  <2>1. at \in 0..now
    BY DEF IInv, TypeOK, Newest
  <2>. QED
    BY <1>3, <2>1, DecideLosesNothing DEF CleanupDone, StartSubscribe
<1>4. CASE \E target \in Target, r \in 0..now, e \in 1..(now + TTL) : Request(target, r, e)
  <2>1. PICK target \in Target, r \in 0..now, e \in 1..(now + TTL) : Request(target, r, e)
    BY <1>4
  <2>2. pending' \in PendingSelection
    BY <2>1, TimingAssumption DEF Request, IInv, TypeOK, PendingSelection
  <2>. QED
    BY <2>2, NoSelectionAssumption
<1>5. CASE pending' = pending
  BY <1>5
<1>6. CASE Stop \/ Restart
  BY <1>6
<1>. QED
  BY <1>1, <1>2, <1>3, <1>4, <1>5, <1>6
  DEF Next, vars, Heartbeat, CleanupFails, SubscribeFails, DiscardDone, Tick

(* A pending request leaves only by activation, by its deadline, by stop or *)
(* by the death of the process: no await loses one.                         *)
THEOREM PendingIsNeverLost == Spec => PendingNeverLost
<1>1. IInv /\ [Next]_vars =>
        [pending # NoSelection /\ pending' = NoSelection =>
           \/ pending.expiresAt <= now
           \/ active' # NoSelection /\ active'.target = pending.target
           \/ Stop
           \/ Restart]_vars
  BY StepLosesNothing
<1>. QED
  BY <1>1, InvariantHolds, PTL DEF Spec, PendingNeverLost

-----------------------------------------------------------------------------
(* The runtime *)

(* The awaits of _subscribe, and those in which the new lease is there. *)
Subscribing == {"lookup", "activate", "ack", "open", "undo"}
Leased == {"ack", "open", "undo"}

(* No command, and no selection made from one, is from the future. *)
InTime(c) == c # NoSelection => c.requestedAt <= now /\ c.heartbeatAt <= beats[c.target]

Covered(s) == s # NoSelection => s.expiresAt <= beats[s.target] + TTL

WithinBeats ==
  /\ tick <= now
  /\ \A t \in Target : beats[t] <= now
  /\ InTime(command) /\ InTime(cmd)
  /\ Covered(pending) /\ Covered(active) /\ Covered(again)
  /\ LeaseWithinCommand

(* The await of the runtime and the phase of the controller go together. *)
AwaitsAgree ==
  /\ pc = "transit" <=> step # "none"
  /\ step = "none" => phase = "idle"
  /\ step \in {"unsubscribe", "flush"} => phase \in {"expiring", "switching", "stopping"}
  /\ step \in Subscribing => phase = "subscribing"
  /\ phase = "stopping" <=> after # "none"
  /\ phase \in {"switching", "subscribing"} => pending = want /\ pending # NoSelection

(* What the loop relies on at its places; a running selection is never       *)
(* requested again but when it has expired and is about to be closed.        *)
LoopRelies ==
  /\ pc \in {"reject", "resubscribe"} => active = NoSelection
  /\ after = "resubscribe" \/ pc = "resubscribe" => again # NoSelection
  /\ failed => pc \in {"shutdown", "exit"} \/ after = "exit"
  /\ pc = "exit" /\ ~failed => active = NoSelection
  /\ ~failed /\ phase = "idle" /\ pending # NoSelection /\ active # NoSelection =>
       active.target # pending.target \/ (pc = "reconcile" /\ active.expiresAt <= tick)

(* What the lease rows are at each await. *)
RunsUnder(id, target, expiresAt) ==
  /\ id \in ActiveRows
  /\ leases[id].target = target
  /\ leases[id].expiresAt = expiresAt

LeaseIsHeld ==
  /\ OneActiveLease
  /\ active # NoSelection /\ ~failed =>
       emitting = active.id /\ RunsUnder(active.id, active.target, active.expiresAt)
  /\ step \in {"lookup", "activate"} /\ leases[opening] # NoSelection =>
       leases[opening].status = "cleaned"
  /\ step \in Leased => RunsUnder(opening, want.target, want.expiresAt)
  /\ step \in {"open", "undo"} => emitting = opening
  /\ step \in {"activate", "ack", "open"} => opened.version # 0
  /\ previous # NoSelection =>
       /\ step = "ack"
       /\ leases[previous] # NoSelection /\ leases[previous].status = "superseded"

(* What the streams and the events are at each await. *)
StreamIsHeld ==
  /\ StreamsUnderLease
  /\ \A k \in DOMAIN queue : queue[k] \in ActiveRows
  /\ \A k \in DOMAIN batch : batch[k] \in ActiveRows
  /\ step \in {"flush"} \cup Subscribing => stream = NoSelection
  /\ step \in Subscribing => Drained
  /\ ~failed /\ phase = "idle" =>
       IF active = NoSelection THEN stream = NoSelection /\ Drained
       ELSE stream = [target |-> active.target, version |-> definition]

(* The deaths pay for the leases nobody acknowledges: one that made the row  *)
(* an orphan, one between its replacement and the acknowledgement.           *)
Orphaned == ActiveRows # {} /\ active = NoSelection /\ step \notin Leased

DeathsPay ==
  /\ IsFiniteSet(Unacknowledged)
  /\ Cardinality(Unacknowledged) <= deaths
  /\ previous # NoSelection \/ Orphaned => Cardinality(Unacknowledged) < deaths
  /\ UnacknowledgedLeasesAreLeftovers

RuntimeInv ==
  /\ RuntimeTypeOK /\ IInv
  /\ WithinBeats /\ AwaitsAgree /\ LoopRelies /\ LeaseIsHeld /\ StreamIsHeld /\ DeathsPay

-----------------------------------------------------------------------------
(* What the types say of a value that is there. *)
LEMMA RuntimeRecords ==
  ASSUME RuntimeTypeOK
  PROVE  /\ command # NoSelection => command \in Command
         /\ cmd # NoSelection => cmd \in Command
         /\ again # NoSelection => again \in ActiveSelection
         /\ previous # NoSelection => previous \in Id
         /\ \A i \in Id : leases[i] # NoSelection => leases[i] \in Lease
         /\ \A t \in Target : beats[t] \in Int
         /\ tick \in Nat /\ now \in Nat
  BY DEF RuntimeTypeOK, TypeOK

(* The deaths go on paying when no superseded row and no orphan appears. *)
LEMMA DeathsGoOnPaying ==
  ASSUME DeathsPay, Unacknowledged' = Unacknowledged, deaths' = deaths,
         previous' # NoSelection \/ Orphaned' => previous # NoSelection \/ Orphaned
  PROVE  DeathsPay'
  BY DEF DeathsPay, UnacknowledgedLeasesAreLeftovers

(* Each step of the runtime is one of the controller or none. *)
LEMMA StepIsController ==
  ASSUME RuntimeInv, RuntimeNext
  PROVE  [Next]_vars
<1>. USE DEF RuntimeInv
<1>1. CASE AcceptRequest
  <2>1. cmd \in Command /\ cmd.requestedAt \in 0..now /\ cmd.heartbeatAt + TTL \in 1..(now + TTL)
    BY <1>1, RuntimeRecords, TimingAssumption
    DEF AcceptRequest, Handled, WithinBeats, InTime, Command
  <2>. QED
    BY <1>1, <2>1 DEF AcceptRequest, Command, Next
<1>2. CASE AcceptHeartbeat
  <2>1. cmd \in Command /\ cmd.heartbeatAt \in 0..now
    BY <1>2, RuntimeRecords DEF AcceptHeartbeat, Handled, WithinBeats, InTime, Command
  <2>. QED
    BY <1>2, <2>1 DEF AcceptHeartbeat, Next
<1>3. CASE ReconcileStep
  <2>1. tick \in 0..now
    BY RuntimeRecords DEF WithinBeats
  <2>. QED
    BY <1>3, <2>1 DEF ReconcileStep, Next
<1>4. CASE Resubscribe
  <2>1. again \in ActiveSelection /\ again.expiresAt <= beats[again.target] + TTL
    BY <1>4, RuntimeRecords DEF Resubscribe, LoopRelies, WithinBeats, Covered
  <2>2. again.target \in Target /\ again.expiresAt \in Nat /\ beats[again.target] \in Int
        /\ beats[again.target] <= now
    BY <2>1, RuntimeRecords DEF ActiveSelection, WithinBeats
  <2>3. again.expiresAt \in 1..(now + TTL) /\ tick \in 0..now
    BY <1>4, <2>1, <2>2, RuntimeRecords, TimingAssumption DEF WithinBeats, Resubscribe, Request
  <2>. QED
    BY <1>4, <2>2, <2>3 DEF Resubscribe, Next
<1>5. CASE RefreshMembership \/ Lookup \/ Activate
  BY <1>5 DEF RefreshMembership, Lookup, Activate, Next
<1>6. CASE CloseLease \/ CleanupGivesUp \/ OpenStreams \/ UndoLease \/ Reject \/ Shutdown
  BY <1>6 DEF CloseLease, CleanupGivesUp, OpenStreams, UndoLease, Reject, Shutdown, Next
<1>7. CASE Exit \/ Crash \/ Clock
  BY <1>7 DEF Exit, Crash, StartOver, Clock, Next
<1>8. CASE \/ \E target \in Target : WebSelect(target) \/ WebHeartbeat(target)
           \/ \E target \in Target, version \in 0..MaxVersion : CatalogChange(target, version)
           \/ Poll \/ AcceptNothing \/ AcceptRejected \/ StopStreams \/ Acknowledge \/ CloseStreams
           \/ StopEvent \/ OpenStreamsFails \/ Emit \/ Writer
  BY <1>8
  DEF WebSelect, WebHeartbeat, WriteCommand, CatalogChange, Poll, AcceptNothing, AcceptRejected,
      StopStreams, Acknowledge, CloseStreams, StopEvent, OpenStreamsFails, Emit, Writer,
      WriterTake, WriterStore
<1>. QED
  BY <1>1, <1>2, <1>3, <1>4, <1>5, <1>6, <1>7, <1>8 DEF RuntimeNext, Loop

LEMMA ControllerHolds ==
  ASSUME RuntimeInv, [RuntimeNext]_allVars
  PROVE  IInv'
<1>1. [Next]_vars
  BY StepIsController DEF allVars
<1>. QED
  BY <1>1, StepHolds DEF RuntimeInv

(* Steps that leave the rows, the streams and the events as they are. *)
LEMMA RowsStay ==
  ASSUME RuntimeInv,
         UNCHANGED <<active, phase, want, opening, failed, leases, step, opened, previous, emitting,
                     stream, definition, queue, batch, deaths>>
  PROVE  LeaseIsHeld' /\ StreamIsHeld' /\ DeathsPay'
<1>1. LeaseIsHeld'
  BY DEF RuntimeInv, LeaseIsHeld, RunsUnder, OneActiveLease, ActiveRows
<1>2. StreamIsHeld'
  BY DEF RuntimeInv, StreamIsHeld, StreamsUnderLease, Drained, ActiveRows
<1>3. DeathsPay'
  BY DeathsGoOnPaying DEF RuntimeInv, Orphaned, Unacknowledged, ActiveRows
<1>. QED
  BY <1>1, <1>2, <1>3

(* The Web process and the catalog refresh *)
LEMMA WriteHolds ==
  ASSUME RuntimeInv, IInv', NEW next \in Command, WriteCommand(next),
         next.requestedAt <= now, next.heartbeatAt = now
  PROVE  RuntimeInv'
<1>. USE DEF RuntimeInv
<1>u. UNCHANGED <<now, pending, active, phase, want, opening, failed, leases, catalog, loopVars,
                  streamVars, eventVars, deaths>>
  BY DEF WriteCommand, vars
<1>b. /\ beats' \in [Target -> Nat \cup {-1}]
      /\ \A t \in Target : beats[t] <= beats'[t] /\ beats'[t] <= now
      /\ beats'[next.target] = next.heartbeatAt
      /\ next # NoSelection => next.target \in Target
  BY RuntimeRecords DEF WriteCommand, RuntimeTypeOK, WithinBeats, Command
<1>1. RuntimeTypeOK'
  BY <1>u, <1>b DEF WriteCommand, RuntimeTypeOK, IInv, loopVars, streamVars, eventVars
<1>2. WithinBeats'
  <2>1. \A t \in Target : beats[t] \in Int /\ beats'[t] \in Int
    BY <1>b, RuntimeRecords
  <2>2. InTime(command)' /\ InTime(cmd)'
    <3>1. ASSUME cmd # NoSelection PROVE cmd.target \in Target /\ cmd.heartbeatAt \in Nat
      BY <3>1, RuntimeRecords DEF Command
    <3>. QED
      BY <1>u, <1>b, <2>1, <3>1 DEF WriteCommand, InTime, WithinBeats, loopVars
  <2>3. ASSUME NEW s, Covered(s),
               s # NoSelection => s.target \in Target /\ s.expiresAt \in Nat
        PROVE  s # NoSelection => s.expiresAt <= beats'[s.target] + TTL
    BY <1>b, <2>1, <2>3, TimingAssumption DEF Covered
  <2>4. Covered(pending)' /\ Covered(active)' /\ Covered(again)'
    <3>1. /\ pending # NoSelection => pending.target \in Target /\ pending.expiresAt \in Nat
          /\ active # NoSelection => active.target \in Target /\ active.expiresAt \in Nat
          /\ again # NoSelection => again.target \in Target /\ again.expiresAt \in Nat
      BY Records, RuntimeRecords DEF RuntimeTypeOK, PendingSelection, ActiveSelection
    <3>2. Covered(pending) /\ Covered(active) /\ Covered(again)
      BY DEF WithinBeats
    <3>3. pending # NoSelection => pending.expiresAt <= beats'[pending.target] + TTL
      BY <2>3, <3>1, <3>2
    <3>4. active # NoSelection => active.expiresAt <= beats'[active.target] + TTL
      BY <2>3, <3>1, <3>2
    <3>5. again # NoSelection => again.expiresAt <= beats'[again.target] + TTL
      BY <2>3, <3>1, <3>2
    <3>. QED
      BY <1>u, <3>3, <3>4, <3>5 DEF Covered, loopVars
  <2>5. LeaseWithinCommand'
    <3>1. \A i \in ActiveRows : leases[i].target \in Target /\ leases[i].expiresAt \in Nat
      BY RuntimeRecords DEF ActiveRows, Lease
    <3>. QED
      BY <1>u, <1>b, <2>1, <3>1, TimingAssumption DEF WithinBeats, LeaseWithinCommand, ActiveRows
  <2>. QED
    BY <1>u, <1>b, <2>2, <2>4, <2>5 DEF WithinBeats, loopVars
<1>3. AwaitsAgree' /\ LoopRelies'
  BY <1>u DEF AwaitsAgree, LoopRelies, loopVars
<1>4. LeaseIsHeld' /\ StreamIsHeld' /\ DeathsPay'
  BY <1>u, RowsStay DEF loopVars, streamVars, eventVars
<1>. QED
  BY <1>1, <1>2, <1>3, <1>4

LEMMA WebHolds ==
  ASSUME RuntimeInv, IInv', NEW target \in Target, WebSelect(target) \/ WebHeartbeat(target)
  PROVE  RuntimeInv'
<1>1. now \in Nat
  BY RuntimeRecords DEF RuntimeInv
<1>2. CASE WebSelect(target)
  BY <1>1, <1>2, WriteHolds DEF WebSelect, Command
<1>3. CASE WebHeartbeat(target)
  <2>1. command \in Command /\ command.requestedAt <= now
    BY <1>3, RuntimeRecords DEF WebHeartbeat, Current, RuntimeInv, WithinBeats, InTime
  <2>2. [command EXCEPT !.heartbeatAt = now] \in Command
        /\ [command EXCEPT !.heartbeatAt = now].requestedAt <= now
        /\ [command EXCEPT !.heartbeatAt = now].heartbeatAt = now
    BY <1>1, <2>1 DEF Command
  <2>. QED
    BY <1>3, <2>2, WriteHolds DEF WebHeartbeat
<1>. QED
  BY <1>2, <1>3

LEMMA CatalogChangeHolds ==
  ASSUME RuntimeInv, IInv', NEW target \in Target, NEW version \in 0..MaxVersion,
         CatalogChange(target, version)
  PROVE  RuntimeInv'
<1>. USE DEF RuntimeInv
<1>u. UNCHANGED <<now, pending, active, phase, want, opening, failed, leases, command, loopVars,
                  streamVars, eventVars, historyVars>>
  BY DEF CatalogChange, vars
<1>1. RuntimeTypeOK'
  BY <1>u DEF CatalogChange, RuntimeTypeOK, IInv, loopVars, streamVars, eventVars, historyVars
<1>2. WithinBeats'
  BY <1>u
  DEF WithinBeats, InTime, Covered, LeaseWithinCommand, ActiveRows, loopVars, historyVars
<1>3. AwaitsAgree' /\ LoopRelies'
  BY <1>u DEF AwaitsAgree, LoopRelies, loopVars
<1>4. LeaseIsHeld' /\ StreamIsHeld' /\ DeathsPay'
  BY <1>u, RowsStay DEF loopVars, streamVars, eventVars, historyVars
<1>. QED
  BY <1>1, <1>2, <1>3, <1>4

-----------------------------------------------------------------------------
(* The command loop *)

LEMMA PollHolds ==
  ASSUME RuntimeInv, IInv', Poll
  PROVE  RuntimeInv'
<1>. USE DEF RuntimeInv
<1>u. UNCHANGED <<now, pending, active, phase, want, opening, failed, dbVars, step, after, memo,
                  retryAt, opened, again, previous, fault, streamVars, eventVars, historyVars>>
  BY DEF Poll, vars
<1>c. cmd' = command \/ cmd' = NoSelection
  BY DEF Poll
<1>1. RuntimeTypeOK'
  BY <1>u, <1>c DEF Poll, Pc, RuntimeTypeOK, IInv, TypeOK, dbVars, streamVars, eventVars, historyVars
<1>2. WithinBeats'
  BY <1>u, <1>c, RuntimeRecords
  DEF Poll, WithinBeats, InTime, Covered, LeaseWithinCommand, ActiveRows, dbVars, historyVars
<1>3. AwaitsAgree' /\ LoopRelies'
  BY <1>u DEF Poll, AwaitsAgree, LoopRelies
<1>4. LeaseIsHeld' /\ StreamIsHeld' /\ DeathsPay'
  BY <1>u, RowsStay DEF dbVars, streamVars, eventVars, historyVars
<1>. QED
  BY <1>1, <1>2, <1>3, <1>4

(* The command is not served: it is dropped, or remembered for a later retry. *)
LEMMA AcceptDropsHolds ==
  ASSUME RuntimeInv, IInv', AcceptNothing \/ AcceptRejected
  PROVE  RuntimeInv'
<1>. USE DEF RuntimeInv
<1>u. UNCHANGED <<now, pending, active, phase, want, opening, failed, dbVars, step, after, tick,
                  opened, again, previous, fault, streamVars, eventVars, historyVars>>
  BY DEF AcceptNothing, AcceptRejected, vars
<1>c. /\ pc = "accept" /\ pc' = "reconcile" /\ cmd' = NoSelection
      /\ memo' \in Command \cup {NoSelection} /\ retryAt' \in Nat \cup {NoSelection}
  BY RuntimeAssumption DEF AcceptNothing, AcceptRejected, Remember, RuntimeTypeOK
<1>1. RuntimeTypeOK'
  BY <1>u, <1>c DEF Pc, RuntimeTypeOK, IInv, dbVars, streamVars, eventVars, historyVars
<1>2. WithinBeats'
  BY <1>u, <1>c
  DEF WithinBeats, InTime, Covered, LeaseWithinCommand, ActiveRows, dbVars, historyVars
<1>3. AwaitsAgree' /\ LoopRelies'
  BY <1>u, <1>c DEF AwaitsAgree, LoopRelies
<1>4. LeaseIsHeld' /\ StreamIsHeld' /\ DeathsPay'
  BY <1>u, RowsStay DEF dbVars, streamVars, eventVars, historyVars
<1>. QED
  BY <1>1, <1>2, <1>3, <1>4

LEMMA AcceptRequestHolds ==
  ASSUME RuntimeInv, IInv', AcceptRequest
  PROVE  RuntimeInv'
<1>. USE DEF RuntimeInv
<1>u. UNCHANGED <<now, active, phase, want, opening, failed, dbVars, step, after, tick,
                  opened, again, previous, fault, streamVars, eventVars, historyVars>>
  BY DEF AcceptRequest, Request
<1>c. /\ pc = "accept" /\ pc' = "reconcile" /\ cmd' = NoSelection /\ retryAt' = NoSelection
      /\ cmd \in Command /\ memo' = cmd /\ ~failed
  BY RuntimeRecords DEF AcceptRequest, Handled, Remember, Request
<1>p. pending'.target = cmd.target /\ pending'.expiresAt = cmd.heartbeatAt + TTL
  BY DEF AcceptRequest, Request
<1>1. RuntimeTypeOK'
  BY <1>u, <1>c DEF Pc, RuntimeTypeOK, IInv, dbVars, streamVars, eventVars, historyVars
<1>2. WithinBeats'
  <2>1. cmd.target \in Target /\ cmd.heartbeatAt \in Nat /\ cmd.heartbeatAt <= beats[cmd.target]
        /\ beats[cmd.target] \in Int
    BY <1>c, RuntimeRecords, NoSelectionAssumption DEF WithinBeats, InTime, Command, AcceptRequest, Handled
  <2>. QED
    BY <1>u, <1>c, <1>p, <2>1, TimingAssumption
    DEF WithinBeats, InTime, Covered, LeaseWithinCommand, ActiveRows, dbVars, historyVars
<1>3. AwaitsAgree'
  BY <1>u, <1>c DEF AwaitsAgree
<1>4. LoopRelies'
  <2>1. active # NoSelection => active.expiresAt <= tick \/ active.target # cmd.target
    <3>1. ~ServesCommand
      BY DEF AcceptRequest
    <3>2. active # NoSelection => active.expiresAt \in Nat /\ tick \in Nat
      BY Records, RuntimeRecords DEF RuntimeTypeOK, ActiveSelection
    <3>. QED
      BY <3>1, <3>2 DEF ServesCommand
  <2>. QED
    BY <1>u, <1>c, <1>p, <2>1 DEF LoopRelies
<1>5. LeaseIsHeld' /\ StreamIsHeld' /\ DeathsPay'
  BY <1>u, RowsStay DEF dbVars, streamVars, eventVars, historyVars
<1>. QED
  BY <1>1, <1>2, <1>3, <1>4, <1>5

LEMMA AcceptHeartbeatHolds ==
  ASSUME RuntimeInv, IInv', AcceptHeartbeat
  PROVE  RuntimeInv'
<1>. USE DEF RuntimeInv
<1>u. UNCHANGED <<now, pending, phase, want, opening, failed, command, catalog, step, after, tick,
                  opened, again, previous, streamVars, eventVars, historyVars>>
  BY DEF AcceptHeartbeat, Heartbeat, vars
<1>c. /\ pc = "accept" /\ pc' \in {"reconcile", "shutdown"} /\ cmd' = NoSelection
      /\ retryAt' = NoSelection /\ cmd \in Command /\ memo' = cmd
      /\ fault' \in {fault, "heartbeat"}
  BY RuntimeRecords DEF AcceptHeartbeat, Handled, Remember
<1>a. /\ active \in ActiveSelection /\ active # NoSelection /\ active.target = cmd.target
      /\ active.expiresAt > tick
  BY Records DEF RuntimeTypeOK, AcceptHeartbeat, ServesCommand
<1>f. ~failed /\ phase = "idle"
  BY <1>c DEF LoopRelies, AwaitsAgree
<1>b. /\ cmd.target \in Target /\ cmd.heartbeatAt \in Nat /\ beats[cmd.target] \in Int
      /\ cmd.heartbeatAt <= beats[cmd.target] /\ cmd.heartbeatAt + TTL \in Nat
  BY <1>c, RuntimeRecords, TimingAssumption
  DEF WithinBeats, InTime, Command, AcceptHeartbeat, Handled
<1>1. CASE UNCHANGED <<vars, leases>>
  <2>1. RuntimeTypeOK'
    BY <1>u, <1>c, <1>1 DEF Pc, RuntimeTypeOK, IInv, streamVars, eventVars, historyVars
  <2>2. WithinBeats'
    BY <1>u, <1>c, <1>1
    DEF WithinBeats, InTime, Covered, LeaseWithinCommand, ActiveRows, vars, historyVars
  <2>3. AwaitsAgree' /\ LoopRelies'
    BY <1>u, <1>c, <1>1 DEF AwaitsAgree, LoopRelies, vars
  <2>4. LeaseIsHeld' /\ StreamIsHeld' /\ DeathsPay'
    BY <1>u, <1>1, RowsStay DEF vars, streamVars, eventVars, historyVars
  <2>. QED
    BY <2>1, <2>2, <2>3, <2>4
<1>2. CASE /\ active.id \in ActiveRows /\ Heartbeat(cmd.heartbeatAt)
           /\ leases' = [leases EXCEPT ![active.id].heartbeatAt = cmd.heartbeatAt,
                                       ![active.id].expiresAt = cmd.heartbeatAt + TTL]
  <2>i. active.id \in Id /\ leases[active.id] \in Lease /\ leases[active.id].status = "active"
        /\ leases[active.id] # NoSelection
    BY <1>2, RuntimeRecords DEF ActiveRows
  <2>a. /\ active' \in ActiveSelection /\ active' # NoSelection /\ active'.id = active.id
        /\ active'.target = active.target /\ active'.expiresAt = cmd.heartbeatAt + TTL
    <3>1. active' = Renew(active, cmd.heartbeatAt, cmd.heartbeatAt + TTL)
      BY <1>2 DEF Heartbeat
    <3>2. Renew(active, cmd.heartbeatAt, cmd.heartbeatAt + TTL).expiresAt = cmd.heartbeatAt + TTL
      BY <1>a DEF Renew, ActiveSelection
    <3>. QED
      BY <1>a, <1>b, <3>1, <3>2, Renewed
  <2>r. /\ leases' \in [Id -> Lease \cup {NoSelection}]
        /\ \A i \in Id : i # active.id => leases'[i] = leases[i]
        /\ leases'[active.id] \in Lease /\ leases'[active.id] # NoSelection
        /\ leases'[active.id].status = "active"
        /\ leases'[active.id].target = leases[active.id].target
        /\ leases'[active.id].expiresAt = cmd.heartbeatAt + TTL
    <3>. DEFINE mid == [leases[active.id] EXCEPT !.heartbeatAt = cmd.heartbeatAt]
                row == [mid EXCEPT !.expiresAt = cmd.heartbeatAt + TTL]
    <3>1. mid \in Lease /\ mid.target = leases[active.id].target /\ mid.status = "active"
      BY <1>b, <2>i DEF Lease
    <3>2. row \in Lease /\ row.target = leases[active.id].target /\ row.status = "active"
          /\ row.expiresAt = cmd.heartbeatAt + TTL
      <4>. HIDE DEF mid
      <4>. QED
        BY <1>b, <3>1 DEF Lease
    <3>3. leases' = [leases EXCEPT ![active.id] = row]
      BY <1>2, <2>i DEF RuntimeTypeOK
    <3>4. row # NoSelection
      BY <3>2, NoLeaseAssumption
    <3>. HIDE DEF row, mid
    <3>. QED
      BY <2>i, <3>2, <3>3, <3>4 DEF RuntimeTypeOK
  <2>s. ActiveRows' = ActiveRows /\ Unacknowledged' = Unacknowledged
    BY <1>u, <2>i, <2>r DEF ActiveRows, Unacknowledged
  <2>h. /\ emitting = active.id /\ leases[active.id].target = active.target
        /\ stream = [target |-> active.target, version |-> definition]
    BY <1>a, <1>f DEF LeaseIsHeld, RunsUnder, StreamIsHeld
  <2>p. step = "none" /\ previous = NoSelection
    BY <1>c DEF AwaitsAgree, LeaseIsHeld
  <2>1. RuntimeTypeOK'
    BY <1>u, <1>c, <2>r DEF Pc, RuntimeTypeOK, IInv, streamVars, eventVars, historyVars
  <2>2. WithinBeats'
    <3>1. LeaseWithinCommand'
      <4>1. ASSUME NEW i \in ActiveRows
            PROVE  leases'[i].expiresAt <= beats[leases'[i].target] + TTL
        <5>1. CASE i = active.id
          BY <1>a, <1>b, <2>r, <2>h, <5>1, TimingAssumption
        <5>2. CASE i # active.id
          BY <2>r, <5>2 DEF ActiveRows, WithinBeats, LeaseWithinCommand
        <5>. QED
          BY <5>1, <5>2
      <4>. QED
        BY <1>u, <2>s, <4>1 DEF LeaseWithinCommand, historyVars
    <3>. QED
      BY <1>u, <1>c, <1>a, <1>b, <2>a, <3>1, TimingAssumption
      DEF WithinBeats, InTime, Covered, historyVars
  <2>3. AwaitsAgree' /\ LoopRelies'
    <3>1. pending # NoSelection => active.target # pending.target
      BY <1>a, <1>c, <1>f, RuntimeRecords DEF LoopRelies, ActiveSelection
    <3>. QED
      BY <1>u, <1>c, <1>f, <2>a, <3>1 DEF AwaitsAgree, LoopRelies
  <2>4. LeaseIsHeld'
    BY <1>u, <1>a, <2>i, <2>a, <2>r, <2>s, <2>h, <2>p
    DEF LeaseIsHeld, RunsUnder, OneActiveLease, streamVars, Leased
  <2>5. StreamIsHeld'
    <3>1. StreamsUnderLease'
      BY <1>u, <1>2, <2>r, <2>s, <2>h DEF StreamsUnderLease, streamVars
    <3>. QED
      BY <1>u, <1>a, <1>f, <2>a, <2>s, <2>h, <2>p, <3>1
      DEF StreamIsHeld, Drained, Subscribing, streamVars, eventVars
  <2>6. DeathsPay'
    BY <1>u, <2>a, <2>s, <2>p, DeathsGoOnPaying DEF Orphaned, historyVars
  <2>. QED
    BY <2>1, <2>2, <2>3, <2>4, <2>5, <2>6
<1>. QED
  BY <1>1, <1>2 DEF AcceptHeartbeat, RowTakesBeat

(***************************************************************************)
(* A transition of the controller opens no lease by itself: whatever       *)
(* Decide does with the selection the loop or a clean-up leaves it, it     *)
(* keeps it as it is, switches away from it, or starts to subscribe.       *)
(***************************************************************************)
LEMMA DecideOptions ==
  ASSUME RuntimeInv, NEW t \in Nat, NEW current \in ActiveSelection \cup {NoSelection},
         Decide(t, current), UnusedId,
         current # NoSelection /\ pending # NoSelection => current.target # pending.target
  PROVE  \/ /\ phase' = "idle" /\ active' = current
            /\ pending' \in {pending, NoSelection} /\ want' = NoSelection
         \/ /\ phase' = "switching" /\ active' = current /\ current # NoSelection
            /\ pending' = pending /\ want' = pending /\ pending # NoSelection
         \/ /\ phase' = "subscribing" /\ active' = NoSelection /\ current = NoSelection
            /\ pending' = pending /\ want' = pending /\ pending # NoSelection
            /\ opening' \in Id
            /\ leases[opening'] # NoSelection => leases[opening'].status = "cleaned"
<1>1. CASE ~Due(t) \/ Lapsed(t)
  BY <1>1 DEF Decide, Keep, Release, Due, Lapsed
<1>2. CASE Due(t) /\ ~Lapsed(t)
  <2>1. pending # NoSelection /\ ~Matches(current)
    BY <1>2 DEF Due, Matches
  <2>2. CASE current # NoSelection
    BY <1>2, <2>1, <2>2 DEF Decide
  <2>3. CASE current = NoSelection
    <3>1. StartSubscribe(t)
      BY <1>2, <2>1, <2>3 DEF Decide
    <3>2. opening' \in Id /\ opening' # NoSelection
      BY <3>1, NoSelectionAssumption DEF StartSubscribe
    <3>. QED
      BY <2>1, <2>3, <3>1, <3>2 DEF StartSubscribe, UnusedId
  <2>. QED
    BY <2>2, <2>3
<1>. QED
  BY <1>1, <1>2

LEMMA ReconcileStepHolds ==
  ASSUME RuntimeInv, IInv', ReconcileStep
  PROVE  RuntimeInv'
<1>. USE DEF RuntimeInv
<1>u. UNCHANGED <<now, failed, dbVars, after, tick, cmd, memo, retryAt, opened, again, previous,
                  fault, streamVars, eventVars, historyVars>>
  BY DEF ReconcileStep, Reconcile
<1>c. /\ pc = "reconcile" /\ step = "none" /\ phase = "idle" /\ ~failed /\ previous = NoSelection
      /\ after = "none" /\ pc' = (IF phase' = "idle" THEN "refresh" ELSE "transit")
      /\ step' = Entered
  BY DEF ReconcileStep, Reconcile, AwaitsAgree, LeaseIsHeld
<1>d. \/ /\ phase' = "expiring" /\ active # NoSelection
         /\ UNCHANGED <<active, pending, want, opening>>
      \/ /\ phase' = "idle" /\ active' = active
         /\ pending' \in {pending, NoSelection} /\ want' = NoSelection
         /\ active # NoSelection /\ pending # NoSelection => active.target # pending.target
      \/ /\ phase' = "switching" /\ active' = active /\ active # NoSelection
         /\ pending' = pending /\ want' = pending /\ pending # NoSelection
      \/ /\ phase' = "subscribing" /\ active' = NoSelection /\ active = NoSelection
         /\ pending' = pending /\ want' = pending /\ pending # NoSelection
         /\ opening' \in Id
         /\ leases[opening'] # NoSelection => leases[opening'].status = "cleaned"
  <2>1. CASE Expired(tick)
    BY <2>1 DEF ReconcileStep, Reconcile, Expired
  <2>2. CASE ~Expired(tick)
    <3>1. Decide(tick, active) /\ UnusedId
      BY <2>2 DEF ReconcileStep, Reconcile
    <3>2. active # NoSelection /\ pending # NoSelection => active.target # pending.target
      BY <1>c, <2>2 DEF LoopRelies, Expired
    <3>3. tick \in Nat /\ active \in ActiveSelection \cup {NoSelection}
      BY DEF RuntimeTypeOK, TypeOK
    <3>. QED
      BY <3>1, <3>2, <3>3, DecideOptions
  <2>. QED
    BY <2>1, <2>2
<1>1. RuntimeTypeOK'
  BY <1>u, <1>c DEF Entered, Pc, Step, RuntimeTypeOK, IInv, dbVars, streamVars, eventVars, historyVars
<1>2. WithinBeats'
  BY <1>u, <1>d
  DEF WithinBeats, InTime, Covered, LeaseWithinCommand, ActiveRows, dbVars, historyVars
<1>3. AwaitsAgree' /\ LoopRelies'
  BY <1>u, <1>c, <1>d DEF Entered, Subscribing, AwaitsAgree, LoopRelies
<1>4. LeaseIsHeld'
  BY <1>u, <1>c, <1>d
  DEF Entered, Leased, LeaseIsHeld, RunsUnder, OneActiveLease, ActiveRows, dbVars, streamVars
<1>5. StreamIsHeld'
  BY <1>u, <1>c, <1>d
  DEF Entered, Subscribing, StreamIsHeld, StreamsUnderLease, Drained, ActiveRows, dbVars, streamVars,
      eventVars
<1>6. DeathsPay'
  BY <1>u, <1>c, <1>d, DeathsGoOnPaying
  DEF Entered, Leased, Orphaned, Unacknowledged, ActiveRows, dbVars, historyVars
<1>. QED
  BY <1>1, <1>2, <1>3, <1>4, <1>5, <1>6

-----------------------------------------------------------------------------
(* _unsubscribe *)

LEMMA StopStreamsHolds ==
  ASSUME RuntimeInv, IInv', StopStreams
  PROVE  RuntimeInv'
<1>. USE DEF RuntimeInv
<1>u. UNCHANGED <<now, pending, active, phase, want, opening, failed, dbVars, pc, after, tick, cmd,
                  memo, retryAt, opened, again, previous, fault, emitting, definition, checkAt,
                  eventVars, historyVars>>
  BY DEF StopStreams, vars
<1>c. step = "unsubscribe" /\ step' = "flush" /\ stream' = NoSelection
      /\ phase \in {"expiring", "switching", "stopping"}
  BY DEF StopStreams, AwaitsAgree
<1>1. RuntimeTypeOK'
  BY <1>u, <1>c DEF Step, RuntimeTypeOK, IInv, dbVars, eventVars, historyVars
<1>2. WithinBeats'
  BY <1>u
  DEF WithinBeats, InTime, Covered, LeaseWithinCommand, ActiveRows, dbVars, historyVars
<1>3. AwaitsAgree' /\ LoopRelies'
  BY <1>u, <1>c DEF Subscribing, AwaitsAgree, LoopRelies
<1>4. LeaseIsHeld'
  BY <1>u, <1>c DEF Leased, LeaseIsHeld, RunsUnder, OneActiveLease, ActiveRows, dbVars
<1>5. StreamIsHeld'
  BY <1>u, <1>c
  DEF Subscribing, StreamIsHeld, StreamsUnderLease, Drained, ActiveRows, dbVars, eventVars
<1>6. DeathsPay'
  BY <1>u, <1>c, DeathsGoOnPaying
  DEF Leased, Orphaned, Unacknowledged, ActiveRows, dbVars, historyVars
<1>. QED
  BY <1>1, <1>2, <1>3, <1>4, <1>5, <1>6

(* Closing a row leaves the others as they are; a closed row is not active.  *)
LEMMA Closed ==
  ASSUME RuntimeInv, NEW id \in Id, leases[id] # NoSelection, leases' = Close(id)
  PROVE  /\ leases' \in [Id -> Lease \cup {NoSelection}]
         /\ ActiveRows' = ActiveRows \ {id}
         /\ \A i \in Id : i # id => leases'[i] = leases[i]
         /\ leases'[id] # NoSelection /\ leases'[id].status = "cleaned"
         /\ previous' = previous /\ leases[id].status = "active" =>
              Unacknowledged' = Unacknowledged
<1>. USE DEF RuntimeInv
<1>. DEFINE row == [leases[id] EXCEPT !.status = "cleaned"]
<1>1. leases[id] \in Lease
  BY RuntimeRecords
<1>2. row \in Lease /\ row.status = "cleaned" /\ row # NoSelection
  BY <1>1, NoLeaseAssumption DEF Lease
<1>3. leases' = [leases EXCEPT ![id] = row]
  BY DEF Close
<1>. HIDE DEF row
<1>4. /\ leases' \in [Id -> Lease \cup {NoSelection}]
      /\ \A i \in Id : i # id => leases'[i] = leases[i]
      /\ leases'[id] = row
  BY <1>2, <1>3 DEF RuntimeTypeOK
<1>5. ActiveRows' = ActiveRows \ {id}
  BY <1>2, <1>4 DEF ActiveRows
<1>6. previous' = previous /\ leases[id].status = "active" => Unacknowledged' = Unacknowledged
  BY <1>2, <1>4 DEF Unacknowledged
<1>. QED
  BY <1>2, <1>4, <1>5, <1>6

LEMMA CloseLeaseHolds ==
  ASSUME RuntimeInv, IInv', CloseLease
  PROVE  RuntimeInv'
<1>. USE DEF RuntimeInv
<1>u. UNCHANGED <<now, failed, command, catalog, cmd, memo, retryAt, opened, again, previous,
                  fault, stream, eventVars, historyVars>>
  BY DEF CloseLease, CleanupDone
<1>c. /\ step = "flush" /\ pc = "transit" /\ Drained /\ active.id \in ActiveRows /\ stream = NoSelection
      /\ previous = NoSelection /\ step' = Entered /\ pc' = Continue /\ after' = "none"
      /\ definition' = 0 /\ checkAt' = NoSelection /\ emitting' = NoSelection
      /\ tick' \in {0, tick}
  BY DEF CloseLease, ForgetStream, NextTurn, AwaitsAgree, LeaseIsHeld, StreamIsHeld
<1>d. /\ active' = NoSelection
      /\ \/ /\ phase' = "idle" /\ pending' \in {pending, NoSelection} /\ want' = NoSelection
         \/ /\ phase' = "subscribing" /\ pending' = pending /\ want' = pending
            /\ pending # NoSelection /\ opening' \in Id /\ phase # "stopping"
            /\ leases[opening'] # NoSelection => leases[opening'].status = "cleaned"
  <2>1. CASE phase = "expiring" /\ Decide(at, NoSelection)
    <3>1. at \in Nat /\ UnusedId
      BY DEF RuntimeTypeOK, TypeOK, CloseLease
    <3>. QED
      BY <2>1, <3>1, DecideOptions
  <2>2. CASE phase = "switching" /\ StartSubscribe(at)
    <3>1. pending = want /\ pending # NoSelection /\ UnusedId
      BY <2>2 DEF AwaitsAgree, CloseLease
    <3>2. opening' \in Id /\ opening' # NoSelection
      BY <2>2, NoSelectionAssumption DEF StartSubscribe
    <3>. QED
      BY <2>2, <3>1, <3>2 DEF StartSubscribe, UnusedId
  <2>3. CASE Keep(NoSelection) /\ UNCHANGED pending
    BY <2>3 DEF Keep, Release
  <2>. QED
    BY <2>1, <2>2, <2>3 DEF CloseLease, CleanupDone
<1>r. /\ leases' \in [Id -> Lease \cup {NoSelection}]
      /\ ActiveRows' = {} /\ Unacknowledged' = Unacknowledged
      /\ \A i \in Id : i # active.id => leases'[i] = leases[i]
      /\ leases'[active.id].status = "cleaned"
  <2>1. active.id \in Id /\ leases[active.id] # NoSelection /\ leases[active.id].status = "active"
        /\ leases' = Close(active.id)
    BY <1>c DEF ActiveRows, CloseLease
  <2>2. ActiveRows \ {active.id} = {}
    BY <1>c DEF LeaseIsHeld, OneActiveLease
  <2>. QED
    BY <1>u, <2>1, <2>2, Closed
<1>e. \/ /\ phase' = "idle" /\ step' = "none"
         /\ pc' \in {"refresh", "poll", "resubscribe", "exit"}
      \/ phase' = "subscribing" /\ step' = "lookup" /\ pc' = "transit"
  <2>1. after \in {"none", "retry", "resubscribe", "exit"}
    BY DEF RuntimeTypeOK
  <2>2. CASE phase' = "idle"
    <3>1. step' = "none"
      BY <1>c, <2>2 DEF Entered
    <3>2. Continue \in {"refresh", "poll", "resubscribe", "exit"}
      BY <2>1, <2>2 DEF Continue
    <3>. QED
      BY <1>c, <2>2, <3>1, <3>2
  <2>3. CASE phase' = "subscribing"
    <3>1. step' = "lookup"
      BY <1>c, <2>3 DEF Entered
    <3>2. Continue = "transit"
      BY <2>3 DEF Continue
    <3>. QED
      BY <1>c, <2>3, <3>1, <3>2
  <2>. QED
    BY <1>d, <2>2, <2>3
<1>1. RuntimeTypeOK'
  <2>1. pc' \in Pc /\ step' \in Step
    BY <1>e DEF Pc, Step
  <2>2. tick' \in Nat
    BY <1>c DEF RuntimeTypeOK
  <2>3. /\ after' \in {"none", "retry", "resubscribe", "exit"} /\ emitting' \in Id \cup {NoSelection}
        /\ definition' \in 0..MaxVersion /\ checkAt' \in Nat \cup {NoSelection}
    BY <1>c, RuntimeAssumption
  <2>. QED
    BY <1>u, <1>r, <2>1, <2>2, <2>3 DEF RuntimeTypeOK, IInv, eventVars, historyVars
<1>2. WithinBeats'
  <2>1. tick' <= now
    BY <1>c, RuntimeRecords DEF WithinBeats
  <2>. QED
    BY <1>u, <1>d, <1>r, <2>1 DEF WithinBeats, InTime, Covered, LeaseWithinCommand, historyVars
<1>3. AwaitsAgree'
  BY <1>c, <1>d, <1>e DEF Subscribing, AwaitsAgree
<1>4. LoopRelies'
  BY <1>u, <1>c, <1>d DEF Continue, AwaitsAgree, LoopRelies, RuntimeTypeOK
<1>5. LeaseIsHeld'
  <2>1. OneActiveLease'
    BY <1>r DEF OneActiveLease
  <2>2. phase' = "subscribing" /\ leases'[opening'] # NoSelection =>
          leases'[opening'].status = "cleaned"
    BY <1>d, <1>r
  <2>. QED
    BY <1>u, <1>c, <1>d, <1>e, <2>1, <2>2 DEF LeaseIsHeld, Leased
<1>6. StreamIsHeld'
  BY <1>u, <1>c, <1>d DEF StreamIsHeld, StreamsUnderLease, Drained, eventVars
<1>7. DeathsPay'
  BY <1>u, <1>c, <1>r, DeathsGoOnPaying DEF Orphaned, historyVars
<1>. QED
  BY <1>1, <1>2, <1>3, <1>4, <1>5, <1>6, <1>7

LEMMA CleanupGivesUpHolds ==
  ASSUME RuntimeInv, IInv', CleanupGivesUp
  PROVE  RuntimeInv'
<1>. USE DEF RuntimeInv
<1>u. UNCHANGED <<now, pending, active, command, catalog, tick, cmd, memo, retryAt, opened, again,
                  previous, streamVars, eventVars, historyVars>>
  BY DEF CleanupGivesUp, CleanupFails
<1>c. /\ step \in {"unsubscribe", "flush"} /\ phase' = "idle" /\ want' = NoSelection /\ failed'
      /\ fault' = "cleanup" /\ step' = "none" /\ pc' \in {"exit", "shutdown"} /\ after' = "none"
      /\ previous = NoSelection /\ active \in ActiveSelection /\ active # NoSelection
  <2>1. phase \in {"expiring", "switching", "stopping"} /\ step \in {"unsubscribe", "flush"}
    BY DEF CleanupGivesUp, AwaitsAgree
  <2>2. active \in ActiveSelection
    BY <2>1 DEF IInv, Held
  <2>. QED
    BY <2>1, <2>2, NoSelectionAssumption DEF CleanupGivesUp, CleanupFails, Release, LeaseIsHeld
<1>r. \/ leases' = leases
      \/ /\ stream = NoSelection /\ Drained
         /\ leases' \in [Id -> Lease \cup {NoSelection}]
         /\ ActiveRows' = {} /\ Unacknowledged' = Unacknowledged
  <2>1. CASE leases' = Close(active.id) /\ step = "flush" /\ Drained /\ active.id \in ActiveRows
    <3>1. active.id \in Id /\ leases[active.id] # NoSelection /\ leases[active.id].status = "active"
      BY <2>1 DEF ActiveRows
    <3>2. ActiveRows \ {active.id} = {}
      BY <2>1 DEF LeaseIsHeld, OneActiveLease
    <3>. QED
      BY <1>u, <2>1, <3>1, <3>2, Closed DEF StreamIsHeld
  <2>. QED
    BY <2>1 DEF CleanupGivesUp
<1>1. RuntimeTypeOK'
  BY <1>u, <1>c, <1>r DEF Pc, Step, RuntimeTypeOK, IInv, streamVars, eventVars, historyVars
<1>2. WithinBeats'
  BY <1>u, <1>r
  DEF WithinBeats, InTime, Covered, LeaseWithinCommand, ActiveRows, historyVars
<1>3. AwaitsAgree' /\ LoopRelies'
  BY <1>c DEF Subscribing, AwaitsAgree, LoopRelies
<1>4. LeaseIsHeld'
  BY <1>u, <1>c, <1>r DEF Leased, LeaseIsHeld, OneActiveLease, ActiveRows
<1>5. StreamIsHeld'
  BY <1>u, <1>c, <1>r
  DEF Subscribing, StreamIsHeld, StreamsUnderLease, Drained, ActiveRows, streamVars, eventVars
<1>6. DeathsPay'
  <2>1. Unacknowledged' = Unacknowledged
    BY <1>u, <1>r DEF Unacknowledged
  <2>. QED
    BY <1>u, <1>c, <2>1, DeathsGoOnPaying DEF Orphaned, historyVars
<1>. QED
  BY <1>1, <1>2, <1>3, <1>4, <1>5, <1>6

LEMMA ResubscribeHolds ==
  ASSUME RuntimeInv, IInv', Resubscribe
  PROVE  RuntimeInv'
<1>. USE DEF RuntimeInv
<1>u. UNCHANGED <<now, active, phase, want, opening, failed, dbVars, step, after, cmd, memo, retryAt,
                  opened, previous, fault, streamVars, eventVars, historyVars>>
  BY DEF Resubscribe, Request
<1>c. /\ pc = "resubscribe" /\ pc' = "poll" /\ again' = NoSelection /\ tick' = 0
      /\ active = NoSelection /\ ~failed /\ again # NoSelection
      /\ pending'.target = again.target /\ pending'.expiresAt = again.expiresAt
  BY DEF Resubscribe, Request, NextTurn, LoopRelies
<1>1. RuntimeTypeOK'
  BY <1>u, <1>c DEF Pc, RuntimeTypeOK, IInv, dbVars, streamVars, eventVars, historyVars
<1>2. WithinBeats'
  BY <1>u, <1>c, RuntimeRecords
  DEF WithinBeats, InTime, Covered, LeaseWithinCommand, ActiveRows, dbVars, historyVars
<1>3. AwaitsAgree' /\ LoopRelies'
  BY <1>u, <1>c DEF AwaitsAgree, LoopRelies
<1>4. LeaseIsHeld' /\ StreamIsHeld' /\ DeathsPay'
  BY <1>u, RowsStay DEF dbVars, streamVars, eventVars, historyVars
<1>. QED
  BY <1>1, <1>2, <1>3, <1>4

-----------------------------------------------------------------------------
(* _subscribe *)

LEMMA LookupHolds ==
  ASSUME RuntimeInv, IInv', Lookup
  PROVE  RuntimeInv'
<1>. USE DEF RuntimeInv
<1>u. UNCHANGED <<now, pending, active, dbVars, after, tick, cmd, memo, retryAt, again, previous,
                  fault, streamVars, eventVars, historyVars>>
  BY DEF Lookup, SubscribeFails, vars
<1>c. /\ step = "lookup" /\ pc = "transit" /\ phase = "subscribing" /\ active = NoSelection /\ ~failed
      /\ after = "none" /\ previous = NoSelection
  BY DEF Lookup, Subscribing, AwaitsAgree, LeaseIsHeld, IInv, Held
<1>s. stream = NoSelection /\ Drained
  BY <1>c DEF StreamIsHeld, Subscribing
<1>a. CASE /\ phase' = "idle" /\ want' = NoSelection /\ ~failed' /\ pc' = "reject" /\ step' = "none"
           /\ opened' = opened
  <2>1. RuntimeTypeOK'
    BY <1>u, <1>a DEF Pc, Step, RuntimeTypeOK, IInv, dbVars, streamVars, eventVars, historyVars
  <2>2. WithinBeats'
    BY <1>u
    DEF WithinBeats, InTime, Covered, LeaseWithinCommand, ActiveRows, dbVars, historyVars
  <2>3. AwaitsAgree' /\ LoopRelies'
    BY <1>u, <1>c, <1>a DEF Subscribing, AwaitsAgree, LoopRelies
  <2>4. LeaseIsHeld'
    BY <1>u, <1>c, <1>a DEF Leased, LeaseIsHeld, OneActiveLease, ActiveRows, dbVars
  <2>5. StreamIsHeld'
    BY <1>u, <1>c, <1>s, <1>a
    DEF Subscribing, StreamIsHeld, StreamsUnderLease, Drained, streamVars, eventVars
  <2>6. DeathsPay'
    BY <1>u, <1>c, <1>a, DeathsGoOnPaying
    DEF Leased, Orphaned, Unacknowledged, ActiveRows, dbVars, historyVars
  <2>. QED
    BY <2>1, <2>2, <2>3, <2>4, <2>5, <2>6
<1>b. CASE /\ UNCHANGED <<vars, pc>> /\ step' = "activate"
           /\ opened' = [at |-> now, version |-> catalog[want.target]] /\ catalog[want.target] # 0
  <2>u. UNCHANGED <<phase, want, opening, failed>>
    BY <1>b DEF vars
  <2>1. RuntimeTypeOK'
    <3>1. want.target \in Target /\ catalog[want.target] \in 0..MaxVersion /\ now \in Nat
      BY <1>c, RuntimeRecords DEF IInv, Held, PendingSelection, RuntimeTypeOK
    <3>. QED
      BY <1>u, <1>b, <3>1 DEF Step, RuntimeTypeOK, IInv, dbVars, streamVars, eventVars, historyVars
  <2>2. WithinBeats'
    BY <1>u
    DEF WithinBeats, InTime, Covered, LeaseWithinCommand, ActiveRows, dbVars, historyVars
  <2>3. AwaitsAgree' /\ LoopRelies'
    BY <1>u, <1>c, <1>b, <2>u DEF Subscribing, AwaitsAgree, LoopRelies
  <2>4. LeaseIsHeld'
    BY <1>u, <1>c, <1>b, <2>u DEF Leased, LeaseIsHeld, OneActiveLease, ActiveRows, dbVars
  <2>5. StreamIsHeld'
    BY <1>u, <1>c, <1>s, <1>b, <2>u
    DEF Subscribing, StreamIsHeld, StreamsUnderLease, Drained, streamVars, eventVars
  <2>6. DeathsPay'
    BY <1>u, <1>c, <1>b, DeathsGoOnPaying
    DEF Leased, Orphaned, Unacknowledged, ActiveRows, dbVars, historyVars
  <2>. QED
    BY <2>1, <2>2, <2>3, <2>4, <2>5, <2>6
<1>. QED
  BY <1>a, <1>b DEF Lookup, SubscribeFails, Release

(* The activation fails: nothing is written, and the loop ends. *)
LEMMA ActivateFailsHolds ==
  ASSUME RuntimeInv, IInv', Activate, ~Activatable
  PROVE  RuntimeInv'
<1>. USE DEF RuntimeInv
<1>u. UNCHANGED <<now, pending, active, dbVars, after, tick, cmd, memo, retryAt, again, previous,
                  streamVars, eventVars, historyVars>>
  BY DEF Activate, SubscribeFails, dbVars
<1>c. /\ step = "activate" /\ pc = "transit" /\ phase = "subscribing" /\ active = NoSelection
      /\ after = "none" /\ previous = NoSelection
  BY DEF Activate, Subscribing, AwaitsAgree, LeaseIsHeld, IInv, Held
<1>d. /\ phase' = "idle" /\ want' = NoSelection /\ failed' /\ pc' = "shutdown" /\ step' = "none"
      /\ fault' = "activation" /\ opened' = NothingOpened
  BY DEF Activate, SubscribeFails, Release
<1>s. stream = NoSelection /\ Drained
  BY <1>c DEF StreamIsHeld, Subscribing
<1>1. RuntimeTypeOK'
  BY <1>u, <1>d, RuntimeAssumption
  DEF Pc, Step, NothingOpened, RuntimeTypeOK, IInv, dbVars, streamVars, eventVars, historyVars
<1>2. WithinBeats'
  BY <1>u
  DEF WithinBeats, InTime, Covered, LeaseWithinCommand, ActiveRows, dbVars, historyVars
<1>3. AwaitsAgree' /\ LoopRelies'
  BY <1>u, <1>c, <1>d DEF Subscribing, AwaitsAgree, LoopRelies
<1>4. LeaseIsHeld'
  BY <1>u, <1>c, <1>d DEF Leased, LeaseIsHeld, OneActiveLease, ActiveRows, dbVars
<1>5. StreamIsHeld'
  BY <1>u, <1>c, <1>s, <1>d
  DEF Subscribing, StreamIsHeld, StreamsUnderLease, Drained, streamVars, eventVars
<1>6. DeathsPay'
  BY <1>u, <1>c, <1>d, DeathsGoOnPaying
  DEF Leased, Orphaned, Unacknowledged, ActiveRows, dbVars, historyVars
<1>. QED
  BY <1>1, <1>2, <1>3, <1>4, <1>5, <1>6

LEMMA ActivateHolds ==
  ASSUME RuntimeInv, IInv', Activate, Activatable
  PROVE  RuntimeInv'
<1>. USE DEF RuntimeInv
<1>. DEFINE row == [target |-> want.target, activatedAt |-> opened.at, heartbeatAt |-> opened.at,
                    expiresAt |-> pending.expiresAt, status |-> "active"]
<1>u. UNCHANGED <<vars, command, catalog, pc, after, tick, cmd, memo, retryAt, opened, again, fault,
                  streamVars, eventVars, historyVars>>
  BY DEF Activate
<1>v. UNCHANGED <<now, pending, active, phase, want, opening, failed>>
  BY <1>u DEF vars
<1>c. /\ step = "activate" /\ step' = "ack" /\ pc = "transit" /\ phase = "subscribing"
      /\ active = NoSelection /\ ~failed /\ previous = NoSelection /\ opened.version # 0
      /\ opening \in Id /\ opening \notin ActiveRows /\ pending = want /\ want \in PendingSelection
      /\ want # NoSelection
      /\ leases[opening] # NoSelection => leases[opening].status = "cleaned"
  BY DEF Activate, Subscribing, AwaitsAgree, LeaseIsHeld, IInv, Held, ActiveRows
<1>s. stream = NoSelection /\ Drained
  BY <1>c DEF StreamIsHeld, Subscribing
<1>w. row \in Lease /\ row # NoSelection /\ row.status = "active" /\ row.target = want.target
      /\ row.expiresAt = want.expiresAt /\ want.target \in Target /\ want.expiresAt \in Nat
  <2>1. want.target \in Target /\ want.expiresAt \in Nat /\ opened.at \in Nat
    BY <1>c DEF PendingSelection, RuntimeTypeOK
  <2>. QED
    BY <1>c, <2>1, NoLeaseAssumption DEF Lease
<1>. HIDE DEF row
<1>p. /\ ActiveRows = {} => previous' = NoSelection
      /\ ActiveRows # {} => previous' \in ActiveRows /\ ActiveRows = {previous'}
  BY DEF Activate, LeaseIsHeld, OneActiveLease
<1>r. /\ leases' \in [Id -> Lease \cup {NoSelection}]
      /\ leases'[opening] = row
      /\ \A i \in ActiveRows : leases'[i] # NoSelection /\ leases'[i].status = "superseded"
      /\ \A i \in Id : i # opening /\ i \notin ActiveRows => leases'[i] = leases[i]
  <2>1. leases' = [Supersede(ActiveRows) EXCEPT ![opening] = row]
    BY DEF Activate, row
  <2>2. ASSUME NEW i \in ActiveRows
        PROVE  [leases[i] EXCEPT !.status = "superseded"] \in Lease
               /\ [leases[i] EXCEPT !.status = "superseded"].status = "superseded"
    BY <2>2, RuntimeRecords DEF ActiveRows, Lease
  <2>3. Supersede(ActiveRows) \in [Id -> Lease \cup {NoSelection}]
    BY <2>2 DEF Supersede, RuntimeTypeOK
  <2>4. \A i \in ActiveRows : Supersede(ActiveRows)[i] # NoSelection
                               /\ Supersede(ActiveRows)[i].status = "superseded"
    BY <2>2, NoLeaseAssumption DEF Supersede, ActiveRows
  <2>5. \A i \in Id \ ActiveRows : Supersede(ActiveRows)[i] = leases[i]
    BY DEF Supersede
  <2>. QED
    BY <1>c, <1>w, <2>1, <2>3, <2>4, <2>5 DEF ActiveRows
<1>n. ActiveRows' = {opening} /\ Unacknowledged' = Unacknowledged
  <2>1. ActiveRows' = {opening}
    BY <1>c, <1>w, <1>r DEF ActiveRows
  <2>2. ASSUME NEW i \in Id PROVE i \in Unacknowledged' <=> i \in Unacknowledged
    <3>1. CASE i = opening
      BY <1>c, <1>w, <1>r, <3>1 DEF Unacknowledged
    <3>2. CASE i \in ActiveRows
      BY <1>p, <3>2 DEF Unacknowledged, ActiveRows
    <3>3. CASE i # opening /\ i \notin ActiveRows
      BY <1>c, <1>p, <1>r, <3>3, NoSelectionAssumption DEF Unacknowledged
    <3>. QED
      BY <3>1, <3>2, <3>3
  <2>. QED
    BY <2>1, <2>2 DEF Unacknowledged
<1>1. RuntimeTypeOK'
  <2>1. previous' \in Id \cup {NoSelection}
    BY <1>p DEF ActiveRows
  <2>. QED
    BY <1>u, <1>c, <1>r, <2>1 DEF Step, RuntimeTypeOK, IInv, streamVars, eventVars, historyVars
<1>2. WithinBeats'
  <2>1. LeaseWithinCommand'
    BY <1>u, <1>c, <1>w, <1>r, <1>n DEF LeaseWithinCommand, WithinBeats, Covered, historyVars
  <2>. QED
    BY <1>u, <1>v, <2>1 DEF WithinBeats, InTime, Covered, historyVars
<1>3. AwaitsAgree' /\ LoopRelies'
  BY <1>u, <1>v, <1>c DEF Subscribing, AwaitsAgree, LoopRelies
<1>4. LeaseIsHeld'
  <2>1. OneActiveLease'
    BY <1>n DEF OneActiveLease
  <2>2. RunsUnder(opening, want.target, want.expiresAt)'
    BY <1>v, <1>w, <1>r, <1>n DEF RunsUnder
  <2>3. previous' # NoSelection => leases'[previous'] # NoSelection
                                  /\ leases'[previous'].status = "superseded"
    BY <1>p, <1>r
  <2>. QED
    BY <1>u, <1>v, <1>c, <2>1, <2>2, <2>3 DEF LeaseIsHeld, Leased
<1>5. StreamIsHeld'
  BY <1>u, <1>v, <1>c, <1>s
  DEF Subscribing, StreamIsHeld, StreamsUnderLease, Drained, streamVars, eventVars
<1>6. DeathsPay'
  <2>1. previous' # NoSelection \/ Orphaned' => Orphaned
    BY <1>c, <1>p DEF Orphaned, Leased
  <2>. QED
    BY <1>u, <1>n, <2>1, DeathsGoOnPaying DEF historyVars
<1>. QED
  BY <1>1, <1>2, <1>3, <1>4, <1>5, <1>6

LEMMA AcknowledgeHolds ==
  ASSUME RuntimeInv, IInv', Acknowledge
  PROVE  RuntimeInv'
<1>. USE DEF RuntimeInv
<1>u. UNCHANGED <<vars, command, catalog, pc, after, tick, cmd, memo, retryAt, opened, again, fault,
                  stream, definition, checkAt, eventVars, historyVars>>
  BY DEF Acknowledge
<1>v. UNCHANGED <<now, pending, active, phase, want, opening, failed>>
  BY <1>u DEF vars
<1>c. /\ step = "ack" /\ step' = "open" /\ pc = "transit" /\ phase = "subscribing" /\ previous' = NoSelection
      /\ active = NoSelection /\ ~failed /\ opened.version # 0 /\ emitting' = opening /\ opening \in Id
      /\ RunsUnder(opening, want.target, want.expiresAt)
  BY DEF Acknowledge, Subscribing, Leased, AwaitsAgree, LeaseIsHeld, IInv, Held
<1>s. stream = NoSelection /\ Drained
  BY <1>c DEF StreamIsHeld, Subscribing
<1>r. /\ leases' \in [Id -> Lease \cup {NoSelection}]
      /\ ActiveRows' = ActiveRows /\ Unacknowledged' = Unacknowledged
      /\ \A i \in ActiveRows : leases'[i] = leases[i]
  <2>1. CASE previous = NoSelection
    BY <1>c, <2>1 DEF Acknowledge, ActiveRows, Unacknowledged, RuntimeTypeOK
  <2>2. CASE previous # NoSelection
    <3>1. /\ previous \in Id /\ leases[previous] # NoSelection
          /\ leases[previous].status = "superseded" /\ leases' = Close(previous)
      BY <2>2, RuntimeRecords DEF Acknowledge, LeaseIsHeld
    <3>2. /\ leases' \in [Id -> Lease \cup {NoSelection}]
          /\ ActiveRows' = ActiveRows \ {previous}
          /\ \A i \in Id : i # previous => leases'[i] = leases[i]
          /\ leases'[previous].status = "cleaned"
      BY <3>1, Closed
    <3>3. previous \notin ActiveRows
      BY <3>1 DEF ActiveRows
    <3>4. Unacknowledged' = Unacknowledged
      BY <1>c, <3>1, <3>2, NoSelectionAssumption DEF Unacknowledged
    <3>. QED
      BY <3>2, <3>3, <3>4 DEF ActiveRows
  <2>. QED
    BY <2>1, <2>2
<1>1. RuntimeTypeOK'
  BY <1>u, <1>c, <1>r DEF Step, RuntimeTypeOK, IInv, eventVars, historyVars
<1>2. WithinBeats'
  BY <1>u, <1>v, <1>r DEF WithinBeats, InTime, Covered, LeaseWithinCommand, historyVars
<1>3. AwaitsAgree' /\ LoopRelies'
  BY <1>u, <1>v, <1>c DEF Subscribing, AwaitsAgree, LoopRelies
<1>4. LeaseIsHeld'
  BY <1>u, <1>v, <1>c, <1>r DEF Leased, LeaseIsHeld, RunsUnder, OneActiveLease
<1>5. StreamIsHeld'
  BY <1>u, <1>v, <1>c, <1>s
  DEF Subscribing, StreamIsHeld, StreamsUnderLease, Drained, eventVars
<1>6. DeathsPay'
  BY <1>u, <1>v, <1>c, <1>r, DeathsGoOnPaying DEF Orphaned, Leased, historyVars
<1>. QED
  BY <1>1, <1>2, <1>3, <1>4, <1>5, <1>6

LEMMA OpenStreamsHolds ==
  ASSUME RuntimeInv, IInv', OpenStreams
  PROVE  RuntimeInv'
<1>. USE DEF RuntimeInv
<1>u. UNCHANGED <<now, failed, dbVars, after, tick, cmd, memo, retryAt, again, previous, fault,
                  emitting, eventVars, historyVars>>
  BY DEF OpenStreams, SubscribeDone
<1>c. /\ step = "open" /\ pc = "transit" /\ phase = "subscribing" /\ after = "none"
      /\ ~failed /\ opened.version # 0 /\ emitting = opening /\ opening \in Id
      /\ RunsUnder(opening, want.target, want.expiresAt) /\ previous = NoSelection
      /\ pending = want /\ pending # NoSelection /\ want \in PendingSelection
  BY DEF OpenStreams, Subscribing, Leased, AwaitsAgree, LeaseIsHeld, IInv, Held
<1>s. Drained
  BY <1>c DEF StreamIsHeld, Subscribing
<1>d. /\ step' = "none" /\ pc' = "refresh" /\ phase' = "idle" /\ pending' = NoSelection
      /\ active'.id = opening /\ active'.target = want.target /\ active'.expiresAt = want.expiresAt
      /\ want' = NoSelection /\ opened' = NothingOpened /\ definition' = opened.version
      /\ stream' = [target |-> want.target, version |-> opened.version]
      /\ checkAt' = opened.at + Recheck
  <2>1. ~Superseded
    BY <1>c DEF Superseded
  <2>. QED
    BY <2>1 DEF OpenStreams, SubscribeDone, Release
<1>a. active' # NoSelection
  <2>1. active' = [id |-> opening, revision |-> want.revision, target |-> want.target,
                   heartbeatAt |-> at, expiresAt |-> want.expiresAt]
    BY <1>c DEF OpenStreams, SubscribeDone, Superseded
  <2>2. active' \in ActiveSelection
    BY <1>c, <2>1 DEF RuntimeTypeOK, TypeOK, ActiveSelection, PendingSelection
  <2>. QED
    BY <2>2, NoSelectionAssumption
<1>1. RuntimeTypeOK'
  <2>1. opened.at \in Nat /\ opened.version \in 1..MaxVersion /\ want.target \in Target
    BY <1>c DEF RuntimeTypeOK, PendingSelection
  <2>. QED
    BY <1>u, <1>d, <2>1, RuntimeAssumption
    DEF Pc, Step, NothingOpened, RuntimeTypeOK, IInv, dbVars, eventVars, historyVars
<1>2. WithinBeats'
  <2>1. want.expiresAt <= beats[want.target] + TTL
    BY <1>c DEF WithinBeats, Covered
  <2>. QED
    BY <1>u, <1>d, <2>1
    DEF WithinBeats, InTime, Covered, LeaseWithinCommand, ActiveRows, dbVars, historyVars
<1>3. AwaitsAgree' /\ LoopRelies'
  BY <1>u, <1>c, <1>d DEF Subscribing, AwaitsAgree, LoopRelies
<1>4. LeaseIsHeld'
  BY <1>u, <1>c, <1>d DEF Leased, LeaseIsHeld, RunsUnder, OneActiveLease, ActiveRows, dbVars
<1>5. StreamIsHeld'
  <2>1. StreamsUnderLease'
    BY <1>u, <1>c, <1>d DEF StreamsUnderLease, RunsUnder, ActiveRows, dbVars
  <2>. QED
    BY <1>u, <1>c, <1>s, <1>d, <1>a, <2>1 DEF Subscribing, StreamIsHeld, Drained, eventVars
<1>6. DeathsPay'
  BY <1>u, <1>c, <1>a, DeathsGoOnPaying
  DEF Orphaned, Unacknowledged, ActiveRows, dbVars, historyVars
<1>. QED
  BY <1>1, <1>2, <1>3, <1>4, <1>5, <1>6

LEMMA OpenStreamsFailsHolds ==
  ASSUME RuntimeInv, IInv', OpenStreamsFails
  PROVE  RuntimeInv'
<1>. USE DEF RuntimeInv
<1>u. UNCHANGED <<vars, dbVars, pc, after, tick, cmd, memo, retryAt, opened, again, previous, fault,
                  streamVars, eventVars, historyVars>>
  BY DEF OpenStreamsFails
<1>v. UNCHANGED <<now, pending, active, phase, want, opening, failed>>
  BY <1>u DEF vars
<1>c. step = "open" /\ step' = "undo"
  BY DEF OpenStreamsFails
<1>1. RuntimeTypeOK'
  BY <1>u, <1>c DEF Step, RuntimeTypeOK, IInv, dbVars, streamVars, eventVars, historyVars
<1>2. WithinBeats'
  BY <1>u, <1>v
  DEF WithinBeats, InTime, Covered, LeaseWithinCommand, ActiveRows, dbVars, historyVars
<1>3. AwaitsAgree' /\ LoopRelies'
  BY <1>u, <1>v, <1>c DEF Subscribing, AwaitsAgree, LoopRelies
<1>4. LeaseIsHeld'
  BY <1>u, <1>v, <1>c
  DEF Leased, LeaseIsHeld, RunsUnder, OneActiveLease, ActiveRows, dbVars, streamVars
<1>5. StreamIsHeld'
  BY <1>u, <1>v, <1>c
  DEF Subscribing, StreamIsHeld, StreamsUnderLease, Drained, ActiveRows, dbVars, streamVars,
      eventVars
<1>6. DeathsPay'
  BY <1>u, <1>v, <1>c, DeathsGoOnPaying
  DEF Leased, Orphaned, Unacknowledged, ActiveRows, dbVars, historyVars
<1>. QED
  BY <1>1, <1>2, <1>3, <1>4, <1>5, <1>6

LEMMA UndoLeaseHolds ==
  ASSUME RuntimeInv, IInv', UndoLease
  PROVE  RuntimeInv'
<1>. USE DEF RuntimeInv
<1>u. UNCHANGED <<now, pending, active, command, catalog, after, tick, cmd, memo, retryAt, again,
                  previous, stream, eventVars, historyVars>>
  BY DEF UndoLease, SubscribeFails
<1>c. /\ step = "undo" /\ pc = "transit" /\ phase = "subscribing" /\ after = "none"
      /\ opening \in ActiveRows /\ opening \in Id /\ previous = NoSelection /\ active = NoSelection
  BY DEF UndoLease, Subscribing, Leased, AwaitsAgree, LeaseIsHeld, RunsUnder, ActiveRows, IInv, Held
<1>s. stream = NoSelection /\ Drained
  BY <1>c DEF StreamIsHeld, Subscribing
<1>d. /\ step' = "none" /\ pc' = "shutdown" /\ phase' = "idle" /\ failed' /\ want' = NoSelection
      /\ opened' = NothingOpened /\ fault' = "stream" /\ definition' = 0 /\ checkAt' = NoSelection
      /\ emitting' = NoSelection
  BY DEF UndoLease, SubscribeFails, Release, ForgetStream
<1>r. /\ leases' \in [Id -> Lease \cup {NoSelection}]
      /\ ActiveRows' = {} /\ Unacknowledged' = Unacknowledged
  <2>1. leases[opening] # NoSelection /\ leases[opening].status = "active" /\ leases' = Close(opening)
    BY <1>c DEF ActiveRows, UndoLease
  <2>2. ActiveRows \ {opening} = {}
    BY <1>c DEF LeaseIsHeld, OneActiveLease
  <2>. QED
    BY <1>u, <1>c, <2>1, <2>2, Closed
<1>1. RuntimeTypeOK'
  BY <1>u, <1>d, <1>r, RuntimeAssumption
  DEF Pc, Step, NothingOpened, RuntimeTypeOK, IInv, eventVars, historyVars
<1>2. WithinBeats'
  BY <1>u, <1>r DEF WithinBeats, InTime, Covered, LeaseWithinCommand, historyVars
<1>3. AwaitsAgree' /\ LoopRelies'
  BY <1>u, <1>c, <1>d DEF Subscribing, AwaitsAgree, LoopRelies
<1>4. LeaseIsHeld'
  BY <1>u, <1>c, <1>d, <1>r DEF Leased, LeaseIsHeld, OneActiveLease
<1>5. StreamIsHeld'
  BY <1>u, <1>c, <1>s, <1>d DEF Subscribing, StreamIsHeld, StreamsUnderLease, Drained, eventVars
<1>6. DeathsPay'
  BY <1>u, <1>c, <1>r, DeathsGoOnPaying DEF Orphaned, historyVars
<1>. QED
  BY <1>1, <1>2, <1>3, <1>4, <1>5, <1>6

(* The target was withdrawn or its time is over: the request is dropped.     *)
LEMMA RejectHolds ==
  ASSUME RuntimeInv, IInv', Reject
  PROVE  RuntimeInv'
<1>. USE DEF RuntimeInv
<1>c. /\ pc = "reject" /\ pc' = "refresh" /\ active = NoSelection /\ ~failed
      /\ pending' = NoSelection /\ retryAt' = tick + Recheck
  BY DEF Reject, Stop, AwaitsAgree, LoopRelies
<1>u. UNCHANGED <<now, active, phase, want, opening, failed, dbVars, step, after, tick, cmd, memo,
                  opened, again, previous, fault, streamVars, eventVars, historyVars>>
  BY <1>c DEF Reject, Stop
<1>1. RuntimeTypeOK'
  BY <1>u, <1>c, RuntimeAssumption
  DEF Pc, RuntimeTypeOK, IInv, dbVars, streamVars, eventVars, historyVars
<1>2. WithinBeats'
  BY <1>u, <1>c
  DEF WithinBeats, InTime, Covered, LeaseWithinCommand, ActiveRows, dbVars, historyVars
<1>3. AwaitsAgree' /\ LoopRelies'
  BY <1>u, <1>c DEF AwaitsAgree, LoopRelies
<1>4. LeaseIsHeld' /\ StreamIsHeld' /\ DeathsPay'
  BY <1>u, RowsStay DEF dbVars, streamVars, eventVars, historyVars
<1>. QED
  BY <1>1, <1>2, <1>3, <1>4

-----------------------------------------------------------------------------
(* The membership check, the shutdown and the end of the process *)

(* Stopping a running selection: the controller goes to its clean-up, and    *)
(* nothing but the place of the loop changes in the runtime.                 *)
LEMMA StopsRunning ==
  ASSUME RuntimeInv, IInv', active # NoSelection, Stop, pc' = "transit", step' = "unsubscribe",
         pc \in {"refresh", "shutdown"}, after' \in {"retry", "resubscribe", "exit"},
         after' = "resubscribe" => again' # NoSelection,
         again' \in {again, active}, tick' \in {0, tick},
         failed => after' = "exit",
         retryAt' \in Nat \cup {NoSelection}, checkAt' \in Nat \cup {NoSelection},
         UNCHANGED <<dbVars, cmd, memo, opened, previous, fault, emitting, stream, definition,
                     eventVars, historyVars>>
  PROVE  RuntimeInv'
<1>. USE DEF RuntimeInv
<1>u. UNCHANGED <<now, active, want, opening, failed>>
  BY DEF Stop
<1>c. /\ phase = "idle" /\ phase' = "stopping" /\ pending' = NoSelection /\ step = "none"
      /\ previous = NoSelection
  BY DEF Stop, AwaitsAgree, LeaseIsHeld
<1>1. RuntimeTypeOK'
  <2>1. again' \in ActiveSelection \cup {NoSelection} /\ tick' \in Nat
    BY DEF RuntimeTypeOK, TypeOK
  <2>. QED
    BY <2>1 DEF Pc, Step, RuntimeTypeOK, IInv, dbVars, eventVars, historyVars
<1>2. WithinBeats'
  <2>1. tick' <= now
    BY RuntimeRecords DEF WithinBeats
  <2>. QED
    BY <1>u, <1>c, <2>1
    DEF WithinBeats, InTime, Covered, LeaseWithinCommand, ActiveRows, dbVars, historyVars
<1>3. AwaitsAgree'
  BY <1>u, <1>c DEF Subscribing, AwaitsAgree
<1>4. LoopRelies'
  BY <1>u, <1>c DEF LoopRelies
<1>5. LeaseIsHeld'
  BY <1>u, <1>c DEF Leased, LeaseIsHeld, RunsUnder, OneActiveLease, ActiveRows, dbVars
<1>6. StreamIsHeld'
  BY <1>u, <1>c
  DEF Subscribing, StreamIsHeld, StreamsUnderLease, Drained, ActiveRows, dbVars, eventVars
<1>7. DeathsPay'
  BY <1>u, <1>c, DeathsGoOnPaying DEF Orphaned, Unacknowledged, ActiveRows, dbVars, historyVars
<1>. QED
  BY <1>1, <1>2, <1>3, <1>4, <1>5, <1>6, <1>7

LEMMA RefreshMembershipHolds ==
  ASSUME RuntimeInv, IInv', RefreshMembership
  PROVE  RuntimeInv'
<1>. USE DEF RuntimeInv
<1>c. /\ pc = "refresh" /\ ~failed /\ tick' \in {0, tick}
      /\ checkAt' \in Nat \cup {NoSelection}
  <2>1. checkAt' \in {tick + Recheck, checkAt}
    BY DEF RefreshMembership
  <2>2. tick + Recheck \in Nat
    BY RuntimeRecords, RuntimeAssumption
  <2>3. pc = "refresh" /\ ~failed
    BY DEF RefreshMembership, AwaitsAgree, LoopRelies
  <2>. QED
    BY <2>1, <2>2, <2>3 DEF RefreshMembership, NextTurn, RuntimeTypeOK
<1>u. UNCHANGED <<dbVars, cmd, memo, opened, previous, fault, emitting, stream, definition,
                  eventVars, historyVars>>
  BY DEF RefreshMembership
<1>1. CASE pc' = "poll" /\ UNCHANGED <<vars, step, after, retryAt, again>>
  <2>u. UNCHANGED <<now, pending, active, phase, want, opening, failed>>
    BY <1>1 DEF vars
  <2>1. RuntimeTypeOK'
    BY <1>c, <1>u, <1>1 DEF Pc, RuntimeTypeOK, IInv, dbVars, eventVars, historyVars
  <2>2. WithinBeats'
    <3>1. tick' <= now
      BY <1>c, RuntimeRecords DEF WithinBeats
    <3>. QED
      BY <1>u, <1>1, <2>u, <3>1
      DEF WithinBeats, InTime, Covered, LeaseWithinCommand, ActiveRows, dbVars, historyVars
  <2>3. AwaitsAgree' /\ LoopRelies'
    BY <1>c, <1>1, <2>u DEF AwaitsAgree, LoopRelies
  <2>4. LeaseIsHeld' /\ StreamIsHeld' /\ DeathsPay'
    BY <1>u, <1>1, <2>u, RowsStay DEF dbVars, eventVars, historyVars
  <2>. QED
    BY <2>1, <2>2, <2>3, <2>4
<1>2. CASE /\ active # NoSelection /\ Stop /\ step' = "unsubscribe" /\ pc' = "transit"
           /\ \/ after' = "retry" /\ retryAt' = tick + Recheck /\ again' = again
              \/ after' = "resubscribe" /\ again' = active /\ retryAt' = retryAt
  <2>1. retryAt' \in Nat \cup {NoSelection}
    BY <1>2, RuntimeRecords, RuntimeAssumption DEF RuntimeTypeOK
  <2>. QED
    BY <1>c, <1>u, <1>2, <2>1, StopsRunning
<1>. QED
  BY <1>1, <1>2 DEF RefreshMembership, CheckDue

LEMMA ShutdownHolds ==
  ASSUME RuntimeInv, IInv', Shutdown
  PROVE  RuntimeInv'
<1>. USE DEF RuntimeInv
<1>u. UNCHANGED <<now, active, want, opening, failed, dbVars, tick, cmd, memo, retryAt, opened, again,
                  previous, fault, streamVars, eventVars, historyVars>>
  BY DEF Shutdown, Stop
<1>1. CASE active = NoSelection /\ pc' = "exit" /\ UNCHANGED <<step, after>>
  <2>c. pc = "shutdown" /\ phase = "idle" /\ phase' = "idle" /\ pending' = NoSelection
        /\ step = "none" /\ after = "none"
    BY <1>1 DEF Shutdown, Stop, AwaitsAgree
  <2>1. RuntimeTypeOK'
    BY <1>u, <1>1 DEF Pc, RuntimeTypeOK, IInv, dbVars, streamVars, eventVars, historyVars
  <2>2. WithinBeats'
    BY <1>u, <2>c
    DEF WithinBeats, InTime, Covered, LeaseWithinCommand, ActiveRows, dbVars, historyVars
  <2>3. AwaitsAgree' /\ LoopRelies'
    BY <1>u, <1>1, <2>c DEF AwaitsAgree, LoopRelies
  <2>4. LeaseIsHeld' /\ StreamIsHeld' /\ DeathsPay'
    BY <1>u, <1>1, <2>c, RowsStay DEF dbVars, streamVars, eventVars, historyVars
  <2>. QED
    BY <2>1, <2>2, <2>3, <2>4
<1>2. CASE /\ active # NoSelection /\ pc' = "transit" /\ step' = "unsubscribe" /\ after' = "exit"
  <2>1. /\ Stop /\ pc = "shutdown" /\ again' = again /\ tick' = tick
        /\ retryAt' \in Nat \cup {NoSelection} /\ checkAt' \in Nat \cup {NoSelection}
        /\ UNCHANGED <<emitting, stream, definition>>
    BY <1>u DEF Shutdown, RuntimeTypeOK, streamVars
  <2>. QED
    BY <1>u, <1>2, <2>1, StopsRunning
<1>. QED
  BY <1>1, <1>2 DEF Shutdown

LEMMA StopEventHolds ==
  ASSUME RuntimeInv, IInv', StopEvent
  PROVE  RuntimeInv'
<1>. USE DEF RuntimeInv
<1>u. UNCHANGED <<vars, dbVars, step, after, tick, cmd, memo, retryAt, opened, again, previous, fault,
                  streamVars, eventVars, historyVars>>
  BY DEF StopEvent
<1>v. UNCHANGED <<now, pending, active, phase, want, opening, failed>>
  BY <1>u DEF vars
<1>c. pc = "poll" /\ pc' = "shutdown"
  BY DEF StopEvent
<1>1. RuntimeTypeOK'
  BY <1>u, <1>c DEF Pc, RuntimeTypeOK, IInv, dbVars, streamVars, eventVars, historyVars
<1>2. WithinBeats'
  BY <1>u, <1>v
  DEF WithinBeats, InTime, Covered, LeaseWithinCommand, ActiveRows, dbVars, historyVars
<1>3. AwaitsAgree' /\ LoopRelies'
  BY <1>u, <1>v, <1>c DEF AwaitsAgree, LoopRelies
<1>4. LeaseIsHeld' /\ StreamIsHeld' /\ DeathsPay'
  BY <1>u, <1>v, RowsStay DEF dbVars, streamVars, eventVars, historyVars
<1>. QED
  BY <1>1, <1>2, <1>3, <1>4

(* The streams and the writer leave the loop, the rows and the controller    *)
(* alone; an event joins the queue under the active lease.                   *)
LEMMA EventsHold ==
  ASSUME RuntimeInv, IInv', Emit \/ Writer \/ CloseStreams
  PROVE  RuntimeInv'
<1>. USE DEF RuntimeInv
<1>u. UNCHANGED <<vars, dbVars, loopVars, emitting, definition, checkAt, historyVars>>
  BY DEF Emit, Writer, WriterTake, WriterStore, CloseStreams, streamVars
<1>v. UNCHANGED <<now, pending, active, phase, want, opening, failed>>
  BY <1>u DEF vars
<1>e. /\ stream' \in {stream, NoSelection} /\ (stream' # stream => pc = "exit")
      /\ stream = NoSelection /\ Drained => Drained'
      /\ queue' \in Seq(Id) /\ Len(queue') <= QueueSize /\ batch' \in Seq(Id)
      /\ \A k \in DOMAIN queue' : queue'[k] \in ActiveRows
      /\ \A k \in DOMAIN batch' : batch'[k] \in ActiveRows
  <2>1. CASE Emit
    <3>1. emitting \in Id /\ emitting \in ActiveRows
      BY <2>1 DEF Emit, StreamIsHeld, StreamsUnderLease, ActiveRows
    <3>2. queue \in Seq(Id) /\ queue' = Append(queue, emitting) /\ Len(queue) < QueueSize
      BY <2>1 DEF Emit, RuntimeTypeOK
    <3>3. /\ queue' \in Seq(Id) /\ Len(queue') = Len(queue) + 1
          /\ \A k \in 1..Len(queue) : queue'[k] = queue[k]
          /\ queue'[Len(queue) + 1] = emitting
      BY <3>1, <3>2, AppendProperties
    <3>4. \A k \in DOMAIN queue' : queue'[k] \in ActiveRows
      <4>1. DOMAIN queue' = 1..(Len(queue) + 1) /\ DOMAIN queue = 1..Len(queue) /\ Len(queue) \in Nat
        BY <3>2, <3>3
      <4>2. \A k \in 1..(Len(queue) + 1) : k \in 1..Len(queue) \/ k = Len(queue) + 1
        BY <4>1
      <4>. QED
        BY <3>1, <3>3, <4>1, <4>2 DEF StreamIsHeld
    <3>5. Len(queue') <= QueueSize
      BY <3>2, <3>3, RuntimeAssumption
    <3>6. UNCHANGED <<batch, stream>> /\ stream # NoSelection
      BY <2>1 DEF Emit, streamVars
    <3>. QED
      BY <3>3, <3>4, <3>5, <3>6 DEF RuntimeTypeOK, StreamIsHeld
  <2>2. CASE WriterTake
    <3>1. <<>> \in Seq(Id) /\ Len(<<>>) = 0 /\ DOMAIN <<>> = {}
      OBVIOUS
    <3>. QED
      BY <2>2, <3>1, RuntimeAssumption
      DEF WriterTake, RuntimeTypeOK, StreamIsHeld, Drained, streamVars
  <2>3. CASE WriterStore
    <3>1. <<>> \in Seq(Id) /\ DOMAIN <<>> = {}
      OBVIOUS
    <3>. QED
      BY <2>3, <3>1 DEF WriterStore, RuntimeTypeOK, StreamIsHeld, Drained, streamVars
  <2>4. CASE CloseStreams
    BY <2>4 DEF CloseStreams, RuntimeTypeOK, StreamIsHeld, Drained, eventVars
  <2>. QED
    BY <2>1, <2>2, <2>3, <2>4 DEF Writer
<1>1. RuntimeTypeOK'
  BY <1>u, <1>e DEF RuntimeTypeOK, IInv, dbVars, loopVars, historyVars
<1>2. WithinBeats'
  BY <1>u, <1>v
  DEF WithinBeats, InTime, Covered, LeaseWithinCommand, ActiveRows, dbVars, loopVars, historyVars
<1>3. AwaitsAgree' /\ LoopRelies'
  BY <1>u, <1>v DEF AwaitsAgree, LoopRelies, loopVars
<1>4. LeaseIsHeld'
  BY <1>u, <1>v DEF Leased, LeaseIsHeld, RunsUnder, OneActiveLease, ActiveRows, dbVars, loopVars
<1>5. StreamIsHeld'
  <2>1. StreamsUnderLease'
    BY <1>u, <1>e DEF StreamIsHeld, StreamsUnderLease, ActiveRows, dbVars
  <2>2. ActiveRows' = ActiveRows
    BY <1>u DEF ActiveRows, dbVars
  <2>3. step \in {"flush"} \cup Subscribing => stream' = NoSelection
    BY <1>e DEF StreamIsHeld
  <2>4. step \in Subscribing => Drained'
    BY <1>e DEF StreamIsHeld
  <2>5. ~failed /\ phase = "idle" =>
          IF active = NoSelection THEN stream' = NoSelection /\ Drained'
          ELSE stream' = [target |-> active.target, version |-> definition]
    BY <1>e DEF StreamIsHeld, LoopRelies
  <2>. QED
    BY <1>u, <1>v, <1>e, <2>1, <2>2, <2>3, <2>4, <2>5 DEF StreamIsHeld, loopVars
<1>6. DeathsPay'
  BY <1>u, <1>v, DeathsGoOnPaying
  DEF Orphaned, Unacknowledged, ActiveRows, dbVars, loopVars, historyVars
<1>. QED
  BY <1>1, <1>2, <1>3, <1>4, <1>5, <1>6

(* A new process: a row that was active has no owner any more, a superseded  *)
(* one that was to be acknowledged stays as it is.                           *)
LEMMA StartOverHolds ==
  ASSUME RuntimeInv, IInv', StartOver
  PROVE  RuntimeInv'
<1>. USE DEF RuntimeInv
<1>u. UNCHANGED <<now, dbVars, beats>>
  BY DEF StartOver, Restart
<1>c. /\ pc' = "poll" /\ step' = "none" /\ after' = "none" /\ tick' = 0 /\ cmd' = NoSelection
      /\ memo' = NoSelection /\ retryAt' = NoSelection /\ opened' = NothingOpened
      /\ again' = NoSelection /\ previous' = NoSelection /\ emitting' = NoSelection
      /\ stream' = NoSelection /\ definition' = 0 /\ checkAt' = NoSelection
      /\ queue' = <<>> /\ batch' = <<>> /\ fault' = "none"
  BY DEF StartOver, FreshMemory
<1>d. /\ pending' = NoSelection /\ active' = NoSelection /\ phase' = "idle" /\ want' = NoSelection
      /\ deaths < MaxDeaths /\ deaths' = deaths + 1
  BY DEF StartOver, Restart, Release
<1>f. ~failed'
  BY DEF StartOver, Restart
<1>n. deaths \in Nat /\ deaths' \in 0..MaxDeaths
  BY <1>d, RuntimeAssumption DEF RuntimeTypeOK
<1>1. RuntimeTypeOK'
  <2>1. <<>> \in Seq(Id) /\ Len(<<>>) = 0
    OBVIOUS
  <2>2. <<>> \in Seq(Id) /\ Len(<<>>) <= QueueSize /\ NothingOpened \in [at : Nat, version : 0..MaxVersion]
    BY <2>1, RuntimeAssumption DEF NothingOpened
  <2>. QED
    BY <1>u, <1>c, <1>n, <2>2, RuntimeAssumption DEF Pc, Step, RuntimeTypeOK, IInv, dbVars
<1>2. WithinBeats'
  BY <1>u, <1>c, <1>d, RuntimeRecords
  DEF WithinBeats, InTime, Covered, LeaseWithinCommand, ActiveRows, dbVars
<1>3. AwaitsAgree' /\ LoopRelies'
  BY <1>c, <1>d, <1>f DEF Subscribing, AwaitsAgree, LoopRelies
<1>4. LeaseIsHeld'
  BY <1>u, <1>c, <1>d DEF Leased, LeaseIsHeld, OneActiveLease, ActiveRows, dbVars
<1>5. StreamIsHeld'
  BY <1>c, <1>d DEF Subscribing, StreamIsHeld, StreamsUnderLease, Drained
<1>6. DeathsPay'
  <2>1. IsFiniteSet(Unacknowledged)
    BY DEF DeathsPay
  <2>2. CASE previous = NoSelection
    <3>1. Unacknowledged' = Unacknowledged
      BY <1>u, <1>c, <2>2 DEF Unacknowledged, dbVars
    <3>2. Cardinality(Unacknowledged) \in Nat
      BY <2>1, FS_CardinalityType
    <3>. QED
      BY <1>d, <1>n, <2>1, <3>1, <3>2 DEF DeathsPay, UnacknowledgedLeasesAreLeftovers
  <2>3. CASE previous # NoSelection
    <3>1. Unacknowledged' = Unacknowledged \cup {previous} /\ previous \notin Unacknowledged
      BY <1>u, <1>c, <2>3, RuntimeRecords, NoSelectionAssumption
      DEF LeaseIsHeld, Unacknowledged, dbVars
    <3>2. /\ IsFiniteSet(Unacknowledged') /\ Cardinality(Unacknowledged) \in Nat
          /\ Cardinality(Unacknowledged') = Cardinality(Unacknowledged) + 1
      BY <2>1, <3>1, FS_AddElement, FS_CardinalityType
    <3>. QED
      BY <1>d, <1>n, <2>3, <3>2 DEF DeathsPay, UnacknowledgedLeasesAreLeftovers
  <2>. QED
    BY <2>2, <2>3
<1>. QED
  BY <1>1, <1>2, <1>3, <1>4, <1>5, <1>6

LEMMA ClockHolds ==
  ASSUME RuntimeInv, IInv', Clock
  PROVE  RuntimeInv'
<1>. USE DEF RuntimeInv
<1>u. UNCHANGED <<pending, active, phase, want, opening, failed, dbVars, loopVars, streamVars,
                  eventVars, historyVars>>
  BY DEF Clock, Tick, runtimeVars
<1>n. now \in Nat /\ now' = now + 1
  BY RuntimeRecords DEF Clock, Tick
<1>1. RuntimeTypeOK'
  BY <1>u DEF RuntimeTypeOK, IInv, dbVars, loopVars, streamVars, eventVars, historyVars
<1>2. WithinBeats'
  <2>1. tick' <= now'
    BY <1>u, <1>n, RuntimeRecords DEF WithinBeats, loopVars
  <2>2. \A t \in Target : beats'[t] <= now'
    BY <1>u, <1>n, RuntimeRecords DEF WithinBeats, historyVars
  <2>3. /\ command # NoSelection => command.requestedAt \in Nat
        /\ cmd # NoSelection => cmd.requestedAt \in Nat
    BY RuntimeRecords DEF Command
  <2>4. InTime(command)' /\ InTime(cmd)'
    BY <1>u, <1>n, <2>3 DEF WithinBeats, InTime, dbVars, loopVars, historyVars
  <2>. QED
    BY <1>u, <2>1, <2>2, <2>4
    DEF WithinBeats, Covered, LeaseWithinCommand, ActiveRows, dbVars, loopVars, historyVars
<1>3. AwaitsAgree' /\ LoopRelies'
  BY <1>u DEF AwaitsAgree, LoopRelies, loopVars
<1>4. LeaseIsHeld' /\ StreamIsHeld' /\ DeathsPay'
  BY <1>u, RowsStay DEF dbVars, loopVars, streamVars, eventVars, historyVars
<1>. QED
  BY <1>1, <1>2, <1>3, <1>4

-----------------------------------------------------------------------------
LEMMA RuntimeInitHolds == RuntimeInit => RuntimeInv
<1>. SUFFICES ASSUME RuntimeInit PROVE RuntimeInv
  OBVIOUS
<1>. USE DEF RuntimeInit
<1>1. IInv
  BY InitHolds
<1>2. RuntimeTypeOK
  <2>1. <<>> \in Seq(Id) /\ Len(<<>>) = 0
    OBVIOUS
  <2>2. <<>> \in Seq(Id) /\ Len(<<>>) <= QueueSize /\ NothingOpened \in [at : Nat, version : 0..MaxVersion]
    BY <2>1, RuntimeAssumption DEF NothingOpened
  <2>3. TypeOK
    BY <1>1 DEF IInv
  <2>. QED
    BY <2>2, <2>3, RuntimeAssumption DEF Pc, Step, RuntimeTypeOK
<1>3. ActiveRows = {} /\ Unacknowledged = {}
  BY DEF ActiveRows, Unacknowledged
<1>4. WithinBeats
  BY <1>3 DEF Init, WithinBeats, InTime, Covered, LeaseWithinCommand
<1>5. AwaitsAgree /\ LoopRelies
  BY DEF Init, Subscribing, AwaitsAgree, LoopRelies
<1>6. LeaseIsHeld
  BY <1>3 DEF Init, Leased, LeaseIsHeld, OneActiveLease
<1>7. StreamIsHeld
  BY DEF Init, Subscribing, StreamIsHeld, StreamsUnderLease, Drained
<1>8. DeathsPay
  BY <1>3, FS_EmptySet DEF DeathsPay, Orphaned, UnacknowledgedLeasesAreLeftovers
<1>. QED
  BY <1>1, <1>2, <1>4, <1>5, <1>6, <1>7, <1>8 DEF RuntimeInv

LEMMA RuntimeStepHolds == RuntimeInv /\ [RuntimeNext]_allVars => RuntimeInv'
<1>. SUFFICES ASSUME RuntimeInv, [RuntimeNext]_allVars PROVE RuntimeInv'
  OBVIOUS
<1>0. IInv'
  BY ControllerHolds
<1>1. CASE UNCHANGED allVars
  <2>u. UNCHANGED <<now, pending, active, phase, want, opening, failed, dbVars, loopVars, streamVars,
                    eventVars, historyVars>>
    BY <1>1 DEF allVars, vars, runtimeVars
  <2>1. RuntimeTypeOK'
    BY <1>0, <2>u
    DEF RuntimeInv, RuntimeTypeOK, IInv, dbVars, loopVars, streamVars, eventVars, historyVars
  <2>2. WithinBeats'
    BY <2>u
    DEF RuntimeInv, WithinBeats, InTime, Covered, LeaseWithinCommand, ActiveRows, dbVars, loopVars,
        historyVars
  <2>3. AwaitsAgree' /\ LoopRelies'
    BY <2>u DEF RuntimeInv, AwaitsAgree, LoopRelies, loopVars
  <2>4. LeaseIsHeld' /\ StreamIsHeld' /\ DeathsPay'
    BY <2>u, RowsStay DEF dbVars, loopVars, streamVars, eventVars, historyVars
  <2>. QED
    BY <1>0, <2>1, <2>2, <2>3, <2>4 DEF RuntimeInv
<1>2. CASE Loop
  BY <1>0, <1>2, PollHolds, AcceptDropsHolds, AcceptRequestHolds, AcceptHeartbeatHolds,
     ReconcileStepHolds, StopStreamsHolds, CloseLeaseHolds, ResubscribeHolds, LookupHolds,
     RejectHolds, ActivateHolds, ActivateFailsHolds, AcknowledgeHolds, OpenStreamsHolds,
     UndoLeaseHolds, RefreshMembershipHolds, ShutdownHolds, EventsHold
  DEF Loop
<1>3. CASE Exit \/ Crash
  BY <1>0, <1>3, StartOverHolds DEF Exit, Crash
<1>. QED
  BY <1>0, <1>1, <1>2, <1>3, WebHolds, CatalogChangeHolds, CleanupGivesUpHolds, StopEventHolds,
     OpenStreamsFailsHolds, EventsHold, ClockHolds
  DEF RuntimeNext

LEMMA RuntimeInvariantHolds == RuntimeSpec => []RuntimeInv
  BY RuntimeInitHolds, RuntimeStepHolds, PTL DEF RuntimeSpec

-----------------------------------------------------------------------------
(* Theorems *)

(* Every behaviour of the runtime keeps its variables in their types.        *)
THEOREM RuntimeTypeCorrect == RuntimeSpec => []RuntimeTypeOK
<1>1. RuntimeInv => RuntimeTypeOK
  BY DEF RuntimeInv
<1>. QED
  BY <1>1, RuntimeInvariantHolds, PTL

(* Streams run only under an active lease of their own target, and every     *)
(* event that waits to be written belongs to a lease that is still active:   *)
(* whatever switch, expiry, membership change, failure or death comes in     *)
(* between, no event reaches a closed lease or the lease of another target.  *)
THEOREM SwitchesStayClean == RuntimeSpec => []SwitchesAreClean
<1>1. RuntimeInv => SwitchesAreClean
  <2>. SUFFICES ASSUME RuntimeInv PROVE SwitchesAreClean
    OBVIOUS
  <2>1. ASSUME NEW k \in DOMAIN (queue \o batch) PROVE (queue \o batch)[k] \in ActiveRows
    <3>1. queue \in Seq(Id) /\ batch \in Seq(Id)
      BY DEF RuntimeInv, RuntimeTypeOK
    <3>2. /\ Len(queue \o batch) = Len(queue) + Len(batch)
          /\ \A i \in 1..Len(queue) : (queue \o batch)[i] = queue[i]
          /\ \A i \in 1..Len(batch) : (queue \o batch)[Len(queue) + i] = batch[i]
          /\ DOMAIN (queue \o batch) = 1..Len(queue \o batch)
          /\ DOMAIN queue = 1..Len(queue) /\ DOMAIN batch = 1..Len(batch)
          /\ Len(queue) \in Nat /\ Len(batch) \in Nat
      BY <3>1, ConcatProperties
    <3>3. k \in 1..Len(queue) \/ (k - Len(queue) \in 1..Len(batch) /\ k = Len(queue) + (k - Len(queue)))
      BY <3>2
    <3>. QED
      BY <3>2, <3>3 DEF RuntimeInv, StreamIsHeld
  <2>. QED
    BY <2>1 DEF RuntimeInv, StreamIsHeld, SwitchesAreClean, NoOrphanEvents
<1>. QED
  BY <1>1, RuntimeInvariantHolds, PTL

(* The database never holds two active leases, a superseded lease that       *)
(* nobody acknowledges took two deaths of the process, no lease outlives the *)
(* last heartbeat of its command by more than the TTL, and between two turns *)
(* of the loop controller, row, streams and fingerprint agree: all this      *)
(* across failures, changed definitions and deaths at any await.             *)
THEOREM LeasesStayAgreed == RuntimeSpec => []LeasesAgree
<1>1. RuntimeInv => LeasesAgree
  <2>. SUFFICES ASSUME RuntimeInv PROVE LeasesAgree
    OBVIOUS
  <2>1. ViewsAgree
    <3>1. pc = "poll" => ~failed /\ phase = "idle"
      BY DEF RuntimeInv, AwaitsAgree, LoopRelies
    <3>. QED
      BY <3>1 DEF RuntimeInv, LeaseIsHeld, RunsUnder, StreamIsHeld, ViewsAgree
  <2>. QED
    BY <2>1 DEF RuntimeInv, LeaseIsHeld, DeathsPay, WithinBeats, LeasesAgree
<1>. QED
  BY <1>1, RuntimeInvariantHolds, PTL

(* The runtime implements the controller: it calls request, heartbeat,       *)
(* reconcile and stop only as the controller allows, lets the awaits return  *)
(* as it expects, and asks for no lease beyond now + TTL.  With it every     *)
(* theorem about the controller holds of the runtime.                        *)
THEOREM RuntimeImplementsController == RuntimeSpec => ImplementsController
<1>1. RuntimeInit => Init
  BY DEF RuntimeInit
<1>2. RuntimeInv /\ [RuntimeNext]_allVars => [Next]_vars
  BY StepIsController DEF allVars
<1>. QED
  BY <1>1, <1>2, RuntimeInvariantHolds, PTL DEF RuntimeSpec, Spec, ImplementsController
=============================================================================
