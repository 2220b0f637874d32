------------------------- MODULE SelectionController -------------------------
(***************************************************************************)
(* The single-selection controller of the market service                   *)
(* (prep_watchdeck_market/selection.py).  One instrument target is         *)
(* subscribed at a time.  A request is debounced, a lease expires unless   *)
(* its heartbeat is renewed, and a switch closes the old subscription      *)
(* before it opens the new one.                                            *)
(*                                                                         *)
(* `reconcile` and `stop` run under a transition lock and await the        *)
(* caller's subscribe and unsubscribe coroutines; `phase` is the await the *)
(* lock holder is suspended in.  `request` takes no lock, so it may        *)
(* interleave with every await; `heartbeat` is called by the same loop     *)
(* that awaits `reconcile`, hence only while the lock is free.             *)
(*                                                                         *)
(* MaxTime and MaxRevision bound the model, not the program.               *)
(***************************************************************************)
EXTENDS Integers, FiniteSets

CONSTANTS
  Target,       \* (group_id, primary_venue_instrument_id) pairs
  Debounce,     \* SELECTION_DEBOUNCE
  TTL,          \* SELECTION_TTL
  Id,           \* uuid4() values; one is reused only after it was closed
  NoSelection,  \* Python's None
  MaxTime,      \* bound: the last tick of the clock
  MaxRevision   \* bound: requests made in one behaviour

Phase == {"idle", "expiring", "switching", "stopping", "subscribing", "discarding"}

PendingSelection ==
  [revision: Nat, target: Target, activateAt: Nat, expiresAt: Nat]

ActiveSelection ==
  [id: Id, revision: Nat, target: Target, heartbeatAt: Nat, expiresAt: Nat]

ASSUME TimingAssumption ==
  /\ Debounce \in Nat
  /\ TTL \in Nat \ {0}
  /\ MaxTime \in Nat
  /\ MaxRevision \in Nat

ASSUME NoSelectionAssumption ==
  /\ NoSelection \notin PendingSelection
  /\ NoSelection \notin ActiveSelection
  /\ NoSelection \notin Id

VARIABLES
  now,       \* the clock the callers read
  pending,   \* _pending: the debounced request, or NoSelection
  active,    \* _active: the selection whose subscription is running
  revision,  \* _revision: the number of the latest request
  phase,     \* the await the transition lock's holder is in
  at,        \* the `now` argument of the reconcile that holds the lock
  want,      \* reconcile's local `pending`
  opening,   \* reconcile's local `selection_id`: the subscription being opened
  open,      \* ids of the subscriptions that were opened and not closed
  failed     \* an exception left the controller: only stop may follow

vars == <<now, pending, active, revision, phase, at, want, opening, open, failed>>

TypeOK ==
  /\ now \in Nat
  /\ pending \in PendingSelection \cup {NoSelection}
  /\ active \in ActiveSelection \cup {NoSelection}
  /\ revision \in Nat
  /\ phase \in Phase
  /\ at \in Nat
  /\ want \in PendingSelection \cup {NoSelection}
  /\ opening \in Id \cup {NoSelection}
  /\ open \subseteq Id
  /\ failed \in BOOLEAN

Init ==
  /\ now = 0
  /\ pending = NoSelection
  /\ active = NoSelection
  /\ revision = 0
  /\ phase = "idle"
  /\ at = 0
  /\ want = NoSelection
  /\ opening = NoSelection
  /\ open = {}
  /\ failed = FALSE

-----------------------------------------------------------------------------
(***************************************************************************)
(* request: the newest request replaces whatever was pending.              *)
(***************************************************************************)
Request(target, requestedAt, expiresAt) ==
  /\ ~failed
  /\ revision < MaxRevision
  /\ requestedAt <= now
  /\ expiresAt > requestedAt
  /\ revision' = revision + 1
  /\ pending' = [revision   |-> revision + 1,
                 target     |-> target,
                 activateAt |-> requestedAt + Debounce,
                 expiresAt  |-> expiresAt]
  /\ UNCHANGED <<now, active, phase, at, want, opening, open, failed>>

(* replace(active, heartbeat_at=..., expires_at=...) *)
Renew(selection, heartbeatAt, expiresAt) ==
  [selection EXCEPT !.heartbeatAt = heartbeatAt, !.expiresAt = expiresAt]

(* heartbeat: moves the lease of the matching selection, never backwards. *)
Heartbeat(beat) ==
  /\ ~failed
  /\ phase = "idle"
  /\ active # NoSelection
  /\ beat <= now
  /\ beat >= active.heartbeatAt
  /\ active' = Renew(active, beat, beat + TTL)
  /\ UNCHANGED <<now, pending, revision, phase, at, want, opening, open, failed>>

-----------------------------------------------------------------------------
(***************************************************************************)
(* reconcile.  Due and Lapsed are its early returns; Decide is what it     *)
(* does once an expired selection is out of the way, `current` being the   *)
(* selection that is active then.                                          *)
(***************************************************************************)
Due(t) == pending # NoSelection /\ pending.activateAt <= t

Lapsed(t) == Due(t) /\ pending.expiresAt <= t

Matches(current) == current # NoSelection /\ current.target = pending.target

(* Mutant: the revision is not looked at again after an await. *)
SupersededMutant == FALSE

Superseded == pending # NoSelection => pending.revision # want.revision

(* The lock is released and the locals of the coroutine are gone. *)
Release ==
  /\ phase' = "idle"
  /\ at' = 0
  /\ want' = NoSelection
  /\ opening' = NoSelection

Keep(current) ==
  /\ active' = current
  /\ Release

(* Mutant: the pending request is cleared before subscribe is awaited. *)
StartSubscribeMutant(t) ==
  /\ active' = NoSelection
  /\ pending' = NoSelection
  /\ phase' = "subscribing"
  /\ at' = t
  /\ want' = pending
  /\ opening' \in Id \ open

StartSubscribe(t) ==
  /\ active' = NoSelection
  /\ phase' = "subscribing"
  /\ at' = t
  /\ want' = pending
  /\ opening' \in Id \ open
  /\ UNCHANGED pending

Decide(t, current) ==
  \/ /\ ~Due(t)
     /\ Keep(current)
     /\ UNCHANGED pending
  \/ /\ Lapsed(t)
     /\ Keep(current)
     /\ pending' = NoSelection
  \/ /\ Due(t) /\ ~Lapsed(t) /\ Matches(current)
     /\ Keep(Renew(current, t, pending.expiresAt))
     /\ pending' = NoSelection
  \/ /\ Due(t) /\ ~Lapsed(t) /\ ~Matches(current) /\ current # NoSelection
     /\ phase' = "switching"
     /\ at' = t
     /\ want' = pending
     /\ active' = current
     /\ UNCHANGED <<pending, opening>>
  \/ /\ Due(t) /\ ~Lapsed(t) /\ current = NoSelection
     /\ StartSubscribe(t)

(* Mutant: the lease is not looked at. *)
ExpiredMutant(t) == FALSE

Expired(t) == active # NoSelection /\ active.expiresAt <= t

Reconcile(t) ==
  /\ ~failed
  /\ phase = "idle"
  /\ t <= now
  /\ \/ /\ Expired(t)
        /\ phase' = "expiring"
        /\ at' = t
        /\ UNCHANGED <<pending, active, want, opening>>
     \/ /\ ~Expired(t)
        /\ Decide(t, active)
  /\ UNCHANGED <<now, revision, open, failed>>

-----------------------------------------------------------------------------
(* stop: forgets the pending request and closes the active selection. *)
Stop ==
  /\ phase = "idle"
  /\ pending' = NoSelection
  /\ phase' = IF active = NoSelection THEN "idle" ELSE "stopping"
  /\ UNCHANGED <<now, active, revision, at, want, opening, open, failed>>

(***************************************************************************)
(* The awaited unsubscribe returns.  An expiry clean-up goes on with the   *)
(* pending request of that moment, a switch only if its request is still   *)
(* the pending one, a stop ends.                                           *)
(***************************************************************************)
CleanupDone ==
  /\ phase \in {"expiring", "switching", "stopping"}
  /\ open' = open \ {active.id}
  /\ \/ /\ phase = "expiring"
        /\ Decide(at, NoSelection)
     \/ /\ phase = "switching" /\ ~Superseded
        /\ StartSubscribe(at)
     \/ /\ phase = "stopping" \/ (phase = "switching" /\ Superseded)
        /\ Keep(NoSelection)
        /\ UNCHANGED pending
  /\ UNCHANGED <<now, revision, failed>>

(* The awaited unsubscribe raises or misses its ten-second deadline. *)
CleanupFails ==
  /\ phase \in {"expiring", "switching", "stopping", "discarding"}
  /\ Release
  /\ failed' = TRUE
  /\ UNCHANGED <<now, pending, active, revision, open>>

(***************************************************************************)
(* The awaited subscribe returns.  If another request came in meanwhile    *)
(* the new subscription is stale and is closed at once.                    *)
(***************************************************************************)
SubscribeDone ==
  /\ phase = "subscribing"
  /\ open' = open \cup {opening}
  /\ \/ /\ Superseded
        /\ phase' = "discarding"
        /\ UNCHANGED <<active, pending, at, want, opening>>
     \/ /\ ~Superseded
        /\ active' = [id          |-> opening,
                      revision    |-> want.revision,
                      target      |-> want.target,
                      heartbeatAt |-> at,
                      expiresAt   |-> want.expiresAt]
        /\ pending' = NoSelection
        /\ Release
  /\ UNCHANGED <<now, revision, failed>>

(* subscribe raises: a rejected target is retried, any other error ends the loop. *)
SubscribeFails ==
  /\ phase = "subscribing"
  /\ Release
  /\ failed' \in BOOLEAN
  /\ UNCHANGED <<now, pending, active, revision, open>>

(* Mutant: the stale subscription is forgotten, not closed. *)
DiscardDoneMutant ==
  /\ phase = "discarding"
  /\ Release
  /\ UNCHANGED <<now, pending, active, revision, open, failed>>

DiscardDone ==
  /\ phase = "discarding"
  /\ open' = open \ {opening}
  /\ Release
  /\ UNCHANGED <<now, pending, active, revision, failed>>

-----------------------------------------------------------------------------
(* The process dies: its memory and its sockets go with it. *)
Restart ==
  /\ pending' = NoSelection
  /\ active' = NoSelection
  /\ revision' = 0
  /\ Release
  /\ open' = {}
  /\ failed' = FALSE
  /\ UNCHANGED now

Tick ==
  /\ now < MaxTime
  /\ now' = now + 1
  /\ UNCHANGED <<pending, active, revision, phase, at, want, opening, open, failed>>

Transition == CleanupDone \/ SubscribeDone \/ DiscardDone

Next ==
  \/ \E target \in Target, r \in 0..now, e \in 1..(now + TTL) : Request(target, r, e)
  \/ \E beat \in 0..now : Heartbeat(beat)
  \/ \E t \in 0..now : Reconcile(t)
  \/ Stop
  \/ CleanupDone
  \/ CleanupFails
  \/ SubscribeDone
  \/ SubscribeFails
  \/ DiscardDone
  \/ Restart
  \/ Tick

Spec == Init /\ [][Next]_vars

(***************************************************************************)
(* The command loop of selection_runtime.py calls reconcile with the       *)
(* current time every 0.1 s for as long as the process lives, and asyncio  *)
(* resumes an await that finished; nothing says a user acts.  The loop may *)
(* be in an await whenever it is looked at, so its turn is strongly fair.  *)
(***************************************************************************)
FairSpec ==
  /\ Spec
  /\ SF_vars(Reconcile(now))
  /\ WF_vars(Transition)
  /\ WF_vars(Tick)

-----------------------------------------------------------------------------
(* Properties *)

(* Two subscriptions never run together, whatever request arrives inside an  *)
(* await: the old one is closed before the new one opens, and a stale one is *)
(* closed before the lock is released.                                       *)
SingleSubscription == \A i, j \in open : i = j

(* A released lock leaves no subscription nobody refers to, and no active    *)
(* selection whose subscription is gone: the ids opened and not closed are   *)
(* exactly the active one.                                                   *)
NoLeakedSubscription ==
  phase = "idle" /\ ~failed =>
    open = (IF active = NoSelection THEN {} ELSE {active.id})

(* A selection becomes active only for the newest request: a request made    *)
(* while the old subscription was closing or the new one was opening is      *)
(* never overtaken by the older one.                                         *)
OnlyLatestActivates ==
  [][active' # NoSelection /\ (active = NoSelection \/ active.id # active'.id)
       => active'.revision = revision]_vars

(* A due request is never lost by an await: pending is emptied only by       *)
(* activating it, by its deadline, by stop or by the death of the process.   *)
PendingNeverLost ==
  [][pending # NoSelection /\ pending' = NoSelection =>
       \/ pending.expiresAt <= now
       \/ active' # NoSelection /\ active'.target = pending.target
       \/ Stop
       \/ Restart]_vars

(* A selection whose lease ran out does not stay subscribed: it is closed,   *)
(* renewed, or the service reports the failure.                              *)
ExpiredIsClosed ==
  (active # NoSelection /\ active.expiresAt <= now)
    ~> (active = NoSelection \/ active.expiresAt > now \/ failed)
=============================================================================
