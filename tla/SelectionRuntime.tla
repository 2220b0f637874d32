--------------------------- MODULE SelectionRuntime ---------------------------
(***************************************************************************)
(* The selected-data runtime of the market service: the Web process writes *)
(* one command file; one asyncio loop reads it, drives the                 *)
(* SelectionController, opens and closes a lease row in PostgreSQL and     *)
(* replaces the set of venue streams; the streams feed one bounded queue   *)
(* that one writer drains into the lease; the catalog refresh changes group*)
(* memberships meanwhile; the process may die at any await.                *)
(* (selection_runtime.py, selected_store.py, selected_streams.py and       *)
(* selection-command-repository.ts.)                                       *)
(*                                                                         *)
(* Every step of the loop is either a step of SelectionController joined   *)
(* with what the runtime does around it, or one of the awaits inside       *)
(* `_subscribe` and `_unsubscribe`.  `now` is the wall clock, `tick` the   *)
(* value the loop read when its turn began and goes on using.              *)
(***************************************************************************)
EXTENDS SelectionController, Sequences

CONSTANTS
  Recheck,      \* ACTIVE_MEMBERSHIP_REFRESH_SECONDS
  QueueSize,    \* SELECTED_EVENT_QUEUE_SIZE
  MaxVersion,   \* bound: definitions an instrument may have in a behaviour
  MaxDeaths     \* bound: deaths of the process in a behaviour

ASSUME RuntimeAssumption ==
  /\ Recheck \in Nat \ {0}
  /\ QueueSize \in Nat \ {0}
  /\ MaxVersion \in Nat \ {0}
  /\ MaxDeaths \in Nat

VARIABLES
  command,    \* control/selection.json, or NoSelection
  catalog,    \* Target -> version of its eligible definition, 0 when ineligible
  leases,     \* selected_group_leases: Id -> row, or NoSelection
  pc,         \* where the command loop is
  step,       \* which await inside subscribe or unsubscribe it is in
  after,      \* what the caller of controller.stop does once it returns
  tick,       \* the loop's `now`
  cmd,        \* the loop's `command`
  memo,       \* _last_requested_at, _last_identity, _last_heartbeat_at
  retryAt,    \* _retry_command_at, or NoSelection
  opened,     \* _subscribe's locals: activated_at and the definition it read
  again,      \* the active selection a changed membership is to resubscribe
  previous,   \* _acknowledge_previous: the lease it still has to acknowledge
  emitting,   \* _emitting_selection_id
  stream,     \* the target and definition the streams run for, or NoSelection
  definition, \* _active_instrument_fingerprint, 0 when none
  checkAt,    \* _next_membership_check
  queue,      \* the event queue: each event's selection_id
  batch,      \* the writer's batch
  fault,      \* why the loop gave up
  deaths,     \* history: deaths of the process
  beats       \* history: Target -> latest heartbeat any command carried, -1 when none

dbVars == <<command, catalog, leases>>
loopVars == <<pc, step, after, tick, cmd, memo, retryAt, opened, again, previous, fault>>
streamVars == <<emitting, stream, definition, checkAt>>
eventVars == <<queue, batch>>
historyVars == <<deaths, beats>>
runtimeVars == <<dbVars, loopVars, streamVars, eventVars, historyVars>>
allVars == <<vars, runtimeVars>>

Pc == {"down", "poll", "accept", "reconcile", "transit", "reject", "resubscribe",
       "refresh", "shutdown", "exit"}

Step == {"none", "unsubscribe", "flush", "lookup", "activate", "ack", "open", "undo"}

Command == [target: Target, requestedAt: Nat, heartbeatAt: Nat]

Lease ==
  [target: Target, activatedAt: Nat, heartbeatAt: Nat, expiresAt: Nat,
   status: {"active", "superseded", "cleaned"}]

ASSUME NoLeaseAssumption == NoSelection \notin Lease

RuntimeTypeOK ==
  /\ TypeOK
  /\ command \in Command \cup {NoSelection}
  /\ catalog \in [Target -> 0..MaxVersion]
  /\ leases \in [Id -> Lease \cup {NoSelection}]
  /\ pc \in Pc
  /\ step \in Step
  /\ after \in {"none", "retry", "resubscribe", "exit"}
  /\ tick \in Nat
  /\ cmd \in Command \cup {NoSelection}
  /\ memo \in Command \cup {NoSelection}
  /\ retryAt \in Nat \cup {NoSelection}
  /\ opened \in [at: Nat, version: 0..MaxVersion]
  /\ again \in ActiveSelection \cup {NoSelection}
  /\ previous \in Id \cup {NoSelection}
  /\ emitting \in Id \cup {NoSelection}
  /\ stream \in [target: Target, version: 1..MaxVersion] \cup {NoSelection}
  /\ definition \in 0..MaxVersion
  /\ checkAt \in Nat \cup {NoSelection}
  /\ queue \in Seq(Id) /\ Len(queue) <= QueueSize
  /\ batch \in Seq(Id)
  /\ fault \in {"none", "heartbeat", "activation", "stream", "cleanup"}
  /\ deaths \in 0..MaxDeaths
  /\ beats \in [Target -> Nat \cup {-1}]

ActiveRows == {i \in Id : leases[i] # NoSelection /\ leases[i].status = "active"}

NothingOpened == [at |-> 0, version |-> 0]

(* What a new process starts from. *)
FreshMemory ==
  /\ pc' = "poll" /\ step' = "none" /\ after' = "none"
  /\ tick' = 0
  /\ cmd' = NoSelection /\ memo' = NoSelection /\ retryAt' = NoSelection
  /\ opened' = NothingOpened /\ again' = NoSelection /\ previous' = NoSelection
  /\ emitting' = NoSelection /\ stream' = NoSelection
  /\ definition' = 0 /\ checkAt' = NoSelection
  /\ queue' = <<>> /\ batch' = <<>>
  /\ fault' = "none"

RuntimeInit ==
  /\ Init
  /\ command = NoSelection
  /\ catalog = [t \in Target |-> 1]
  /\ leases = [i \in Id |-> NoSelection]
  /\ pc = "poll" /\ step = "none" /\ after = "none"
  /\ tick = 0
  /\ cmd = NoSelection /\ memo = NoSelection /\ retryAt = NoSelection
  /\ opened = NothingOpened /\ again = NoSelection /\ previous = NoSelection
  /\ emitting = NoSelection /\ stream = NoSelection
  /\ definition = 0 /\ checkAt = NoSelection
  /\ queue = <<>> /\ batch = <<>>
  /\ fault = "none"
  /\ deaths = 0
  /\ beats = [t \in Target |-> -1]

-----------------------------------------------------------------------------
(* The Web process and the catalog refresh *)

(***************************************************************************)
(* execute "select": re-selecting the current, unexpired target renews its *)
(* heartbeat; another target needs a clock that moved past the last        *)
(* request.                                                                *)
(***************************************************************************)
Current(target) ==
  command # NoSelection /\ command.target = target /\ now - command.heartbeatAt < TTL

WriteCommand(next) ==
  /\ command' = next
  /\ beats' = [beats EXCEPT ![next.target] = next.heartbeatAt]
  /\ UNCHANGED <<vars, catalog, leases, loopVars, streamVars, eventVars, deaths>>

WebSelect(target) ==
  /\ ~Current(target)
  /\ command # NoSelection => command.requestedAt < now
  /\ WriteCommand([target |-> target, requestedAt |-> now, heartbeatAt |-> now])

WebHeartbeat(target) ==
  /\ Current(target)
  /\ WriteCommand([command EXCEPT !.heartbeatAt = now])

(* A catalog refresh gives the target another definition or withdraws it. *)
CatalogChange(target, version) ==
  /\ version # catalog[target]
  /\ catalog' = [catalog EXCEPT ![target] = version]
  /\ UNCHANGED <<vars, command, leases, loopVars, streamVars, eventVars, historyVars>>

-----------------------------------------------------------------------------
(* The command loop *)

Readable(c) == c # NoSelection /\ now < c.heartbeatAt + TTL

(* One turn begins: the clock is read, then the command file. *)
Poll ==
  /\ pc = "poll"
  /\ pc' = "accept"
  /\ tick' = now
  /\ cmd' = IF Readable(command) THEN command ELSE NoSelection
  /\ UNCHANGED <<vars, dbVars, step, after, memo, retryAt, opened, again, previous, fault,
                 streamVars, eventVars, historyVars>>

RetryDue == retryAt # NoSelection /\ retryAt <= tick

(* _accept_command's early returns: an older or already handled command. *)
Handled ==
  cmd # NoSelection =>
    /\ memo # NoSelection
    /\ \/ cmd.requestedAt < memo.requestedAt
       \/ /\ cmd.requestedAt = memo.requestedAt
          /\ \/ cmd.target # memo.target
             \/ cmd.heartbeatAt < memo.heartbeatAt
             \/ cmd.heartbeatAt = memo.heartbeatAt /\ ~RetryDue

ServesCommand ==
  active # NoSelection /\ active.expiresAt > tick /\ active.target = cmd.target

Remember(retry) ==
  /\ memo' = cmd
  /\ cmd' = NoSelection
  /\ retryAt' = retry

AcceptNothing ==
  /\ pc = "accept"
  /\ Handled
  /\ pc' = "reconcile"
  /\ cmd' = NoSelection
  /\ UNCHANGED <<vars, dbVars, step, after, tick, memo, retryAt, opened, again, previous, fault,
                 streamVars, eventVars, historyVars>>

(* The command's target is not an eligible member: look again later. *)
AcceptRejected ==
  /\ pc = "accept"
  /\ ~Handled /\ ~ServesCommand
  /\ catalog[cmd.target] = 0
  /\ pc' = "reconcile"
  /\ Remember(tick + Recheck)
  /\ UNCHANGED <<vars, dbVars, step, after, tick, opened, again, previous, fault,
                 streamVars, eventVars, historyVars>>

AcceptRequest ==
  /\ pc = "accept"
  /\ ~Handled /\ ~ServesCommand
  /\ catalog[cmd.target] # 0
  /\ Request(cmd.target, cmd.requestedAt, cmd.heartbeatAt + TTL)
  /\ pc' = "reconcile"
  /\ Remember(NoSelection)
  /\ UNCHANGED <<dbVars, step, after, tick, opened, again, previous, fault,
                 streamVars, eventVars, historyVars>>

(***************************************************************************)
(* The command names the selection that runs: _heartbeat_active renews the *)
(* lease row and then the controller.  A row that does not take the        *)
(* heartbeat is an error that ends the loop.                               *)
(***************************************************************************)
NewBeat == cmd.heartbeatAt > active.heartbeatAt

RowTakesBeat ==
  /\ active.id \in ActiveRows
  /\ leases[active.id].heartbeatAt <= cmd.heartbeatAt

AcceptHeartbeat ==
  /\ pc = "accept"
  /\ ~Handled /\ ServesCommand
  /\ Remember(NoSelection)
  /\ \/ /\ ~NewBeat
        /\ pc' = "reconcile"
        /\ UNCHANGED <<vars, leases, fault>>
     \/ /\ NewBeat /\ RowTakesBeat
        /\ leases' = [leases EXCEPT ![active.id].heartbeatAt = cmd.heartbeatAt,
                                    ![active.id].expiresAt = cmd.heartbeatAt + TTL]
        /\ Heartbeat(cmd.heartbeatAt)
        /\ pc' = "reconcile"
        /\ UNCHANGED fault
     \/ /\ NewBeat /\ ~RowTakesBeat
        /\ fault' = "heartbeat"
        /\ pc' = "shutdown"
        /\ UNCHANGED <<vars, leases>>
  /\ UNCHANGED <<command, catalog, step, after, tick, opened, again, previous,
                 streamVars, eventVars, historyVars>>

(* The next await once the controller took a step: none, or the first of a coroutine. *)
Entered ==
  CASE phase' = "idle" -> "none"
    [] phase' = "subscribing" -> "lookup"
    [] OTHER -> "unsubscribe"

(* uuid4() repeats no id that a lease still in use has. *)
UnusedId ==
  opening' \in {NoSelection} \cup
    {i \in Id : leases[i] # NoSelection => leases[i].status = "cleaned"}

ReconcileStep ==
  /\ pc = "reconcile"
  /\ Reconcile(tick)
  /\ UnusedId
  /\ step' = Entered
  /\ pc' = IF phase' = "idle" THEN "refresh" ELSE "transit"
  /\ UNCHANGED <<dbVars, after, tick, cmd, memo, retryAt, opened, again, previous, fault,
                 streamVars, eventVars, historyVars>>

-----------------------------------------------------------------------------
(* _unsubscribe: stop the streams, let the writer drain the queue, close the lease *)

StopStreams ==
  /\ step = "unsubscribe"
  /\ stream' = NoSelection
  /\ step' = "flush"
  /\ UNCHANGED <<vars, dbVars, pc, after, tick, cmd, memo, retryAt, opened, again, previous,
                 fault, emitting, definition, checkAt, eventVars, historyVars>>

(* Mutant: the queue is not flushed before the lease is closed. *)
DrainedMutant == TRUE

Drained == queue = <<>> /\ batch = <<>>

Close(id) == [leases EXCEPT ![id].status = "cleaned"]

ForgetStream ==
  /\ definition' = 0
  /\ checkAt' = NoSelection
  /\ emitting' = NoSelection

(* Back in the controller, and from there to whoever called reconcile or stop. *)
Continue ==
  IF phase' # "idle" THEN "transit"
  ELSE CASE after = "none" -> "refresh"
         [] after = "retry" -> "poll"
         [] after = "resubscribe" -> "resubscribe"
         [] after = "exit" -> "exit"

(* The turn is over: `now` is read again. *)
NextTurn == tick' = IF pc' = "poll" THEN 0 ELSE tick

CloseLease ==
  /\ step = "flush"
  /\ Drained
  /\ active.id \in ActiveRows
  /\ leases' = Close(active.id)
  /\ ForgetStream
  /\ CleanupDone
  /\ UnusedId
  /\ step' = Entered
  /\ pc' = Continue
  /\ after' = "none"
  /\ NextTurn
  /\ UNCHANGED <<command, catalog, cmd, memo, retryAt, opened, again, previous,
                 fault, stream, eventVars, historyVars>>

(***************************************************************************)
(* The clean-up misses its deadline, maybe while close_selection commits   *)
(* in its thread, or finds no active row to close; whoever asked for it,   *)
(* or the shutdown, gives up.                                              *)
(***************************************************************************)
CleanupGivesUp ==
  /\ step \in {"unsubscribe", "flush"}
  /\ CleanupFails
  /\ leases' \in IF step = "flush" /\ Drained /\ active.id \in ActiveRows
                 THEN {leases, Close(active.id)} ELSE {leases}
  /\ fault' = "cleanup"
  /\ step' = "none"
  /\ pc' = IF after = "exit" THEN "exit" ELSE "shutdown"
  /\ after' = "none"
  /\ UNCHANGED <<command, catalog, tick, cmd, memo, retryAt, opened, again, previous,
                 streamVars, eventVars, historyVars>>

(* Mutant: the stopped selection comes back under its old revision. *)
ResubscribeMutant ==
  /\ pc = "resubscribe"
  /\ pending' = [revision   |-> again.revision,
                 target     |-> again.target,
                 activateAt |-> tick + Debounce,
                 expiresAt  |-> again.expiresAt]
  /\ pc' = "poll"
  /\ again' = NoSelection
  /\ NextTurn
  /\ UNCHANGED <<now, active, revision, phase, at, want, opening, open, failed,
                 dbVars, step, after, cmd, memo, retryAt, opened, previous, fault,
                 streamVars, eventVars, historyVars>>

(* membership changed: the stopped selection is requested again, same deadline. *)
Resubscribe ==
  /\ pc = "resubscribe"
  /\ Request(again.target, tick, again.expiresAt)
  /\ pc' = "poll"
  /\ again' = NoSelection
  /\ NextTurn
  /\ UNCHANGED <<dbVars, step, after, cmd, memo, retryAt, opened, previous, fault,
                 streamVars, eventVars, historyVars>>

-----------------------------------------------------------------------------
(* _subscribe: look the group up, open the lease, start the streams *)

Lookup ==
  /\ step = "lookup"
  /\ IF pending.expiresAt <= now \/ catalog[want.target] = 0
     THEN /\ SubscribeFails
          /\ ~failed'
          /\ pc' = "reject"
          /\ step' = "none"
          /\ UNCHANGED opened
     ELSE /\ opened' = [at |-> now, version |-> catalog[want.target]]
          /\ step' = "activate"
          /\ UNCHANGED <<vars, pc>>
  /\ UNCHANGED <<dbVars, after, tick, cmd, memo, retryAt, again, previous, fault,
                 streamVars, eventVars, historyVars>>

(* InvalidSelectionCommandError: the loop drops the request and retries the command later. *)
Reject ==
  /\ pc = "reject"
  /\ Stop
  /\ retryAt' = tick + Recheck
  /\ pc' = "refresh"
  /\ UNCHANGED <<dbVars, step, after, tick, cmd, memo, opened, again, previous, fault,
                 streamVars, eventVars, historyVars>>

(***************************************************************************)
(* activate_selection re-reads the membership in its own transaction.  A   *)
(* target withdrawn since the lookup is an InvalidSelectionError, which    *)
(* nobody catches.  A lease another process left active is superseded.     *)
(***************************************************************************)
Activatable ==
  /\ catalog[want.target] # 0
  /\ opened.at < pending.expiresAt
  /\ pending.expiresAt <= opened.at + TTL

(* Mutant: the lease a dead process left is not superseded. *)
SupersedeMutant(rows) == leases

Supersede(rows) ==
  [i \in Id |-> IF i \in rows THEN [leases[i] EXCEPT !.status = "superseded"] ELSE leases[i]]

Activate ==
  /\ step = "activate"
  /\ IF Activatable
     THEN /\ leases' = [Supersede(ActiveRows) EXCEPT
                          ![opening] = [target      |-> want.target,
                                        activatedAt |-> opened.at,
                                        heartbeatAt |-> opened.at,
                                        expiresAt   |-> pending.expiresAt,
                                        status      |-> "active"]]
          /\ previous' = IF ActiveRows = {} THEN NoSelection
                         ELSE CHOOSE i \in ActiveRows : TRUE
          /\ step' = "ack"
          /\ UNCHANGED <<vars, pc, fault, opened>>
     ELSE /\ SubscribeFails
          /\ failed'
          /\ pc' = "shutdown"
          /\ step' = "none"
          /\ fault' = "activation"
          /\ opened' = NothingOpened
          /\ UNCHANGED <<leases, previous>>
  /\ UNCHANGED <<command, catalog, after, tick, cmd, memo, retryAt, again,
                 streamVars, eventVars, historyVars>>

(* The superseded lease is marked cleaned, and events may be tagged with the new one. *)
Acknowledge ==
  /\ step = "ack"
  /\ leases' = IF previous = NoSelection THEN leases ELSE Close(previous)
  /\ previous' = NoSelection
  /\ emitting' = opening
  /\ step' = "open"
  /\ UNCHANGED <<vars, command, catalog, pc, after, tick, cmd, memo, retryAt, opened,
                 again, fault, stream, definition, checkAt, eventVars, historyVars>>

OpenStreams ==
  /\ step = "open"
  /\ SubscribeDone
  /\ stream' = [target |-> want.target, version |-> opened.version]
  /\ definition' = opened.version
  /\ checkAt' = opened.at + Recheck
  /\ opened' = NothingOpened
  /\ step' = "none"
  /\ pc' = "refresh"
  /\ UNCHANGED <<dbVars, after, tick, cmd, memo, retryAt, again, previous, fault, emitting,
                 eventVars, historyVars>>

(* replace_selection raises: close the streams, drain the queue, close the lease, give up. *)
OpenStreamsFails ==
  /\ step = "open"
  /\ step' = "undo"
  /\ UNCHANGED <<vars, dbVars, pc, after, tick, cmd, memo, retryAt, opened, again, previous,
                 fault, streamVars, eventVars, historyVars>>

UndoLease ==
  /\ step = "undo"
  /\ Drained
  /\ leases' = Close(opening)
  /\ ForgetStream
  /\ SubscribeFails
  /\ failed'
  /\ opened' = NothingOpened
  /\ fault' = "stream"
  /\ step' = "none"
  /\ pc' = "shutdown"
  /\ UNCHANGED <<command, catalog, after, tick, cmd, memo, retryAt, again, previous,
                 stream, eventVars, historyVars>>

-----------------------------------------------------------------------------
(***************************************************************************)
(* _refresh_active_membership: the group of the running selection is read  *)
(* again every Recheck.  A withdrawn target is stopped and its command     *)
(* retried; another definition is resubscribed under the same deadline.    *)
(***************************************************************************)
CheckDue == active # NoSelection /\ (checkAt = NoSelection \/ checkAt <= tick)

RefreshMembership ==
  /\ pc = "refresh"
  /\ IF ~CheckDue \/ catalog[active.target] = definition
     THEN /\ pc' = "poll"
          /\ UNCHANGED <<vars, step, after, retryAt, again>>
     ELSE /\ Stop
          /\ step' = "unsubscribe"
          /\ pc' = "transit"
          /\ IF catalog[active.target] = 0
             THEN /\ after' = "retry"
                  /\ retryAt' = tick + Recheck
                  /\ UNCHANGED again
             ELSE /\ after' = "resubscribe"
                  /\ again' = active
                  /\ UNCHANGED retryAt
  /\ checkAt' = IF CheckDue THEN tick + Recheck ELSE checkAt
  /\ NextTurn
  /\ UNCHANGED <<dbVars, cmd, memo, opened, previous, fault,
                 emitting, stream, definition, eventVars, historyVars>>

-----------------------------------------------------------------------------
(* The streams and the writer *)

(* _emit tags the event with the id that is emitting at that moment. *)
Emit ==
  /\ stream # NoSelection
  /\ emitting # NoSelection
  /\ Len(queue) < QueueSize
  /\ queue' = Append(queue, emitting)
  /\ UNCHANGED <<vars, dbVars, loopVars, streamVars, batch, historyVars>>

WriterTake ==
  /\ batch = <<>> /\ queue # <<>>
  /\ batch' = queue
  /\ queue' = <<>>
  /\ UNCHANGED <<vars, dbVars, loopVars, streamVars, historyVars>>

(* store_selected_events, one transaction per lease. *)
WriterStore ==
  /\ batch # <<>>
  /\ batch' = <<>>
  /\ UNCHANGED <<vars, dbVars, loopVars, streamVars, queue, historyVars>>

-----------------------------------------------------------------------------
(* The end of the process *)

(* stop_event is set: the loop ends at its next turn. *)
StopEvent ==
  /\ pc = "poll"
  /\ pc' = "shutdown"
  /\ UNCHANGED <<vars, dbVars, step, after, tick, cmd, memo, retryAt, opened, again, previous,
                 fault, streamVars, eventVars, historyVars>>

(* _shutdown: stop the controller, close the streams, drain the queue. *)
Shutdown ==
  /\ pc = "shutdown"
  /\ Stop
  /\ IF active = NoSelection
     THEN pc' = "exit" /\ UNCHANGED <<step, after>>
     ELSE pc' = "transit" /\ step' = "unsubscribe" /\ after' = "exit"
  /\ UNCHANGED <<dbVars, tick, cmd, memo, retryAt, opened, again, previous, fault,
                 streamVars, eventVars, historyVars>>

CloseStreams ==
  /\ pc = "exit"
  /\ stream # NoSelection
  /\ stream' = NoSelection
  /\ UNCHANGED <<vars, dbVars, loopVars, emitting, definition, checkAt, eventVars, historyVars>>

(* The process ends or is killed, and the supervisor starts another one. *)
StartOver ==
  /\ deaths < MaxDeaths
  /\ deaths' = deaths + 1
  /\ FreshMemory
  /\ Restart
  /\ UNCHANGED <<dbVars, beats>>

Exit == pc = "exit" /\ stream = NoSelection /\ Drained /\ StartOver

Crash == StartOver

Clock == Tick /\ UNCHANGED runtimeVars

-----------------------------------------------------------------------------
Loop ==
  \/ Poll
  \/ AcceptNothing
  \/ AcceptRejected
  \/ AcceptRequest
  \/ AcceptHeartbeat
  \/ ReconcileStep
  \/ StopStreams
  \/ CloseLease
  \/ Resubscribe
  \/ Lookup
  \/ Reject
  \/ Activate
  \/ Acknowledge
  \/ OpenStreams
  \/ UndoLease
  \/ RefreshMembership
  \/ Shutdown
  \/ CloseStreams

Writer == WriterTake \/ WriterStore

RuntimeNext ==
  \/ \E target \in Target : WebSelect(target)
  \/ \E target \in Target : WebHeartbeat(target)
  \/ \E target \in Target, version \in 0..MaxVersion : CatalogChange(target, version)
  \/ Loop
  \/ CleanupGivesUp
  \/ StopEvent
  \/ OpenStreamsFails
  \/ Emit
  \/ Writer
  \/ Exit
  \/ Crash
  \/ Clock

RuntimeSpec == RuntimeInit /\ [][RuntimeNext]_allVars

-----------------------------------------------------------------------------
(* Properties *)

(* The database never holds two active leases, in spite of leases a dead     *)
(* process left behind: the partial unique index is never violated.          *)
OneActiveLease == \A i, j \in ActiveRows : i = j

(* Streams run only under an active lease of their own target, and events    *)
(* are tagged with that lease: _emit never finds no selection, and nothing   *)
(* of the old target is written into the new selection.                      *)
StreamsUnderLease ==
  stream # NoSelection =>
    /\ emitting \in ActiveRows
    /\ leases[emitting].target = stream.target

(* Between two turns of the loop the controller, the lease row, the streams  *)
(* and the membership fingerprint tell the same story about the selection.   *)
ViewsAgree ==
  pc = "poll" /\ active # NoSelection =>
    /\ active.id \in ActiveRows
    /\ leases[active.id].target = active.target
    /\ leases[active.id].expiresAt = active.expiresAt
    /\ emitting = active.id
    /\ stream = [target |-> active.target, version |-> definition]

(* A lease never outlives the last command heartbeat of its target by more   *)
(* than the TTL: neither a restart of the process nor a resubscription for a *)
(* changed membership extends it (docs/current/data-contracts.md:161-162).   *)
LeaseWithinCommand ==
  \A i \in ActiveRows : leases[i].expiresAt <= beats[leases[i].target] + TTL

(* Every event in the queue or in the writer's hands belongs to a lease that *)
(* is still active: a lease is closed only after its events were written.    *)
NoOrphanEvents ==
  \A k \in DOMAIN (queue \o batch) : (queue \o batch)[k] \in ActiveRows

(* A superseded lease that nobody will acknowledge any more takes two deaths *)
(* of the process: one that leaves the lease active, and one between its     *)
(* replacement and the acknowledgement.  Nothing else leaves one behind.     *)
Unacknowledged ==
  {i \in Id \ {previous} : leases[i] # NoSelection /\ leases[i].status = "superseded"}

UnacknowledgedLeasesAreLeftovers ==
  Unacknowledged # {} => Cardinality(Unacknowledged) < deaths

(* What a switch of the selection must keep: streams under their own lease   *)
(* only, and no event for a lease that is closed.                            *)
SwitchesAreClean == RuntimeTypeOK /\ StreamsUnderLease /\ NoOrphanEvents

(* What the leases must keep across deaths, restarts and changed definitions. *)
LeasesAgree ==
  OneActiveLease /\ UnacknowledgedLeasesAreLeftovers /\ LeaseWithinCommand /\ ViewsAgree

(* Seen through the controller's variables the runtime is the controller: it *)
(* calls request, heartbeat, reconcile and stop only as the controller       *)
(* allows, and asks for no lease beyond now + TTL.                           *)
ImplementsController == Spec

(* tests/test_selection.py:100 "debounces last write": after a turn of the   *)
(* loop nothing waits, and the running selection is the one the latest       *)
(* accepted command names.                                                   *)
LatestCommandRuns ==
  pc = "poll" /\ pending = NoSelection /\ active # NoSelection
    /\ memo # NoSelection /\ retryAt = NoSelection /\ cmd = NoSelection
      => active.target = memo.target
=============================================================================
