------------------------------ MODULE RecoveryRuns ------------------------------
(***************************************************************************)
(* The two recoveries of missing candles: the full window every quarter of *)
(* an hour (candle_recovery.py) and the endpoints of the metrics every     *)
(* minute (candle_endpoint_recovery.py).  A run scans for missing minutes, *)
(* fetches them over REST within a request budget (candle_history.py),     *)
(* inserts what is absent, scans again, and publishes what it found in a   *)
(* database row and two files (recovery_evidence.py).  A lane's lock lets  *)
(* one run at a time through, so a behaviour is that of one lane.          *)
(***************************************************************************)
EXTENDS Integers, Sequences, SequencesExt, FiniteSets, FiniteSetsExt

CONSTANTS
  N,            \* targets, in the order of venue and symbol
  VenueOf,      \* the venue of a target
  LastMinute,   \* minutes 1..LastMinute are scanned, the last being the current one
  Requests,     \* request budget of a run (120; 20)
  Pages,        \* pages a target may take in a run (6; 1)
  Nothing,      \* a model value: no file, no result
  MaxChanges,   \* bound: definitions that change
  MaxFaults,    \* bound: failing calls and deadlines
  MaxDeaths     \* bound: deaths of the process

ASSUME RecoveryAssumption ==
  /\ {N, LastMinute, Requests, Pages} \subseteq Nat \ {0}
  /\ {MaxChanges, MaxFaults, MaxDeaths} \subseteq Nat

Target == 1..N
Minute == 1..LastMinute
Venue == {VenueOf[t] : t \in Target}
Lane == {"full", "endpoints"}
Priority == <<"current", "recent">>

VARIABLES
  lane,
  rows,       \* candle_1m: the minutes present, or not expected of the current definition
  generation, \* the definition each target has
  runStage,   \* where _run_locked is
  run,        \* the run's id, modulo 3
  roster,     \* the definitions loaded at the start
  before,     \* the minutes each target missed, or Nothing when it was not scanned
  work,       \* the targets still to serve, with the priority that calls for it
  workLeft,   \* requests the run still has
  late,       \* the run's deadline has passed
  exhausted, errors, deferred,
  askedOf,    \* the targets a request was made for
  result,     \* what the run found, or Nothing
  cursor,     \* _next_start, or _last_targets of each priority
  cooling,    \* venues that are rate limited
  runRow,     \* collector_runs: the status of the run, or Nothing before its row
  state,      \* candle-recovery-state.json
  completed,  \* candle-recovery-latest-completed.json
  changes, faults, deaths

dbVars == <<rows, generation, runRow>>
runVars == <<run, roster, before, work, workLeft, late, exhausted, errors, deferred, askedOf, result>>
memoryVars == <<cursor, cooling>>
fileVars == <<state, completed>>
boundVars == <<changes, faults, deaths>>
recoveryVars == <<lane, dbVars, runStage, runVars, memoryVars, fileVars, boundVars>>

Execution == {"running", "succeeded", "partial", "failed"}
File == [run: 0..2, execution: Execution, previous: {Nothing} \cup 0..2]

ASSUME NothingIsNoFile == Nothing \notin File
ASSUME NothingIsNoStatus == Nothing \notin Execution

RecoveryTypeOK ==
  /\ lane \in Lane
  /\ rows \subseteq Target \X Minute
  /\ generation \in [Target -> 0..MaxChanges] /\ roster \in [Target -> 0..MaxChanges]
  /\ runStage \in {"idle", "start", "scan", "serve", "rescan", "finish", "publish"}
  /\ run \in 0..2
  /\ before \in [Target -> (SUBSET Minute) \cup {Nothing}]
  /\ work \in Seq(Target \X (Range(Priority) \cup {"all"}))
  /\ workLeft \in 0..Requests
  /\ {late, exhausted} \subseteq BOOLEAN
  /\ errors \subseteq Target /\ deferred \subseteq Target /\ askedOf \subseteq Target
  /\ result \in {"succeeded", "partial", Nothing}
  /\ cursor \in [all: 0..N - 1, current: 0..N, recent: 0..N]
  /\ cooling \subseteq Venue
  /\ runRow \in Execution \cup {Nothing}
  /\ state \in File \cup {Nothing} /\ completed \in File \cup {Nothing}
  /\ changes \in 0..MaxChanges /\ faults \in 0..MaxFaults /\ deaths \in 0..MaxDeaths

NoCursor == [all |-> 0, current |-> 0, recent |-> 0]

RecoveryInit ==
  /\ lane \in Lane
  /\ rows = {}
  /\ generation = [t \in Target |-> 0] /\ roster = generation
  /\ runStage = "idle" /\ run = 0
  /\ before = [t \in Target |-> Nothing] /\ work = <<>> /\ workLeft = 0
  /\ late = FALSE /\ exhausted = FALSE
  /\ errors = {} /\ deferred = {} /\ askedOf = {} /\ result = Nothing
  /\ cursor = NoCursor /\ cooling = {}
  /\ runRow = Nothing
  /\ state = Nothing /\ completed = Nothing
  /\ changes = 0 /\ faults = 0 /\ deaths = 0

Missing(t) == {m \in Minute : <<t, m>> \notin rows}

-----------------------------------------------------------------------------
(* The rest of the system *)

(* A new definition: none of the window's minutes is expected of it. *)
DefinitionChanges(t) ==
  /\ changes < MaxChanges
  /\ changes' = changes + 1
  /\ generation' = [generation EXCEPT ![t] = @ + 1]
  /\ rows' = rows \cup ({t} \X Minute)
  /\ UNCHANGED <<lane, runRow, runStage, runVars, memoryVars, fileVars, faults, deaths>>

CooldownEnds(venue) ==
  /\ venue \in cooling
  /\ cooling' = cooling \ {venue}
  /\ UNCHANGED <<lane, dbVars, runStage, runVars, cursor, fileVars, boundVars>>

-----------------------------------------------------------------------------
(* A run *)

RunForgotten ==
  /\ before' = [t \in Target |-> Nothing] /\ work' = <<>> /\ workLeft' = 0 /\ late' = FALSE
  /\ exhausted' = FALSE /\ errors' = {} /\ deferred' = {} /\ askedOf' = {} /\ result' = Nothing
  /\ roster' = [t \in Target |-> 0]

(* previous_completed_run_id, then the running state, before the database is opened. *)
BeginRun ==
  /\ runStage = "idle"
  /\ runStage' = "start"
  /\ run' = (run + 1) % 3
  /\ state' = [run      |-> run', execution |-> "running",
               previous |-> IF completed = Nothing THEN Nothing ELSE completed.run]
  /\ runRow' = Nothing
  /\ UNCHANGED <<lane, rows, generation, roster, before, work, workLeft, late, exhausted,
                 errors, deferred, askedOf, result, memoryVars, completed, boundVars>>

(* start_recovery_run and load_recovery_targets *)
Start ==
  /\ runStage = "start"
  /\ runStage' = "scan"
  /\ runRow' = "running"
  /\ roster' = generation
  /\ workLeft' = Requests
  /\ UNCHANGED <<lane, rows, generation, run, before, work, late, exhausted, errors,
                 deferred, askedOf, result, memoryVars, fileVars, boundVars>>

(* How far behind the target served last a target is. *)
Turn(t, last) == IF t > last THEN t - last ELSE t + N - last

(* The targets that are wanted, going on after the one that was served last. *)
InTurn(wanted, last) ==
  CHOOSE s \in [1..Cardinality(wanted) -> wanted] :
    \A i, j \in DOMAIN s : i < j => Turn(s[i], last) < Turn(s[j], last)

ForEach(order, priority) == [i \in DOMAIN order |-> <<order[i], priority>>]

FullWork == ForEach(InTurn({t \in Target : Missing(t) # {}}, cursor.all), "all")

Calls(priority, t) ==
  IF priority = "current" THEN LastMinute \in Missing(t)
                          ELSE LastMinute \notin Missing(t) /\ Missing(t) # {}

PriorityWork(priority) ==
  ForEach(InTurn({t \in Target : Calls(priority, t)}, cursor[priority]), priority)

(* The endpoints lane serves the current minute of every target first. *)
Work == IF lane = "full" THEN FullWork
        ELSE PriorityWork("current") \o PriorityWork("recent")

Scan ==
  /\ runStage = "scan"
  /\ runStage' = "serve"
  /\ before' = [t \in Target |-> Missing(t)]
  /\ work' = Work
  /\ UNCHANGED <<lane, dbVars, run, roster, workLeft, late, exhausted, errors, deferred, askedOf,
                 result,
                 memoryVars, fileVars, boundVars>>

Target1 == work[1][1]
Priority1 == work[1][2]

(* _next_start or _last_targets after serving the first target, or giving it up unserved. *)
After(t, served) ==
  IF Priority1 = "all" THEN [cursor EXCEPT !.all = IF served THEN t % N ELSE t - 1]
  ELSE IF served THEN [cursor EXCEPT ![Priority1] = t] ELSE cursor

Skipped ==
  exhausted \/ VenueOf[Target1] \in cooling \/ (lane = "endpoints" /\ workLeft = 0)

Skip ==
  /\ runStage = "serve" /\ work # <<>>
  /\ Skipped
  /\ deferred' = deferred \cup {Target1}
  /\ work' = Tail(work)
  /\ UNCHANGED <<lane, dbVars, runStage, run, roster, before, workLeft, late, exhausted, errors,
                 askedOf, result,
                 memoryVars, fileVars, boundVars>>

(* A page gives one minute: the oldest first, the endpoints lane the newest. *)
PageOrder(minutes) ==
  IF lane = "full" THEN SetToSortSeq(minutes, LAMBDA a, b : a < b)
                   ELSE SetToSortSeq(minutes, LAMBDA a, b : a > b)

FetchedMinutes(minutes, pages) == {PageOrder(minutes)[i] : i \in 1..pages}

(* A page is asked for as long as the target and the run have a request left. *)
PageCount(minutes) == Min({Cardinality(minutes), Pages, workLeft})

(* The full lane asks for what it scanned, the endpoints lane scans the target again. *)
Wanted(t) ==
  IF lane = "full" THEN before[t]
  ELSE IF generation[t] = roster[t] THEN Missing(t) ELSE {}

(* Mutant: the next run starts where this one did. *)
NextCursorMutant(t, pages) == cursor

NextCursor(t, pages) == After(t, pages > 0)

(***************************************************************************)
(* fetch_missing and insert_missing_candles: as many pages as the target's *)
(* and the run's budgets allow; what is absent is inserted if the target   *)
(* still has the definition that was scanned.                              *)
(***************************************************************************)
Serve(got) ==
  /\ runStage = "serve" /\ work # <<>>
  /\ ~Skipped
  /\ LET t == Target1
         wanted == Wanted(t)
         pages == PageCount(wanted)
         changed == got # {} /\ generation[t] # roster[t]
         short == pages < Cardinality(wanted)
     IN  /\ got \subseteq FetchedMinutes(wanted, pages)
         /\ workLeft' = workLeft - pages
         /\ rows' = IF changed THEN rows ELSE rows \cup ({t} \X got)
         /\ errors' = IF changed THEN errors \cup {t} ELSE errors
         /\ deferred' = IF short /\ ~changed THEN deferred \cup {t} ELSE deferred
         /\ exhausted' = (short /\ pages < Pages /\ ~changed)
         /\ before' = [before EXCEPT ![t] = @ \cup wanted]
         /\ askedOf' = IF pages > 0 THEN askedOf \cup {t} ELSE askedOf
         /\ cursor' = IF wanted = {} THEN After(t, TRUE) ELSE NextCursor(t, pages)
  /\ work' = Tail(work)
  /\ UNCHANGED <<lane, generation, runRow, runStage, run, roster, late, result, cooling,
                 fileVars, boundVars>>

Fails ==
  /\ faults < MaxFaults
  /\ faults' = faults + 1

(***************************************************************************)
(* A rate limit, a rejected payload, a server or store that fails: pages   *)
(* fetched before it are lost, the venue may have to cool down.            *)
(***************************************************************************)
ServeFails(limited) ==
  /\ runStage = "serve" /\ work # <<>>
  /\ ~Skipped /\ Wanted(Target1) # {} /\ workLeft > 0
  /\ Fails
  /\ workLeft' = workLeft - 1
  /\ errors' = errors \cup {Target1}
  /\ askedOf' = askedOf \cup {Target1}
  /\ cursor' = After(Target1, TRUE)
  /\ cooling' = IF limited THEN cooling \cup {VenueOf[Target1]} ELSE cooling
  /\ work' = Tail(work)
  /\ UNCHANGED <<lane, dbVars, runStage, run, roster, before, late, exhausted, deferred, result,
                 fileVars, changes, deaths>>

Deadline ==
  /\ runStage \in {"serve", "rescan"} /\ ~late
  /\ Fails
  /\ late' = TRUE
  /\ workLeft' = 0
  /\ UNCHANGED <<lane, dbVars, runStage, run, roster, before, work, exhausted, errors, deferred,
                 askedOf, result, memoryVars, fileVars, changes, deaths>>

ServeEnds ==
  /\ runStage = "serve" /\ work = <<>>
  /\ runStage' = "rescan"
  /\ UNCHANGED <<lane, dbVars, runVars, memoryVars, fileVars, boundVars>>

(* Mutant: what was fetched is taken for what is now present. *)
RemainingMutant(t) == IF t \in errors \cup deferred THEN before[t] ELSE {}

(* The second scan, of the keys the first one found. *)
Remaining(t) == IF lane = "full" THEN Missing(t) ELSE before[t] \cap Missing(t)

(* A full run past its deadline has no second scan, so what remains is unknown. *)
Unscanned == IF late /\ lane = "full" THEN Target \ errors ELSE {}

(* The roster is loaded again: the definitions served must still be the current ones. *)
Verdict(put) ==
  IF /\ ~(late /\ lane = "full")
     /\ \A t \in Target : Remaining(t) = {}
     /\ errors = {} /\ put = {}
     /\ roster = generation
  THEN "succeeded" ELSE "partial"

Rescan ==
  /\ runStage = "rescan"
  /\ runStage' = "finish"
  /\ deferred' = deferred \cup Unscanned
  /\ result' = Verdict(deferred')
  /\ UNCHANGED <<lane, dbVars, run, roster, before, work, workLeft, late, exhausted, errors, askedOf,
                 memoryVars, fileVars, boundVars>>

(* finish_recovery_run: a row that was closed stays as it was closed. *)
Closed(status) == IF runRow = "running" THEN status ELSE runRow

Finish ==
  /\ runStage = "finish"
  /\ runStage' = "publish"
  /\ runRow' = Closed(result)
  /\ UNCHANGED <<lane, rows, generation, runVars, memoryVars, fileVars, boundVars>>

Ended(execution) == [state EXCEPT !.execution = execution]

Idle ==
  /\ runStage' = "idle"
  /\ RunForgotten
  /\ UNCHANGED run

(* write_recovery_state: the completed file first, for every terminal result. *)
Published(execution) == Ended(execution)

(* The process dies between the two replacements, or they both happen. *)
Publish ==
  /\ runStage = "publish"
  /\ completed' = Published(result)
  /\ \/ state' = Ended(result) /\ UNCHANGED <<memoryVars, deaths>>
     \/ /\ deaths < MaxDeaths /\ deaths' = deaths + 1
        /\ cursor' = NoCursor /\ cooling' = {}
        /\ UNCHANGED state
  /\ Idle
  /\ UNCHANGED <<lane, dbVars, changes, faults>>

(***************************************************************************)
(* An exception or a cancellation: the failure is published, and the run's *)
(* row closed once the database thread has been joined, unless it was      *)
(* closed before.  The replacement of either file may be what failed.      *)
(***************************************************************************)
RunFails ==
  /\ runStage # "idle"
  /\ Fails
  /\ completed' \in {completed, Published("failed")}
  /\ state' = Ended("failed")
  /\ runRow' = Closed("failed")
  /\ Idle
  /\ UNCHANGED <<lane, rows, generation, memoryVars, changes, deaths>>

RunDies ==
  /\ runStage # "idle"
  /\ deaths < MaxDeaths
  /\ deaths' = deaths + 1
  /\ cursor' = NoCursor /\ cooling' = {}
  /\ Idle
  /\ UNCHANGED <<lane, dbVars, fileVars, changes, faults>>

RunStep ==
  \/ BeginRun \/ Start \/ Scan \/ Skip \/ (\E got \in SUBSET Minute : Serve(got))
  \/ ServeEnds \/ Rescan \/ Finish \/ Publish

RecoveryNext ==
  \/ RunStep
  \/ \E t \in Target : DefinitionChanges(t)
  \/ \E venue \in Venue : CooldownEnds(venue)
  \/ \E limited \in BOOLEAN : ServeFails(limited)
  \/ Deadline
  \/ RunFails
  \/ RunDies

(* The loops start a run every 15 minutes, or every minute; rate limits end. *)
RecoveryFairness ==
  /\ WF_recoveryVars(RunStep)
  /\ WF_recoveryVars(\E venue \in Venue : CooldownEnds(venue))

RecoverySpec == RecoveryInit /\ [][RecoveryNext]_recoveryVars /\ RecoveryFairness

-----------------------------------------------------------------------------
(* Properties *)

(***************************************************************************)
(* A published success is true: no minute of the window that is expected of*)
(* a current definition is missing, whoever else inserted, changed or      *)
(* failed meanwhile, and its row and both files agree about it.            *)
(***************************************************************************)
SuccessIsTrue ==
  \A file \in {state, completed} \ {Nothing} :
    file.execution = "succeeded" => \A t \in Target : Missing(t) = {}

(***************************************************************************)
(* The files stay linked (docs/current/data-contracts.md:514): the         *)
(* completed file is that of the state's run or of the run the state names *)
(* as its predecessor, and a run that ended, however, is not shown as      *)
(* running, so no older success can be taken for the latest result.        *)
(***************************************************************************)
FilesAreLinked ==
  /\ completed # Nothing => completed.run \in {state.run, state.previous}
  /\ runStage = "idle" /\ deaths = 0 /\ faults = 0 /\ state # Nothing =>
       completed = state /\ state.execution # "running"

(* A run's row is left running by a dead process only. *)
RunRowsEnd ==
  runStage = "idle" /\ deaths = 0 => runRow # "running"

(***************************************************************************)
(* No target waits for ever behind others that always miss something,      *)
(* however small the budget: a target that keeps missing what its lane is  *)
(* to repair is asked for again and again, because the next run goes on    *)
(* where the last one stopped.  In the endpoints lane the current minute   *)
(* comes first, so the promise is about targets that miss it.  It is made  *)
(* as long as the service keeps starting runs.                             *)
(***************************************************************************)
Wanting(t) == IF lane = "full" THEN Missing(t) # {} ELSE LastMinute \in Missing(t)

EveryTargetIsAsked ==
  []<>(runStage # "idle") => \A t \in Target : []<>(~Wanting(t) \/ t \in askedOf)
===============================================================================
