------------------------- MODULE ActivityPublication -------------------------
(***************************************************************************)
(* The file of Bitget's intraday activity (native_activity_publication.py  *)
(* and the _activity_loop of service.py).  A short-lived child of the      *)
(* service makes each publication under a file lock; the service kills a   *)
(* child that takes too long, and a service that dies leaves its child     *)
(* behind to run beside the next one's.  Contents are identified by the    *)
(* number of the change that made them, so two readings of a file are      *)
(* equal exactly if nobody changed it between them.                        *)
(***************************************************************************)
EXTENDS Integers, FiniteSets

CONSTANTS
  Children,     \* children that may be alive at once
  NoChild,      \* a model value
  Absent,       \* a model value: there is no file
  MaxCutoff,    \* bound: candle cutoffs that pass
  MaxStarts,    \* bound: children started
  MaxOutside,   \* bound: changes of the file by somebody else
  MaxFaults     \* bound: failing steps and deaths

ASSUME ActivityAssumption ==
  /\ NoChild \notin Children
  /\ {MaxCutoff, MaxStarts, MaxOutside, MaxFaults} \subseteq Nat

FileKinds == {"valid", "corrupt", "foreign"}

VARIABLES
  cutoffClock, \* the candle cutoff of the wall clock
  file,       \* native-activity.json: its content's number, kind and cutoff
  backups,    \* the contents kept as native-activity.json.corrupt-*
  pending,    \* staged files nobody will remove
  child,      \* each child's step, its `now`, what it read and what it computed
  holder,     \* who has the flock
  awaited,    \* the child the service waits for
  destroyed,  \* history: corrupt contents replaced without a backup
  unseen,     \* history: contents that came after the last check of a publication
  written, starts, outside, faults

activityVars == <<cutoffClock, file, backups, pending, child, holder, awaited, destroyed, unseen,
                  written, starts, outside, faults>>

Quiet == [step |-> "none", now |-> 0, previous |-> Absent, cutoff |-> 0]

ActivityInit ==
  /\ cutoffClock = 0 /\ file = Absent
  /\ backups = {} /\ pending = 0
  /\ child = [c \in Children |-> Quiet]
  /\ holder = NoChild /\ awaited = NoChild
  /\ destroyed = {} /\ unseen = {}
  /\ written = 0 /\ starts = 0 /\ outside = 0 /\ faults = 0

ActivityTick ==
  /\ cutoffClock < MaxCutoff /\ cutoffClock' = cutoffClock + 1
  /\ UNCHANGED <<file, backups, pending, child, holder, awaited, destroyed, unseen, written, starts,
                 outside, faults>>

(* Something else writes the file, or leaves it half written. *)
ChangedOutside(kind) ==
  /\ outside < MaxOutside /\ outside' = outside + 1
  /\ written' = written + 1
  /\ file' = [id |-> written', kind |-> kind, cutoff |-> IF file = Absent THEN 0 ELSE file.cutoff]
  /\ unseen' = IF \E c \in Children : child[c].step = "checked" THEN unseen \cup {written'} ELSE unseen
  /\ UNCHANGED <<cutoffClock, backups, pending, child, holder, awaited, destroyed, starts, faults>>

-----------------------------------------------------------------------------
(* The service *)

(* _activity_loop: the clock is read before the child starts. *)
StartChild(c) ==
  /\ awaited = NoChild /\ child[c].step = "none"
  /\ starts < MaxStarts /\ starts' = starts + 1
  /\ awaited' = c
  /\ child' = [child EXCEPT ![c] = [Quiet EXCEPT !.step = "begun", !.now = cutoffClock]]
  /\ UNCHANGED <<cutoffClock, file, backups, pending, holder, destroyed, unseen, written, outside, faults>>

(* A child that ends gives up its lock; the file it staged is removed by the `finally`. *)
Ended(c) ==
  /\ child' = [child EXCEPT ![c] = Quiet]
  /\ holder' = IF holder = c THEN NoChild ELSE holder
  /\ awaited' = IF awaited = c THEN NoChild ELSE awaited

(* The time is up and the child is killed: what it staged stays. *)
KillChild(c) ==
  /\ awaited = c /\ faults < MaxFaults /\ faults' = faults + 1
  /\ Ended(c)
  /\ pending' = IF child[c].step \in {"staged", "kept", "checked"} THEN pending + 1 ELSE pending
  /\ UNCHANGED <<cutoffClock, file, backups, destroyed, unseen, written, starts, outside>>

(* The service dies; the child does not. *)
ServiceDies ==
  /\ awaited # NoChild /\ faults < MaxFaults /\ faults' = faults + 1
  /\ awaited' = NoChild
  /\ UNCHANGED <<cutoffClock, file, backups, pending, child, holder, destroyed, unseen, written, starts, outside>>

-----------------------------------------------------------------------------
(* publish_native_activity *)

(* flock(LOCK_EX | LOCK_NB): nobody waits for the lock. *)
TakesLock == holder = NoChild

(* The lock is taken and the file read, or the child gives up. *)
EnterChild(c) ==
  /\ child[c].step = "begun"
  /\ IF TakesLock /\ (file = Absent \/ file.kind # "foreign")
     THEN /\ holder' = c
          /\ child' = [child EXCEPT ![c].step = "locked", ![c].previous = file]
          /\ UNCHANGED awaited
     ELSE Ended(c)
  /\ UNCHANGED <<cutoffClock, file, backups, pending, destroyed, unseen, written, starts, outside, faults>>

(* Mutant: the file's cutoff does not matter. *)
OlderMutant(previous, cutoff) == FALSE

(* The published activity is later than what this child computed. *)
Older(previous, cutoff) ==
  /\ previous # Absent /\ previous.kind = "valid"
  /\ previous.cutoff > cutoff

(* read_native_activity; the older result is not staged. *)
Project(c) ==
  /\ child[c].step = "locked"
  /\ IF Older(child[c].previous, child[c].now)
     THEN Ended(c)
     ELSE /\ child' = [child EXCEPT ![c].step = "staged", ![c].cutoff = child[c].now]
          /\ UNCHANGED <<holder, awaited>>
  /\ UNCHANGED <<cutoffClock, file, backups, pending, destroyed, unseen, written, starts, outside, faults>>

IsCorrupt(previous) == previous # Absent /\ previous.kind = "corrupt"

Backup(c) ==
  backups' = IF IsCorrupt(child[c].previous) THEN backups \cup {child[c].previous.id} ELSE backups

(* _activity_snapshot again, then the copy of a corrupt content, made durable. *)
Keep(c) ==
  /\ child[c].step = "staged"
  /\ IF file = child[c].previous
     THEN /\ Backup(c)
          /\ child' = [child EXCEPT ![c].step = "kept"]
          /\ UNCHANGED <<holder, awaited>>
     ELSE Ended(c) /\ UNCHANGED backups
  /\ UNCHANGED <<cutoffClock, file, pending, destroyed, unseen, written, starts, outside, faults>>

CheckAgain(c) ==
  /\ child[c].step = "kept"
  /\ IF file = child[c].previous
     THEN child' = [child EXCEPT ![c].step = "checked"] /\ UNCHANGED <<holder, awaited>>
     ELSE Ended(c)
  /\ UNCHANGED <<cutoffClock, file, backups, pending, destroyed, unseen, written, starts, outside, faults>>

(* os.replace *)
Replace(c) ==
  /\ child[c].step = "checked"
  /\ written' = written + 1
  /\ file' = [id |-> written', kind |-> "valid", cutoff |-> child[c].cutoff]
  /\ destroyed' = IF IsCorrupt(file) /\ file.id \notin backups THEN destroyed \cup {file.id} ELSE destroyed
  /\ Ended(c)
  /\ UNCHANGED <<cutoffClock, backups, pending, unseen, starts, outside, faults>>

(* A reading, the query or a write fails: the exception ends the child. *)
ChildFails(c) ==
  /\ child[c].step \in {"begun", "locked", "staged", "kept", "checked"}
  /\ faults < MaxFaults /\ faults' = faults + 1
  /\ Ended(c)
  /\ UNCHANGED <<cutoffClock, file, backups, pending, destroyed, unseen, written, starts, outside>>

ActivityNext ==
  \/ ActivityTick
  \/ \E kind \in FileKinds : ChangedOutside(kind)
  \/ ServiceDies
  \/ \E c \in Children :
       StartChild(c) \/ KillChild(c) \/ EnterChild(c) \/ Project(c) \/ Keep(c) \/ CheckAgain(c)
         \/ Replace(c) \/ ChildFails(c)

ActivitySpec == ActivityInit /\ [][ActivityNext]_activityVars

-----------------------------------------------------------------------------
(* Properties *)

ActivityTypeOK ==
  /\ cutoffClock \in 0..MaxCutoff
  /\ file = Absent \/ (file.id \in 1..written /\ file.kind \in FileKinds /\ file.cutoff \in 0..MaxCutoff)
  /\ backups \subseteq 1..written
  /\ holder \in Children \cup {NoChild} /\ awaited \in Children \cup {NoChild}

(* What was not readable is never lost: every corrupt content a publication    *)
(* replaced is in a backup, unless it came between that publication's last     *)
(* look at the file and its replacement.                                       *)
CorruptIsKept == destroyed \subseteq unseen

(* The activity shown never goes back in time, whatever children are left over *)
(* from a service that died, unless somebody else's file came in the last      *)
(* moment.                                                                     *)
CutoffNeverFalls ==
  [][\/ file = Absent \/ file' = Absent
     \/ file.kind # "valid" \/ file'.kind # "valid"
     \/ file.id \in unseen
     \/ file'.cutoff >= file.cutoff]_activityVars

=============================================================================
