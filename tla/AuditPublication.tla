----------------------------- MODULE AuditPublication -----------------------------
(***************************************************************************)
(* The publication of a comparison of snapshots                            *)
(* (candle_audit_publication.py): several executions at once take a lock,  *)
(* prepare a directory, move it among the runs and advance an index, which *)
(* the Web reads together with the runs (candle-audit-repository.ts).      *)
(***************************************************************************)
EXTENDS Integers, FiniteSets

CONSTANTS
  AuditRuns,   \* executions, each with its random run id
  Targets,     \* instruments and versions audited
  NoRun,       \* a model value: no run
  MaxStart,    \* bound: clock readings 1..MaxStart
  MaxArea      \* MAX_AUDIT_AREA_BYTES, in directories

ASSUME AuditAssumption ==
  /\ AuditRuns \subseteq Nat /\ {MaxStart, MaxArea} \subseteq Nat
  /\ NoRun \notin AuditRuns \cup [run : AuditRuns, completed : AuditRuns \cup {NoRun}]

Executions == {"completed", "invalid_input", "failed"}

VARIABLES
  auditClock,
  audit,     \* each execution: its step, target, start, and what it read and found
  owner,     \* who holds publish.lock
  movedRuns, \* the runs directory: what each run's report says
  staging,   \* prepared directories that were not moved
  index,     \* the index file: an entry of each target, or NoRun
  indexable  \* history: the runs that reached the index, or were found too old for it

auditVars == <<auditClock, audit, owner, movedRuns, staging, index, indexable>>

Waiting == [step |-> "none", target |-> CHOOSE t \in Targets : TRUE, started |-> 0,
            execution |-> "failed"]

AuditInit ==
  /\ auditClock = 1
  /\ audit = [r \in AuditRuns |-> Waiting]
  /\ owner = NoRun
  /\ movedRuns = [r \in {} |-> Waiting]
  /\ staging = {}
  /\ index = [t \in Targets |-> NoRun]
  /\ indexable = {}

AuditClock ==
  /\ auditClock < MaxStart
  /\ auditClock' = auditClock + 1
  /\ UNCHANGED <<audit, owner, movedRuns, staging, index, indexable>>

(* The start is read before the lock is waited for: the order of the two may differ. *)
StartAudit(r, target) ==
  /\ audit[r].step = "none"
  /\ audit' = [audit EXCEPT ![r] = [Waiting EXCEPT !.step = "locking", !.target = target,
                                                  !.started = auditClock]]
  /\ UNCHANGED <<auditClock, owner, movedRuns, staging, index, indexable>>

(* exclusive_runtime_lock, _read_index and _area_bytes, and the staging directory. *)
LockAudit(r) ==
  /\ audit[r].step = "locking" /\ owner = NoRun
  /\ owner' = r
  /\ staging' = staging \cup {r}
  /\ audit' = [audit EXCEPT ![r].step = "evaluate"]
  /\ UNCHANGED <<auditClock, movedRuns, index, indexable>>

(* The lock is not free in time. *)
LockUnavailable(r) ==
  /\ audit[r].step = "locking" /\ owner \notin {NoRun, r}
  /\ audit' = [audit EXCEPT ![r].step = "ended"]
  /\ UNCHANGED <<auditClock, owner, movedRuns, staging, index, indexable>>

(* The inputs are copied and compared; an input that cannot be is a result too. *)
EvaluateRun(r, execution) ==
  /\ audit[r].step = "evaluate"
  /\ Cardinality(DOMAIN movedRuns) + Cardinality(staging) <= MaxArea
  /\ audit' = [audit EXCEPT ![r].step = "move", ![r].execution = execution]
  /\ UNCHANGED <<auditClock, owner, movedRuns, staging, index, indexable>>

(* os.rename, once the files and their directory are durable. *)
MoveRun(r) ==
  /\ audit[r].step = "move"
  /\ staging' = staging \ {r}
  /\ movedRuns' = [x \in DOMAIN movedRuns \cup {r} |-> IF x = r THEN audit[r] ELSE movedRuns[x]]
  /\ audit' = [audit EXCEPT ![r].step = "index"]
  /\ UNCHANGED <<auditClock, owner, index, indexable>>

(* (started_at, run_id) decides. *)
Replaces(r, prior) ==
  \/ prior = NoRun
  \/ prior # NoRun /\ audit[r].started > movedRuns[prior].started
  \/ prior # NoRun /\ audit[r].started = movedRuns[prior].started /\ r >= prior

PriorRun(target) == IF index[target] = NoRun THEN NoRun ELSE index[target].run

LastCompleted(r) ==
  IF audit[r].execution = "completed" THEN r
  ELSE IF index[audit[r].target] = NoRun THEN NoRun ELSE index[audit[r].target].completed

NewIndex(r) ==
  IF Replaces(r, PriorRun(audit[r].target))
  THEN [index EXCEPT ![audit[r].target] = [run |-> r, completed |-> LastCompleted(r)]]
  ELSE index

(* _publish_index; the lock is released. *)
PublishIndex(r) ==
  /\ audit[r].step = "index"
  /\ index' = NewIndex(r)
  /\ indexable' = indexable \cup {r}
  /\ audit' = [audit EXCEPT ![r].step = "ended"]
  /\ owner' = NoRun
  /\ UNCHANGED <<auditClock, movedRuns, staging>>

(***************************************************************************)
(* An error, or a death, after the lock was taken: what was prepared stays *)
(* where it is, and the index may have been replaced before it failed.     *)
(***************************************************************************)
AuditFails(r) ==
  /\ audit[r].step \in {"evaluate", "move", "index"}
  /\ audit' = [audit EXCEPT ![r].step = "ended"]
  /\ owner' = NoRun
  /\ index' \in {index} \cup IF audit[r].step = "index" THEN {NewIndex(r)} ELSE {}
  /\ UNCHANGED <<auditClock, movedRuns, staging, indexable>>

AuditNext ==
  \/ AuditClock
  \/ \E r \in AuditRuns :
       \/ \E t \in Targets : StartAudit(r, t)
       \/ LockAudit(r) \/ LockUnavailable(r)
       \/ \E execution \in Executions : EvaluateRun(r, execution)
       \/ MoveRun(r) \/ PublishIndex(r) \/ AuditFails(r)

AuditSpec == AuditInit /\ [][AuditNext]_auditVars

-----------------------------------------------------------------------------
(* Properties *)

(***************************************************************************)
(* The index tells the truth about the runs: the entry of a target is the  *)
(* one that started last among the target's runs that got that far, in     *)
(* whatever order they took the lock, its report can be read, and the last *)
(* completed run it names did complete, for the same target, and is lost   *)
(* to no run that failed after it.                                         *)
(***************************************************************************)
Earlier(q, r) ==
  audit[q].started < audit[r].started \/ (audit[q].started = audit[r].started /\ q <= r)

IndexIsTrue ==
  \A t \in Targets : index[t] # NoRun =>
    LET r == index[t].run c == index[t].completed
        mine == {q \in indexable : audit[q].target = t}
    IN  /\ r \in DOMAIN movedRuns /\ movedRuns[r].target = t
        /\ \A q \in mine : Earlier(q, r)
        /\ c # NoRun =>
             c \in DOMAIN movedRuns /\ movedRuns[c].target = t /\ movedRuns[c].execution = "completed"
        /\ movedRuns[r].execution = "completed" => c = r

(* An index that named a completed run of a target always names one. *)
CompletedIsKept ==
  [][\A t \in Targets : index[t] # NoRun /\ index[t].completed # NoRun =>
       index'[t] # NoRun /\ index'[t].completed # NoRun]_auditVars
===============================================================================
