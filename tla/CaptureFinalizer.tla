---------------------------- MODULE CaptureFinalizer ----------------------------
(* research/finalizer.py: a capture is finalized by a process that binds the input *)
(* files, runs one worker per phase and writes a checkpoint after each.  The lock  *)
(* is a descriptor the worker inherits, so it outlives a killed parent.  The input *)
(* is a version number: an edit gives contents never seen before.                  *)
EXTENDS Naturals, FiniteSets

CONSTANTS
  Runs,        \* invocations of finalize_capture
  QualifiedInput,       \* the input versions that are complete and qualify for an evaluation
  MaxEdits,    \* bound: edits of the input
  MaxCopies,   \* bound: workers started
  Unset

ASSUME CaptureAssumption == Unset \notin Nat

Phases == {"verify", "quality", "evaluate"}

VARIABLES source, runs, workers, copies, manifest, checkpoint, outputs, summary

finalVars ==
  <<source, runs, workers, copies, manifest, checkpoint, outputs, summary>>

NoPhases == [n \in Phases |-> Unset]

IdleRun == [pc |-> "idle", files |-> Unset, phases |-> NoPhases, phase |-> Unset]

WorkerAlive(w) == w.stage \in {"started", "read"}

(* Mutant: the worker does not inherit the lock. *)
CaptureLockedMutant == \E r \in Runs : runs[r].pc # "idle"

(* flock: held while the process or any worker that inherited the descriptor lives *)
CaptureLocked == (\E r \in Runs : runs[r].pc # "idle") \/ (\E w \in workers : WorkerAlive(w))

FinalInit ==
  /\ source = 0
  /\ runs = [r \in Runs |-> IdleRun]
  /\ workers = {}
  /\ copies = 0
  /\ manifest = Unset
  /\ checkpoint = NoPhases
  /\ outputs = NoPhases
  /\ summary = Unset

SavedPhases(r) == {n \in Phases : runs[r].phases[n] # Unset}

(* verify, then quality, then evaluate where the first says the input qualifies *)
NextPhase(r) ==
  CASE "verify" \notin SavedPhases(r) -> "verify"
    [] "verify" \in SavedPhases(r) /\ "quality" \notin SavedPhases(r) -> "quality"
    [] /\ {"verify", "quality"} \subseteq SavedPhases(r)
       /\ runs[r].phases["verify"].of \in QualifiedInput
       /\ "evaluate" \notin SavedPhases(r) -> "evaluate"
    [] OTHER -> Unset

(* an exception that is not a deadline leaves no summary *)
RefuseRun(r) == runs' = [runs EXCEPT ![r] = IdleRun] /\ UNCHANGED summary

LeaveIncomplete(r) ==
  /\ runs' = [runs EXCEPT ![r] = IdleRun]
  /\ summary' = [status |-> "INCOMPLETE", of |-> runs[r].files, phases |-> runs[r].phases]

StartRun(r) ==
  /\ runs[r].pc = "idle"
  /\ ~CaptureLocked
  /\ runs' = [runs EXCEPT ![r] = [IdleRun EXCEPT !.pc = "bind", !.phases = checkpoint]]
  /\ UNCHANGED <<source, workers, copies, manifest, checkpoint, outputs, summary>>

BindInput(r) ==
  /\ runs[r].pc = "bind"
  /\ LET intact == \A n \in SavedPhases(r) : outputs[n] = runs[r].phases[n]
     IN  \/ /\ manifest \in {Unset, source} /\ intact
            /\ manifest' = source
            /\ runs' = [runs EXCEPT ![r].pc = "phases", ![r].files = source]
            /\ UNCHANGED summary
         \/ /\ manifest \notin {Unset, source}
            /\ RefuseRun(r) /\ UNCHANGED manifest
         \/ /\ manifest \in {Unset, source} /\ ~intact
            /\ manifest' = source
            /\ RefuseRun(r)
  /\ UNCHANGED <<source, workers, copies, checkpoint, outputs>>

BeginPhase(r) ==
  /\ runs[r].pc = "phases"
  /\ NextPhase(r) # Unset
  /\ copies < MaxCopies
  /\ checkpoint' = runs[r].phases
  /\ workers' = workers \cup
       {[run |-> r, name |-> NextPhase(r), seen |-> Unset, stage |-> "started", copy |-> copies]}
  /\ copies' = copies + 1
  /\ runs' = [runs EXCEPT ![r].pc = "running", ![r].phase = NextPhase(r)]
  /\ UNCHANGED <<source, manifest, outputs, summary>>

HasParent(w) == runs[w.run].pc = "running"

(* an orphan that exits leaves nobody to reap it *)
WorkerExits(w, stage) ==
  workers' = (workers \ {w}) \cup (IF HasParent(w) THEN {[w EXCEPT !.stage = stage]} ELSE {})

WorkerReads(w) ==
  /\ w.stage = "started"
  /\ workers' = (workers \ {w}) \cup {[w EXCEPT !.stage = "read", !.seen = source]}
  /\ UNCHANGED <<source, runs, copies, manifest, checkpoint, outputs, summary>>

(* _atomic replaces the phase's file; only an evaluation differs from copy to copy *)
WorkerWrites(w) ==
  /\ w.stage = "read"
  /\ outputs' = [outputs EXCEPT ![w.name] =
       [of |-> w.seen, copy |-> IF w.name = "evaluate" THEN w.copy ELSE 0]]
  /\ WorkerExits(w, "done")
  /\ UNCHANGED <<source, runs, copies, manifest, checkpoint, summary>>

WorkerFails(w) ==
  /\ WorkerAlive(w)
  /\ WorkerExits(w, "failed")
  /\ UNCHANGED <<source, runs, copies, manifest, checkpoint, outputs, summary>>

EndPhase(r) ==
  /\ runs[r].pc = "running"
  /\ \E w \in workers :
       /\ w.run = r /\ ~WorkerAlive(w)
       /\ workers' = workers \ {w}
       /\ \/ /\ w.stage = "done"
             /\ LET phases == [runs[r].phases EXCEPT ![runs[r].phase] = outputs[runs[r].phase]]
                IN  /\ runs' = [runs EXCEPT ![r].pc = "phases", ![r].phase = Unset,
                                            ![r].phases = phases]
                    /\ checkpoint' = phases
             /\ UNCHANGED summary
          \/ /\ w.stage = "failed"
             /\ RefuseRun(r) /\ UNCHANGED checkpoint
  /\ UNCHANGED <<source, copies, manifest, outputs>>

(* the deadline, or a signal: the whole group is killed before the lock is let go *)
StopRun(r) ==
  /\ runs[r].pc # "idle"
  /\ workers' = {w \in workers : w.run # r}
  /\ LeaveIncomplete(r)
  /\ UNCHANGED <<source, copies, manifest, checkpoint, outputs>>

CompleteRun(r) ==
  /\ runs[r].pc = "phases"
  /\ NextPhase(r) = Unset
  /\ \/ /\ source = runs[r].files
        /\ summary' = [status |-> "COMPLETE", of |-> runs[r].files, phases |-> runs[r].phases]
        /\ runs' = [runs EXCEPT ![r] = IdleRun]
     \/ source # runs[r].files /\ RefuseRun(r)
  /\ UNCHANGED <<source, workers, copies, manifest, checkpoint, outputs>>

(* kill -9 of the parent: its worker goes on, and keeps the lock *)
KillRun(r) ==
  /\ runs[r].pc # "idle"
  /\ runs' = [runs EXCEPT ![r] = IdleRun]
  /\ workers' = {w \in workers : w.run # r \/ WorkerAlive(w)}
  /\ UNCHANGED <<source, copies, manifest, checkpoint, outputs, summary>>

EditInput ==
  /\ source < MaxEdits
  /\ source' = source + 1
  /\ UNCHANGED <<runs, workers, copies, manifest, checkpoint, outputs, summary>>

FinalNext ==
  \/ \E r \in Runs :
       \/ StartRun(r) \/ BindInput(r) \/ BeginPhase(r) \/ EndPhase(r)
       \/ StopRun(r) \/ CompleteRun(r) \/ KillRun(r)
  \/ \E w \in workers : WorkerReads(w) \/ WorkerWrites(w) \/ WorkerFails(w)
  \/ EditInput

FinalSpec == FinalInit /\ [][FinalNext]_finalVars

(* No two processes ever write the outputs of one capture: while a worker lives,  *)
(* an orphan of a killed run included, no other run is under way.                 *)
OneWriter ==
  \A w \in workers : WorkerAlive(w) =>
    /\ \A v \in workers : WorkerAlive(v) => v = w
    /\ \A r \in Runs : runs[r].pc # "idle" => r = w.run /\ runs[r].pc = "running"

(* Every phase the checkpoint calls completed has the file it names, through every *)
(* kill, time-out and retry.                                                       *)
CheckpointIsTrue ==
  \A n \in Phases : checkpoint[n] # Unset => outputs[n] = checkpoint[n]

(* A summary that says COMPLETE rests on phases that all read the bound input, and *)
(* on the files that are still there.                                              *)
CompleteIsBound ==
  summary # Unset /\ summary.status = "COMPLETE" =>
    /\ summary.of = manifest
    /\ \A n \in Phases : summary.phases[n] # Unset =>
         outputs[n] = summary.phases[n] /\ outputs[n].of = manifest

CapturesHold == OneWriter /\ CheckpointIsTrue /\ CompleteIsBound
==================================================================================
