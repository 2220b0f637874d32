------------------------- MODULE OutcomeSettlement -------------------------
(***************************************************************************)
(* What becomes of a saved Attention generation: attention-core's          *)
(* outcomes.py settles it from offline reference bars, storage.py keeps    *)
(* the editions of each outcome and the reports computed from them,        *)
(* evaluation.py reports on a frozen family as often as asked and          *)
(* formal_evaluation.py looks exactly once.  Every command holds the       *)
(* writer's lock, so commands never overlap, but each one writes in        *)
(* several steps and may fail or be killed between any two.  One evidence  *)
(* generation is followed, over one horizon, with a minute as time unit.   *)
(***************************************************************************)
EXTENDS Integers, FiniteSets, FiniteSetsExt, Sequences, SequencesExt

CONSTANTS
  ScoredAsset, \* the assets of the generation
  Bundle,     \* the offline inputs: each a map, the minutes of its window and
              \* its bars, asset by asset and minute by minute
  MapVersion, \* the map of the generation
  Horizon,    \* minutes from the cutoff to the end of the horizon
  Gap,        \* no bar, no row, no report, nothing reserved
  MaxNow,     \* bound: the clock
  MaxRuns,    \* bound: reports
  MaxEdition  \* bound: editions of an outcome

ASSUME SettlementAssumption ==
  Horizon \in Nat \ {0} /\ MaxNow \in Nat /\ MaxRuns \in Nat /\ MaxEdition \in Nat

ASSUME BundleAssumption ==
  /\ IsFiniteSet(ScoredAsset) /\ IsFiniteSet(Bundle)
  /\ \A b \in Bundle : b.bars \in [ScoredAsset -> [b.minutes -> Nat \cup {Gap}]]

SettledContent == [status : {"pending", "unscorable", "ready"}, move : Nat, threshold : Nat]
SettledOutcome == [edition : Nat, content : SettledContent, at : Nat]
FamilyReport == [basis : [ScoredAsset -> Nat], stale : BOOLEAN]
FormalLook ==
  [status : {"STARTED", "COMPLETE"}, basis : [ScoredAsset -> Nat], availability : Nat]

ASSUME GapIsNone == Gap \notin SettledOutcome \cup FamilyReport \cup FormalLook

VARIABLES
  now,       \* the minutes since the generation's cutoff
  outcomes,  \* outcome_rows: the newest edition of each asset's outcome
  reports,   \* candidate_runs, in insertion order
  artifact,  \* evaluation.json
  ledger,    \* the look ledger of the formal protocol
  command,   \* the command that holds the writer's lock
  torn,      \* history: a settlement ended before its last row
  answers    \* history: the formal reports given to an operator

settlementVars ==
  <<now, outcomes, reports, artifact, ledger, command, torn, answers>>

-----------------------------------------------------------------------------
(* Settling one outcome *)

\* Only the bundles of the generation's map are read
ReadBundles(bundles) == {b \in bundles : b.map = MapVersion}

\* A generation outside every window is left alone
InScope(bundles) == \E b \in ReadBundles(bundles) : 0 \in b.minutes

BarsAt(bundles, a, minute) ==
  {b.bars[a][minute] : b \in {c \in ReadBundles(bundles) : minute \in c.minutes}} \ {Gap}

\* Two archived editions that disagree on a bar are refused
Conflicting(bundles) ==
  \E a \in ScoredAsset, minute \in 0 .. Horizon : Cardinality(BarsAt(bundles, a, minute)) > 1

Complete(bundles, a) ==
  \A minute \in 0 .. Horizon : BarsAt(bundles, a, minute) # {}

\* The largest move over the horizon
Move(bundles, a) == Max(UNION {BarsAt(bundles, a, minute) : minute \in 1 .. Horizon})

Scorable(bundles) == {a \in ScoredAsset : Complete(bundles, a)}

\* The best decile of the generation's scorable assets, fixed for all of them
Threshold(bundles) == Max({Move(bundles, a) : a \in Scorable(bundles)})

OutcomeOf(bundles, a) ==
  IF now < Horizon THEN [status |-> "pending", move |-> 0, threshold |-> 0]
  ELSE IF a \notin Scorable(bundles)
       THEN [status |-> "unscorable", move |-> 0, threshold |-> 0]
       ELSE [status |-> "ready", move |-> Move(bundles, a),
             threshold |-> Threshold(bundles)]

-----------------------------------------------------------------------------
(* settle-outcomes *)

Free == [name |-> "none"]

SettlementInit ==
  /\ now = 0
  /\ outcomes = [a \in ScoredAsset |-> Gap]
  /\ reports = <<>>
  /\ artifact = Gap
  /\ ledger = Gap
  /\ command = Free
  /\ torn = FALSE
  /\ answers = {}

\* The outcomes are computed before the first one is stored
Settle(bundles) ==
  /\ command = Free
  /\ InScope(bundles) /\ ~Conflicting(bundles)
  /\ command' = [name |-> "settle", at |-> now, invalidated |-> FALSE,
                 left |-> ScoredAsset, found |-> [a \in ScoredAsset |-> OutcomeOf(bundles, a)]]
  /\ UNCHANGED <<now, outcomes, reports, artifact, ledger, torn, answers>>

Settling == command.name = "settle" /\ command.left # {}

Unchanged(a) == outcomes[a] # Gap /\ outcomes[a].content = command.found[a]

\* Observing the same inputs again is no correction
SameOutcome(a) ==
  /\ Settling /\ a \in command.left /\ Unchanged(a)
  /\ command' = [command EXCEPT !.left = @ \ {a}]
  /\ UNCHANGED <<now, outcomes, reports, artifact, ledger, torn, answers>>

Corrects(a) == outcomes[a] # Gap /\ ~Unchanged(a)

\* Before a correction evaluation.json becomes the newest report, marked stale
Invalidate(a) ==
  /\ Settling /\ a \in command.left /\ Corrects(a)
  /\ ~command.invalidated /\ reports # <<>>
  /\ artifact' = [basis |-> Last(reports).basis, stale |-> TRUE]
  /\ command' = [command EXCEPT !.invalidated = TRUE]
  /\ UNCHANGED <<now, outcomes, reports, ledger, torn, answers>>

\* put_outcome's guard before its transaction
Invalidated(a) == Corrects(a) /\ reports # <<>> => command.invalidated

\* The transaction: the edition and, with a correction, every report's mark
StoreOutcome(a) ==
  LET edition == IF outcomes[a] = Gap THEN 1 ELSE outcomes[a].edition + 1
  IN /\ Settling /\ a \in command.left /\ ~Unchanged(a) /\ Invalidated(a)
     /\ edition <= MaxEdition
     /\ outcomes' = [outcomes EXCEPT ![a] =
          [edition |-> edition, content |-> command.found[a], at |-> command.at]]
     /\ reports' = IF Corrects(a)
                   THEN [i \in DOMAIN reports |-> [reports[i] EXCEPT !.stale = TRUE]]
                   ELSE reports
     /\ command' = [command EXCEPT !.left = @ \ {a}, !.invalidated = FALSE]
     /\ UNCHANGED <<now, artifact, ledger, torn, answers>>

SettlementEnds ==
  /\ command.name = "settle" /\ command.left = {}
  /\ command' = Free /\ torn' = FALSE
  /\ UNCHANGED <<now, outcomes, reports, artifact, ledger, answers>>

-----------------------------------------------------------------------------
(* evaluate-family *)

Editions == [a \in ScoredAsset |-> IF outcomes[a] = Gap THEN 0 ELSE outcomes[a].edition]

\* Every report has an id of its own, so that it is always inserted
Evaluate ==
  /\ command = Free /\ Len(reports) < MaxRuns
  /\ reports' = Append(reports, [basis |-> Editions, stale |-> FALSE])
  /\ command' = [name |-> "evaluate"]
  /\ UNCHANGED <<now, outcomes, artifact, ledger, torn, answers>>

PublishReport ==
  /\ command.name = "evaluate"
  /\ artifact' = Last(reports)
  /\ command' = Free
  /\ UNCHANGED <<now, outcomes, reports, ledger, torn, answers>>

-----------------------------------------------------------------------------
(* evaluate-formal *)

\* An outcome settled after the fixed availability cutoff is another input
Available(time) == \A a \in ScoredAsset : outcomes[a] # Gap => outcomes[a].at <= time

Cutoff == IF ledger = Gap THEN now ELSE ledger.availability

\* mutant: a look that was only started may start again
MayLookMutant == ledger # Gap /\ ledger.status = "COMPLETE" => ledger.basis = Editions

\* The ledger admits the look: it is the first one, or the very same
MayLook == ledger # Gap => ledger.basis = Editions

\* The look is reserved before anything is computed
Look ==
  /\ command = Free /\ now >= Horizon
  /\ Available(Cutoff) /\ MayLook
  /\ (ledger # Gap => ledger.status = "STARTED")
  /\ ledger' = IF ledger = Gap
               THEN [status |-> "STARTED", basis |-> Editions, availability |-> now]
               ELSE ledger
  /\ command' = [name |-> "formal"]
  /\ UNCHANGED <<now, outcomes, reports, artifact, torn, answers>>

FinishLook ==
  /\ command.name = "formal"
  /\ ledger' = [ledger EXCEPT !.status = "COMPLETE"]
  /\ answers' = answers \cup {Editions}
  /\ command' = Free
  /\ UNCHANGED <<now, outcomes, reports, artifact, torn>>

\* A finished look is only read again, and only for the same input
LookAgain ==
  /\ command = Free /\ ledger # Gap /\ ledger.status = "COMPLETE"
  /\ Available(Cutoff) /\ MayLook
  /\ answers' = answers \cup {ledger.basis}
  /\ UNCHANGED <<now, outcomes, reports, artifact, ledger, command, torn>>

-----------------------------------------------------------------------------

\* A command is killed, or a transaction or a file fails
CommandFails ==
  /\ command # Free
  /\ torn' = (torn \/ command.name = "settle")
  /\ command' = Free
  /\ UNCHANGED <<now, outcomes, reports, artifact, ledger, answers>>

MinutePasses ==
  /\ now < MaxNow /\ now' = now + 1
  /\ UNCHANGED <<outcomes, reports, artifact, ledger, command, torn, answers>>

SettlementNext ==
  \/ \E bundles \in SUBSET Bundle : Settle(bundles)
  \/ \E a \in ScoredAsset : SameOutcome(a) \/ Invalidate(a) \/ StoreOutcome(a)
  \/ SettlementEnds \/ Evaluate \/ PublishReport
  \/ Look \/ FinishLook \/ LookAgain
  \/ CommandFails \/ MinutePasses

SettlementSpec == SettlementInit /\ [][SettlementNext]_settlementVars

-----------------------------------------------------------------------------
(* Properties *)

\* A report that evaluation.json shows as current was computed from the
\* newest edition of every outcome it knew: "a crash may leave a conservative
\* stale report, but never a falsely current report after a committed
\* correction" (put_outcome, save_evaluation).
NeverFalselyCurrent ==
  artifact # Gap /\ ~artifact.stale =>
    \A a \in ScoredAsset : artifact.basis[a] # 0 => artifact.basis[a] = outcomes[a].edition

\* Whoever asks for the formal result, before or after corrections, crashes
\* and repetitions, is given the result of one and the same input: the one
\* the ledger reserved (evaluate_formal_family).
OneFormalLook ==
  /\ Cardinality(answers) <= 1
  /\ ledger # Gap => answers \subseteq {ledger.basis}

\* Unless a settlement was cut short, the ready outcomes of the generation
\* share one threshold, the best move among them (settle_generation_outcomes:
\* "fixed across this generation's full realized, scorable cross-section").
OneThreshold ==
  LET ready == {outcomes[a].content :
                  a \in {b \in ScoredAsset : outcomes[b] # Gap
                                       /\ outcomes[b].content.status = "ready"}}
  IN command = Free /\ ~torn =>
       \A c \in ready : c.threshold = Max({d.move : d \in ready})
=============================================================================
