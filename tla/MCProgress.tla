----------------------------- MODULE MCProgress -----------------------------
(***************************************************************************)
(* Four components that promise to get on with their work, side by side:   *)
(* the Web's file store, MEXC's depth stream, the recovery of candles and  *)
(* the history of fundings.  They share no state, so each behaviour is one *)
(* of one of them (`mover`) while the others stay in their first state;    *)
(* one run then asks the same questions of all four.                       *)
(*                                                                         *)
(* As the mover never changes, weak fairness of a disjunction of actions   *)
(* of several movers is weak fairness of the mover's own action: FairSteps *)
(* says of each component what its own specification does.                 *)
(***************************************************************************)
EXTENDS FileStore, MexcDepth, RecoveryRuns, FundingHistory

CONSTANTS r1, r2, s1, s2

VARIABLE mover

eachVars == <<mover, vars, depthVars, recoveryVars, fundingVars>>

(* Two targets of two venues: one may be rate limited while the other is not. *)
MCVenueOf == [t \in 1..N |-> IF t = 1 THEN "a" ELSE "b"]
MCRequest == {r1, r2}
MCSweeps == {s1, s2}

EachInit ==
  /\ mover \in {"store", "depth", "recovery", "funding"}
  /\ Init /\ DepthInit /\ RecoveryInit /\ FundingInit
  /\ mover # "recovery" => lane = "full"

StoreMoves == mover = "store" /\ UNCHANGED <<mover, depthVars, recoveryVars, fundingVars>>
DepthMoves == mover = "depth" /\ UNCHANGED <<mover, vars, recoveryVars, fundingVars>>
RecoveryMoves == mover = "recovery" /\ UNCHANGED <<mover, vars, depthVars, fundingVars>>
FundingMoves == mover = "funding" /\ UNCHANGED <<mover, vars, depthVars, recoveryVars>>

EachNext ==
  \/ StoreMoves /\ Next
  \/ DepthMoves /\ DepthNext
  \/ RecoveryMoves /\ RecoveryNext
  \/ FundingMoves /\ FundingNext

FairSteps ==
  /\ WF_eachVars(\/ StoreMoves /\ Tick
                 \/ FundingMoves /\ FundingTick)
  /\ WF_eachVars(\/ StoreMoves /\ Goes(r1)
                 \/ DepthMoves /\ Produce
                 \/ RecoveryMoves /\ RunStep
                 \/ FundingMoves /\ SweepGoesOn(s1))
  /\ WF_eachVars(\/ StoreMoves /\ Goes(r2)
                 \/ DepthMoves /\ \E of \in {"depth", "deal"} : Acknowledge(of)
                 \/ RecoveryMoves /\ \E venue \in Venue : CooldownEnds(venue)
                 \/ FundingMoves /\ SweepGoesOn(s2))

EachSpec == EachInit /\ [][EachNext]_eachVars /\ FairSteps

(* A repair that was published as a success is one, it cannot be taken for the   *)
(* result of another run, and a run's row is left running by a dead process      *)
(* only; and the recorded fundings of a version have no holes, whatever sweeps   *)
(* overlap or fail.                                                              *)
RecordIsHonest ==
  /\ mover = "recovery" => RecoveryTypeOK /\ SuccessIsTrue /\ FilesAreLinked /\ RunRowsEnd
  /\ mover = "funding" => NoHoles
=============================================================================
