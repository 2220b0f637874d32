------------------------------ MODULE MCRecords ------------------------------
(***************************************************************************)
(* What is admitted, recorded, settled and put on screen, side by side: the*)
(* shared request budget of MEXC, the episodes of the discovery, the       *)
(* outcomes of a family of forecasts, the shadow allocations, the          *)
(* ranking's generations, the selected group's books and trades, the       *)
(* research: its journal, its fixed trial and the finalizing of a capture; *)
(* and the two candle audits and the publication of their reports.         *)
(* They share no state, so each behaviour is one of one of them            *)
(* (`recorder`) while the others stay in one of their first states.        *)
(***************************************************************************)
EXTENDS MexcBudget, DiscoveryEpisodes, OutcomeSettlement, ShadowAllocation, RankingRun,
        SelectedEvents, ResearchJournal, ResearchTrial, CaptureFinalizer,
        GapAudit, SnapshotAudit, AuditPublication, TLC

CONSTANTS firstId, secondId, xAsset, yAsset, mexc, other

VARIABLE recorder

recordsVars ==
  <<recorder, vars, discoveryVars, settlementVars, allocationVars, rankingVars, eventsVars,
    journalVars, trialVars, finalVars, gapVars, snapshotVars, auditVars>>

(* The lanes keep the code's shape, the limits adding up to the total, at a smaller scale: *)
(* 2 + 1 instead of 4 + 2 + 2.                                                              *)
MCLimit == [lane \in Lane |-> IF lane = "funding" THEN 2 ELSE 1]
MCPause == {1, 3}

MCIdentities == {firstId, secondId}
MCSymmetry == Permutations({firstId, secondId})

(* Two assets and three bundles of bars: the minute before, both late bars, one of them. *)
MCAssets == {xAsset, yAsset}
MCLate(first, second) ==
  [map |-> 1, minutes |-> {1},
   bars |-> [a \in MCAssets |-> [k \in {1} |-> IF a = xAsset THEN first ELSE second]]]
MCBundles ==
  {[map |-> 1, minutes |-> {0}, bars |-> [a \in MCAssets |-> [k \in {0} |-> 1]]],
   MCLate(1, 2), MCLate(Gap, 3)}

(* One asset in no group, one in one, one in two. *)
MCGroups == [a \in 1..3 |-> IF a = 1 THEN {} ELSE IF a = 2 THEN {"g"} ELSE {"g", "h"}]

(* Two series of one provider, whose order changes in the first and the last minute. *)
MCProviders == [r \in 1..2 |-> "bybit"]
MCCloses ==
  (0 :> {<<1, 2>>}) @@ (1 :> {<<2, 1>>}) @@ (2 :> {<<3, 2>>}) @@ (3 :> {<<2, 3>>})

(* Rows that rise or fall, that come a minute late, and that correct one another.       *)
MCRow(lag, price, oi) == [lag |-> lag, price |-> price, oi |-> oi]
MCRows == {MCRow(1, 2, 1), MCRow(1, 4, 2), MCRow(2, 4, 1), MCRow(1, 4, 1)}

(* A book out of order, one with a price twice, one that is crossed; trades out of order. *)
MCLevel(price, size) == [price |-> price, size |-> size]
MCMessages == {
  [bids |-> <<MCLevel(1, 2), MCLevel(2, 1)>>, asks |-> <<MCLevel(4, 1), MCLevel(3, 1)>>],
  [bids |-> <<MCLevel(2, 3)>>, asks |-> <<MCLevel(3, 1), MCLevel(3, 2)>>],
  [bids |-> <<MCLevel(3, 3)>>, asks |-> <<MCLevel(2, 2)>>]}
MCMembers == {mexc, other}
MCBursts == {[of |-> mexc, ids |-> <<3, 1, 2>>]}

(* Catalogs of two ids: kept, replaced, ended, overlapping, with a hole, with another hash. *)
MCRange(id, hash, from, to) == [id |-> id, hash |-> hash, from |-> from, to |-> to]
MCCatalogs == {
  {MCRange(1, "a", 0, Forever)},
  {MCRange(1, "b", 0, Forever)},
  {MCRange(1, "a", 0, 2), MCRange(2, "a", 2, Forever)},
  {MCRange(1, "a", 0, 2)},
  {MCRange(1, "a", 0, Until), MCRange(2, "b", 2, Forever)},
  {MCRange(1, "a", 0, 1), MCRange(2, "a", 2, Forever)}}

RecordsInit ==
  /\ recorder \in {"budget", "discovery", "settlement", "allocation", "ranking", "selected",
                   "journal", "trial", "finalizer", "gaps", "snapshot", "audit"}
  /\ Init /\ DiscoveryInit /\ SettlementInit /\ AllocationInit /\ RankingInit
  /\ EventsInit /\ JournalInit /\ TrialInit /\ FinalInit
  /\ GapInit /\ SnapshotInit /\ AuditInit
  /\ recorder # "allocation" => kind = "top-k-v1"
  /\ recorder # "trial" => observations = <<TrialRow(1, MCRow(1, 2, 1))>>
  /\ recorder # "gaps" => catalog = {MCRange(1, "a", 0, Forever)}
  /\ recorder # "snapshot" => compareVolume

RecordsNext ==
  \/ recorder = "budget" /\ Next
     /\ UNCHANGED <<recorder, discoveryVars, settlementVars, allocationVars, rankingVars,
                    eventsVars, journalVars, trialVars, finalVars, gapVars, snapshotVars,
                    auditVars>>
  \/ recorder = "discovery" /\ DiscoveryNext
     /\ UNCHANGED <<recorder, vars, settlementVars, allocationVars, rankingVars, eventsVars,
                    journalVars, trialVars, finalVars, gapVars, snapshotVars, auditVars>>
  \/ recorder = "settlement" /\ SettlementNext
     /\ UNCHANGED <<recorder, vars, discoveryVars, allocationVars, rankingVars, eventsVars,
                    journalVars, trialVars, finalVars, gapVars, snapshotVars, auditVars>>
  \/ recorder = "allocation" /\ AllocationNext
     /\ UNCHANGED <<recorder, vars, discoveryVars, settlementVars, rankingVars, eventsVars,
                    journalVars, trialVars, finalVars, gapVars, snapshotVars, auditVars>>
  \/ recorder = "ranking" /\ RankingNext
     /\ UNCHANGED <<recorder, vars, discoveryVars, settlementVars, allocationVars,
                    eventsVars, journalVars, trialVars, finalVars, gapVars, snapshotVars,
                    auditVars>>
  \/ recorder = "selected" /\ EventsNext
     /\ UNCHANGED <<recorder, vars, discoveryVars, settlementVars, allocationVars,
                    rankingVars, journalVars, trialVars, finalVars, gapVars, snapshotVars,
                    auditVars>>
  \/ recorder = "journal" /\ JournalNext
     /\ UNCHANGED <<recorder, vars, discoveryVars, settlementVars, allocationVars,
                    rankingVars, eventsVars, trialVars, finalVars, gapVars, snapshotVars,
                    auditVars>>
  \/ recorder = "trial" /\ ObserveRow
     /\ UNCHANGED <<recorder, vars, discoveryVars, settlementVars, allocationVars,
                    rankingVars, eventsVars, journalVars, finalVars, gapVars, snapshotVars,
                    auditVars>>
  \/ recorder = "finalizer" /\ FinalNext
     /\ UNCHANGED <<recorder, vars, discoveryVars, settlementVars, allocationVars,
                    rankingVars, eventsVars, journalVars, trialVars, gapVars, snapshotVars,
                    auditVars>>
  \/ recorder = "gaps" /\ GapNext
     /\ UNCHANGED <<recorder, vars, discoveryVars, settlementVars, allocationVars,
                    rankingVars, eventsVars, journalVars, trialVars, finalVars,
                    snapshotVars, auditVars>>
  \/ recorder = "snapshot" /\ SnapshotNext
     /\ UNCHANGED <<recorder, vars, discoveryVars, settlementVars, allocationVars,
                    rankingVars, eventsVars, journalVars, trialVars, finalVars, gapVars,
                    auditVars>>
  \/ recorder = "audit" /\ AuditNext
     /\ UNCHANGED <<recorder, vars, discoveryVars, settlementVars, allocationVars,
                    rankingVars, eventsVars, journalVars, trialVars, finalVars, gapVars,
                    snapshotVars>>

RecordsSpec == RecordsInit /\ [][RecordsNext]_recordsVars

(* What the attention core records is what happened: episodes were observed as they say,  *)
(* can be continued and are shown as they are; no report is falsely current, the formal    *)
(* result is one and so is the threshold; and each policy fills the slots it can.          *)
AttentionHolds ==
  /\ recorder = "discovery" => DiscoveryHolds
  /\ recorder = "settlement" => NeverFalselyCurrent /\ OneFormalLook /\ OneThreshold
  /\ recorder = "allocation" => SlotsAreFull

(* What is put on screen is so: the ranking's rows and moves are what the provider's    *)
(* own bars say, and no backfill is forgotten; and the books and trades of the selected *)
(* group are those its streams sent.                                                    *)
ScreensHold ==
  /\ recorder = "ranking" => RowsAreTrue /\ MovesAreTrue /\ NoneIsStranded
  /\ recorder = "selected" => SelectedIsHonest

(* The research stands on what it says: its journal is one whole chain whose valid      *)
(* replays only ever learn more, its episodes never overlap or cross a split, and a     *)
(* capture called complete rests on the input it was bound to.                          *)
ResearchHolds ==
  /\ recorder = "journal" => JournalHolds
  /\ recorder = "trial" => TrialHolds
  /\ recorder = "finalizer" => CapturesHold

(* What an audit says is so: the gap audit never refuses its own ledger, and two   *)
(* ledgers are compared by the very contracts of their gaps; two files are         *)
(* certified as a match exactly when they agree minute by minute; and the index of *)
(* the published reports tells the truth about the runs.                           *)
AuditsHold ==
  /\ recorder = "gaps" => LedgerIsAccepted /\ ComparedByContract
  /\ recorder = "snapshot" => MatchIsExact
  /\ recorder = "audit" => IndexIsTrue

(* No ledger is called complete that forgets what an earlier one found, and an index    *)
(* that named a completed audit always names one.                                       *)
AuditsStay == CompleteIsTrue /\ CompletedIsKept
=============================================================================
