------------------------------- MODULE MCFiles -------------------------------
(***************************************************************************)
(* What is kept for others to read, side by side.  Of the market service   *)
(* and its tools: the archive and its retention, the market artifacts and  *)
(* the activity file, and the values these files are made from.  Of the    *)
(* Web: the chart pages and the daily changes, on their server and on      *)
(* their page, that many readers share, and the user's workspace and       *)
(* notes.  They share no state, so each behaviour is one of one of them    *)
(* (`writer`) while the others stay in one of their first states.          *)
(***************************************************************************)
EXTENDS ArchiveRetention, UniverseProjection, Artifacts, ActivityPublication, CandleViews,
        ChartHistory, PriceChangeClient, PriceChangeService, UserWorkspace, PastNotes, TLC

CONSTANTS hl, bb, mx

VARIABLE writer

filesVars ==
  <<writer, vars, universeVars, artifactVars, activityVars, viewVars, chartVars, clientVars,
    serviceVars, workspaceVars, noteVars>>

MCTwoBuckets == {0, 1}

MCMembers == {hl, bb, mx}
MCSymmetry == Permutations({hl, bb})

(* Candles that differ in price, in volume and in what they say of themselves. *)
MCCandles ==
  {[price |-> 1, volume |-> 2, finality |-> "confirmed", future |-> FALSE],
   [price |-> 3, volume |-> NoVolume, finality |-> "derived_final", future |-> FALSE],
   [price |-> 2, volume |-> 4, finality |-> "confirmed", future |-> TRUE]}

FilesInit ==
  /\ writer \in {"archive", "universe", "artifacts", "activity", "views", "chart", "client",
                 "service", "workspace", "notes"}
  /\ Init /\ UniverseInit /\ ArtifactInit /\ ActivityInit /\ ViewInit
  /\ ChartInit /\ ClientInit /\ ServiceInit /\ WorkspaceInit /\ NotesInit
  /\ writer # "views" => change = 0 /\ ~slow
  /\ writer # "client" => client.reference = 0

FilesNext ==
  \/ writer = "archive" /\ Next
     /\ UNCHANGED <<writer, universeVars, artifactVars, activityVars, viewVars, chartVars,
                    clientVars, serviceVars, workspaceVars, noteVars>>
  \/ writer = "universe" /\ UniverseNext
     /\ UNCHANGED <<writer, vars, artifactVars, activityVars, viewVars, chartVars,
                    clientVars, serviceVars, workspaceVars, noteVars>>
  \/ writer = "artifacts" /\ ArtifactNext
     /\ UNCHANGED <<writer, vars, universeVars, activityVars, viewVars, chartVars,
                    clientVars, serviceVars, workspaceVars, noteVars>>
  \/ writer = "activity" /\ ActivityNext
     /\ UNCHANGED <<writer, vars, universeVars, artifactVars, viewVars, chartVars,
                    clientVars, serviceVars, workspaceVars, noteVars>>
  \/ writer = "views" /\ ViewNext
     /\ UNCHANGED <<writer, vars, universeVars, artifactVars, activityVars, chartVars,
                    clientVars, serviceVars, workspaceVars, noteVars>>
  \/ writer = "chart" /\ ChartNext
     /\ UNCHANGED <<writer, vars, universeVars, artifactVars, activityVars, viewVars,
                    clientVars, serviceVars, workspaceVars, noteVars>>
  \/ writer = "client" /\ ClientNext
     /\ UNCHANGED <<writer, vars, universeVars, artifactVars, activityVars, viewVars,
                    chartVars, serviceVars, workspaceVars, noteVars>>
  \/ writer = "service" /\ ServiceNext
     /\ UNCHANGED <<writer, vars, universeVars, artifactVars, activityVars, viewVars,
                    chartVars, clientVars, workspaceVars, noteVars>>
  \/ writer = "workspace" /\ WorkspaceNext
     /\ UNCHANGED <<writer, vars, universeVars, artifactVars, activityVars, viewVars,
                    chartVars, clientVars, serviceVars, noteVars>>
  \/ writer = "notes" /\ NotesNext
     /\ UNCHANGED <<writer, vars, universeVars, artifactVars, activityVars, viewVars,
                    chartVars, clientVars, serviceVars, workspaceVars>>

FilesSpec == FilesInit /\ [][FilesNext]_filesVars

(* A reader is never given files of two selections, what the service state lists   *)
(* can be read, and an unreadable activity file is never replaced without a backup. *)
BundlesHold ==
  /\ writer = "artifacts" => BundleIsOneSelection /\ PublishedIsReadable
  /\ writer = "activity" => ActivityTypeOK /\ CorruptIsKept

(* Values that are shown side by side agree: bars of all timeframes, changes and   *)
(* activity ratios tell one history, a median is one of prices the same file       *)
(* shows, and what is called ready can be used.                                    *)
ViewsHold ==
  /\ writer = "views" => TimeframesAgree /\ ChangesAgree /\ ActivityIsEarned
  /\ writer = "universe" => MedianOfShownPrices /\ ReadyMeansUsable

(* Whoever waits for a shared load waits for one that is under way, its limits hold      *)
(* however many ask at once, no target waits beside a free slot, and what a page shows   *)
(* answers for the version, day and reference time it is shown under.                    *)
WebHolds ==
  /\ writer = "chart" => ChartHolds
  /\ writer = "client" => ChangesHold
  /\ writer = "service" => AwaitedIsLoading

(* What was read before others wrote never takes the place of what they wrote: a chart   *)
(* page is kept only for the version listed at that moment, the answers of one day all   *)
(* measure from one baseline, no favorite, pin, view or note is replaced by who had not  *)
(* seen it, and no late answer undoes a click or clears a text that came after it.       *)
StaleNeverWins ==
  PagesAreCurrent /\ BaselineIsSteady
  /\ OnlySeenIsReplaced /\ LastClickWins /\ NotesAreKept /\ DraftsAreKept
=============================================================================
