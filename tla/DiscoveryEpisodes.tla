------------------------- MODULE DiscoveryEpisodes -------------------------
(***************************************************************************)
(* The Attention publisher (attention-core's service.py) and the discovery *)
(* tables it writes (discovery_storage.py).  Once a minute it reads the    *)
(* Ranking and Market generations, saves an attention generation and then  *)
(* evaluates the discovery condition of every asset: a match opens or      *)
(* confirms an episode, its absence ends it, and whatever was not observed *)
(* - a failed read, a missing or unknown row, a restart - only interrupts  *)
(* it.  A second generation of the same cutoff may interrupt but never     *)
(* counts again.  Cutoffs are minutes; the key of an offer, which grows    *)
(* with every generation read, also stands for the decision time.          *)
(***************************************************************************)
EXTENDS Integers, FiniteSets

CONSTANTS
  Asset,        \* the ranked assets
  Identity,     \* digests of an asset's reference and original contracts
  Absent,       \* no row, no state, no episode, no confirmation
  HistoryKept,  \* HISTORY_RETENTION_MS, in decision times
  MaxEnded,     \* MAX_ENDED_EPISODES
  MaxOffers,    \* bound: generations offered
  MaxVersions,  \* bound: map and metric versions
  MaxTroubles   \* bound: failed reads, storage failures and restarts

ASSUME DiscoveryAssumption ==
  /\ HistoryKept \in Nat /\ MaxEnded \in Nat
  /\ MaxOffers \in Nat /\ MaxVersions \in Nat \ {0} /\ MaxTroubles \in Nat

VARIABLES
  offer,       \* what the Ranking and Market services offer now
  publisher,   \* AttentionService: what it is doing and what it remembers
  saved,       \* key of the newest row of input_generations
  states,      \* discovery_states
  episodes,    \* discovery_episodes, by asset
  projection,  \* discovery_latest
  observed,    \* history: the evaluations of each asset
  breaks,      \* history: the cutoffs after which its observation broke
  troubles     \* how many failures and restarts there have been

discoveryVars == <<offer, publisher, saved, states, episodes, projection,
                   observed, breaks, troubles>>

-----------------------------------------------------------------------------
(* Rows, episodes and their continuity *)

RowState == {"matched", "not_matched", "unknown"}

\* discovery.py: a row is unknown unless the identity is eligible and both
\* earlier windows are exact, else it has matched or not
Row == [identity : Identity, state : RowState]

Generation ==
  [key : 1 .. MaxOffers, cutoff : 1 .. 2 * MaxOffers + 1,
   version : 1 .. MaxVersions, rows : [Asset -> Row \cup {Absent}]]

ConfirmationKind == {"continuing", "new", "reconfirmation", "initial_confirmation"}
EpisodeId == Identity \X Nat

DiscoveryEpisode ==
  [identity : Identity, kind : ConfirmationKind, first : Nat, last : Nat,
   state : {"active", "interrupted", "ended"}, confirmations : Nat, duration : Nat, ended : Nat]

DiscoveryState ==
  [identity : Identity, version : Nat, state : RowState, cutoff : Nat,
   interrupted : BOOLEAN, episode : EpisodeId \cup {Absent}]

DiscoveryRow ==
  [identity : Identity, state : RowState, confirmation : ConfirmationKind \cup {Absent},
   episode : EpisodeId \cup {Absent}]

ASSUME AbsentIsNone ==
  Absent \notin Row \cup Generation \cup ConfirmationKind \cup EpisodeId \cup DiscoveryEpisode
                \cup DiscoveryState \cup DiscoveryRow
                \cup [cutoff : Nat \ {0}, rows : [Asset -> DiscoveryRow \cup {Absent}]]

Starting(key) ==
  [doing |-> "idle", current |-> key, pending |-> Absent, restarted |-> TRUE]

IsOpen(e) == e.state # "ended"

Identifier(e) == <<e.identity, e.first>>

\* The open episode an asset's state refers to
OpenEpisode(a) ==
  LET of == {e \in episodes[a] : /\ states[a] # Absent
                                 /\ Identifier(e) = states[a].episode
                                 /\ IsOpen(e)}
  IN IF of = {} THEN Absent ELSE CHOOSE e \in of : TRUE

SameIdentity(a, row) == states[a] # Absent /\ states[a].identity = row.identity

\* Nothing between the last evaluation and this one went unobserved
Contiguous(a, inputs) ==
  /\ SameIdentity(a, inputs.rows[a])
  /\ ~states[a].interrupted /\ ~publisher.restarted
  /\ states[a].cutoff + 1 = inputs.cutoff
  /\ states[a].version = inputs.version
  /\ states[a].state # "unknown"

Interrupted(e) == [e EXCEPT !.state = "interrupted"]

Ended(e, now) == [e EXCEPT !.state = "ended", !.ended = now]

-----------------------------------------------------------------------------
(* Evaluating a new cutoff *)

\* The open episode the row goes on with; one of another identity is ended
Kept(a, row) ==
  IF SameIdentity(a, row) THEN OpenEpisode(a) ELSE Absent

Confirmation(a, inputs) ==
  LET row == inputs.rows[a]
      was(state) == Contiguous(a, inputs) /\ states[a].state = state
  IN IF row.state # "matched" THEN Absent
     ELSE IF Kept(a, row) # Absent /\ was("matched") THEN "continuing"
     ELSE IF Kept(a, row) = Absent /\ was("not_matched") THEN "new"
     ELSE IF SameIdentity(a, row) THEN "reconfirmation"
     ELSE "initial_confirmation"

Opened(a, inputs) ==
  [identity |-> inputs.rows[a].identity, kind |-> Confirmation(a, inputs),
   first |-> inputs.cutoff, last |-> inputs.cutoff, state |-> "active",
   confirmations |-> 1, duration |-> 0, ended |-> 0]

Confirmed(e, inputs, continuing) ==
  [e EXCEPT !.state = "active", !.last = inputs.cutoff,
            !.confirmations = IF continuing THEN @ + 1 ELSE 1,
            !.duration = IF continuing THEN @ + inputs.cutoff - e.last ELSE @]

\* The asset's episode after the row: at most one is open
Evaluated(a, inputs) ==
  LET row == inputs.rows[a]
      kept == Kept(a, row)
  IN CASE row.state = "matched" /\ kept = Absent -> Opened(a, inputs)
       [] row.state = "matched" /\ kept # Absent ->
            Confirmed(kept, inputs, Confirmation(a, inputs) = "continuing")
       [] row.state = "not_matched" /\ kept # Absent -> Ended(kept, inputs.key)
       [] row.state = "unknown" /\ kept # Absent -> Interrupted(kept)
       [] OTHER -> Absent

\* The episodes of an asset once its old open one has been replaced
Replacing(a, with) == (episodes[a] \ {OpenEpisode(a)}) \cup (with \ {Absent})

EpisodesAfter(a, inputs) ==
  LET row == inputs.rows[a]
      open == OpenEpisode(a)
  IN IF row = Absent
     THEN IF open = Absent THEN episodes[a] ELSE Replacing(a, {Interrupted(open)})
     ELSE LET changed == open # Absent /\ ~SameIdentity(a, row)
              old == IF changed THEN {Ended(open, inputs.key)} ELSE {}
          IN Replacing(a, old \cup {Evaluated(a, inputs)})

EpisodeOf(a, inputs) ==
  LET e == Evaluated(a, inputs)
  IN IF e # Absent /\ e.state # "ended" THEN Identifier(e) ELSE Absent

Broken(state) == [state EXCEPT !.state = "unknown", !.interrupted = TRUE]

StateAfter(a, inputs) ==
  LET row == inputs.rows[a]
  IN IF row = Absent
     THEN IF states[a] = Absent THEN Absent ELSE Broken(states[a])
     ELSE [identity |-> row.identity, version |-> inputs.version,
           state |-> row.state, cutoff |-> inputs.cutoff,
           interrupted |-> row.state = "unknown",
           episode |-> EpisodeOf(a, inputs)]

\* _prune_discovery: only ended episodes age out
Pruned(all, now) ==
  LET young == {e \in all : IsOpen(e) \/ e.ended >= now - HistoryKept}
      newer(e) == {d \in young : ~IsOpen(d) /\ d.ended > e.ended}
  IN {e \in young : IsOpen(e) \/ Cardinality(newer(e)) < MaxEnded}

EvaluateNew(inputs) ==
  /\ episodes' = [a \in Asset |-> Pruned(EpisodesAfter(a, inputs), inputs.key)]
  /\ states' = [a \in Asset |-> StateAfter(a, inputs)]
  /\ projection' =
       [cutoff |-> inputs.cutoff,
        rows |-> [a \in Asset |->
          IF inputs.rows[a] = Absent THEN Absent
          ELSE [identity |-> inputs.rows[a].identity,
                state |-> inputs.rows[a].state,
                confirmation |-> Confirmation(a, inputs),
                episode |-> EpisodeOf(a, inputs)]]]
  /\ observed' = [a \in Asset |->
       IF inputs.rows[a] = Absent THEN observed[a]
       ELSE observed[a] \cup
              {[identity |-> inputs.rows[a].identity, cutoff |-> inputs.cutoff,
                version |-> inputs.version, state |-> inputs.rows[a].state]}]
  /\ UNCHANGED breaks

-----------------------------------------------------------------------------
(* Refreshing the cutoff already evaluated *)

RowUnavailable(row) == publisher.restarted \/ row.state = "unknown"

\* The assets whose observation this refresh breaks
Interruptions(inputs) ==
  {a \in Asset : /\ states[a] # Absent
                 /\ \/ inputs.rows[a] = Absent
                    \/ RowUnavailable(inputs.rows[a])
                    \/ ~SameIdentity(a, inputs.rows[a])}

Refreshed(a, row) ==
  LET previous == projection.rows[a]
      same == previous # Absent /\ previous.identity = row.identity
      state == IF same /\ ~RowUnavailable(row) THEN previous.state ELSE "unknown"
  IN [identity |-> row.identity, state |-> state,
      confirmation |-> IF state # "unknown" THEN previous.confirmation ELSE Absent,
      episode |-> CASE same -> previous.episode
                    [] ~same /\ SameIdentity(a, row) -> states[a].episode
                    [] OTHER -> Absent]

Break(which) ==
  /\ states' = [a \in Asset |->
       IF a \in which /\ states[a] # Absent THEN Broken(states[a]) ELSE states[a]]
  /\ episodes' = [a \in Asset |->
       IF a \in which /\ OpenEpisode(a) # Absent
       THEN Replacing(a, {Interrupted(OpenEpisode(a))}) ELSE episodes[a]]
  /\ breaks' = [a \in Asset |->
       IF a \in which THEN breaks[a] \cup {projection.cutoff} ELSE breaks[a]]

Refresh(inputs) ==
  /\ Break(Interruptions(inputs))
  /\ projection' = [projection EXCEPT !.rows = [a \in Asset |->
       IF inputs.rows[a] = Absent THEN Absent
       ELSE Refreshed(a, inputs.rows[a])]]
  /\ UNCHANGED observed

\* interrupt_discovery: everything shown becomes unknown
Interrupt ==
  IF projection = Absent THEN UNCHANGED <<states, episodes, projection, breaks>>
  ELSE /\ Break(Asset)
       /\ projection' = [projection EXCEPT !.rows = [a \in Asset |->
            IF projection.rows[a] = Absent THEN Absent
            ELSE [projection.rows[a] EXCEPT !.state = "unknown",
                                            !.confirmation = Absent]]]

-----------------------------------------------------------------------------
(* The publisher, AttentionService.generate_once *)

DiscoveryInit ==
  /\ offer = Absent
  /\ publisher = Starting(0)
  /\ saved = 0
  /\ states = [a \in Asset |-> Absent]
  /\ episodes = [a \in Asset |-> {}]
  /\ projection = Absent
  /\ observed = [a \in Asset |-> {}]
  /\ breaks = [a \in Asset |-> {}]
  /\ troubles = 0

tables == <<saved, states, episodes, projection, observed, breaks>>

\* The inputs are those of the generation already published
ReadAlready == offer # Absent /\ offer.key = publisher.current

\* The Ranking or Market service publishes: a new cutoff, perhaps after a gap
\* or an older one, or newer market data for the same one.  One that was not
\* even tried before the next is what the gap stands for.
Tried == offer \in {Absent, publisher.pending} \/ ReadAlready

Offer ==
  \E g \in Generation :
    /\ publisher.doing = "idle" /\ Tried
    /\ IF offer = Absent THEN g.key = 1 /\ g.cutoff \in 2 .. 3 /\ g.version = 1
       ELSE /\ g.key = offer.key + 1
            /\ g.cutoff \in offer.cutoff - 1 .. offer.cutoff + 2
            /\ g.version \in IF g.cutoff = offer.cutoff + 1
                             THEN offer.version .. offer.version + 1
                             ELSE {offer.version}
    /\ offer' = g
    /\ UNCHANGED <<publisher, tables, troubles>>

Trouble == troubles < MaxTroubles /\ troubles' = troubles + 1

\* The failure is written down, unless the store fails once more
Failed ==
  /\ \/ Interrupt
     \/ UNCHANGED <<states, episodes, projection, breaks>>
  /\ publisher' = [publisher EXCEPT !.doing = "idle"]
  /\ UNCHANGED <<offer, observed>>

ReadFails ==
  publisher.doing = "idle" /\ Trouble /\ Failed /\ UNCHANGED saved

\* The first look after a restart finds nothing new
ReadSame ==
  /\ publisher.doing = "idle" /\ ReadAlready
  /\ publisher.restarted /\ Interrupt
  /\ UNCHANGED <<offer, publisher, saved, observed, troubles>>

\* New inputs are scored once: a retry keeps what it had prepared
ReadNext ==
  /\ publisher.doing = "idle" /\ offer # Absent
  /\ offer.key # publisher.current
  /\ publisher' = [publisher EXCEPT !.doing = "saving", !.pending = offer]
  /\ UNCHANGED <<offer, tables, troubles>>

SaveGeneration ==
  /\ publisher.doing = "saving"
  /\ saved' = publisher.pending.key
  /\ publisher' = [publisher EXCEPT !.doing = "evaluating"]
  /\ UNCHANGED <<offer, states, episodes, projection, observed, breaks, troubles>>

\* The transaction fails, or only the files after it
SaveGenerationFails ==
  /\ publisher.doing = "saving" /\ Trouble
  /\ saved' \in {saved, publisher.pending.key}
  /\ Failed

IsNewCutoff(inputs) == projection = Absent \/ projection.cutoff # inputs.cutoff

IsOlder(inputs) == projection # Absent /\ inputs.cutoff < projection.cutoff

Published(evaluated) ==
  publisher' = [publisher EXCEPT !.doing = "idle", !.pending = Absent,
                  !.current = publisher.pending.key,
                  !.restarted = @ /\ ~evaluated]

SaveDiscovery ==
  LET inputs == publisher.pending
      evaluated == IsNewCutoff(inputs) /\ ~IsOlder(inputs)
  IN /\ publisher.doing = "evaluating"
     /\ CASE evaluated -> EvaluateNew(inputs)
          [] IsOlder(inputs) ->
               UNCHANGED <<states, episodes, projection, observed, breaks>>
          [] OTHER -> Refresh(inputs)
     /\ Published(evaluated)
     /\ UNCHANGED <<offer, saved, troubles>>

SaveDiscoveryFails ==
  publisher.doing = "evaluating" /\ Trouble /\ Failed /\ UNCHANGED saved

\* A killed publisher starts again from the newest saved generation
Restart ==
  /\ Trouble
  /\ publisher' = Starting(saved)
  /\ breaks' = IF projection = Absent THEN breaks
               ELSE [a \in Asset |-> breaks[a] \cup {projection.cutoff}]
  /\ UNCHANGED <<offer, saved, states, episodes, projection, observed>>

DiscoveryNext ==
  \/ Offer \/ ReadFails \/ ReadSame \/ ReadNext
  \/ SaveGeneration \/ SaveGenerationFails
  \/ SaveDiscovery \/ SaveDiscoveryFails \/ Restart

DiscoverySpec == DiscoveryInit /\ [][DiscoveryNext]_discoveryVars

-----------------------------------------------------------------------------
(* Properties *)

\* Two evaluations of an asset one minute apart with nothing missed between
Adjacent(a, c, before, after) ==
  /\ c - 1 \notin breaks[a]
  /\ \E p, q \in observed[a] :
       /\ p.cutoff = c - 1 /\ q.cutoff = c
       /\ p.identity = q.identity /\ p.version = q.version
       /\ p.state = before /\ q.state = after

\* An episode's observed duration is the number of minutes at both ends of
\* which its condition was seen to hold with no gap, failure, restart or
\* change of contract between, and an episode is called new only when the
\* condition was seen not to hold one minute before (save_discovery).
EpisodesAreObserved ==
  \A a \in Asset : \A e \in episodes[a] :
    /\ e.duration =
         Cardinality({c \in e.first + 1 .. e.last :
                        Adjacent(a, c, "matched", "matched")})
    /\ e.kind = "new" => Adjacent(a, e.first, "not_matched", "matched")

\* An asset has at most one open episode, and its state still refers to it:
\* a later row can confirm or end it (discovery_states.episodeId).
OpenEpisodesAreReachable ==
  \A a \in Asset :
    LET open == {e \in episodes[a] : IsOpen(e)}
    IN open \subseteq {OpenEpisode(a)}

\* The projection shows a match exactly for the active episodes, all of them
\* confirmed at the cutoff shown: refreshes, failed reads and storage failures
\* move the three tables together.
ShownMatchesAreActive ==
  projection # Absent =>
    \A a \in Asset :
      LET shown == projection.rows[a] # Absent /\ projection.rows[a].state = "matched"
          active == {e \in episodes[a] : e.state = "active"}
      IN /\ shown <=> active # {}
         /\ \A e \in active : /\ e.last = projection.cutoff
                              /\ projection.rows[a].episode = Identifier(e)
                              /\ projection.rows[a].confirmation # Absent

DiscoveryHolds ==
  EpisodesAreObserved /\ OpenEpisodesAreReachable /\ ShownMatchesAreActive
=============================================================================
