-------------------------- MODULE ShadowAllocation --------------------------
(***************************************************************************)
(* The hot set the Attention service recommends (attention-core's          *)
(* allocation.py): at each generation every policy fills K slots from the  *)
(* assets whose component is scored (components.py ranks them), starting   *)
(* from the allocation it saved last.  The hysteresis policy keeps a slot  *)
(* while it is young or near enough to the top; the cost-aware one only    *)
(* swaps when the gain in score pays for the switch.  The recommendation   *)
(* switches nothing itself.  Assets are numbers, ordered like their ids.   *)
(***************************************************************************)
EXTENDS Integers, FiniteSets, FiniteSetsExt, Sequences

CONSTANTS
  Assets,      \* how many assets are ranked
  Scores,      \* the highest score; 0 is none
  K,           \* slots
  Buffer,      \* how far below the top K hysteresis keeps a slot
  MinHold,     \* minimum_hold_minutes
  GroupsOf,    \* the contract groups of each asset
  SwitchCost,  \* switch_penalty, in scores
  WarmUpCost,  \* warm_up_cost, in scores
  NoSlots,     \* nothing saved yet
  MaxDecision  \* bound: the decision time

ASSUME AllocationAssumption ==
  /\ Assets \in Nat \ {0} /\ Scores \in Nat \ {0} /\ K \in Nat \ {0}
  /\ Buffer \in Nat /\ MinHold \in Nat /\ MaxDecision \in Nat
  /\ SwitchCost \in Nat /\ WarmUpCost \in Nat

ASSUME NoSlotsIsNone == \A slots \in SUBSET (1 .. Assets) : NoSlots \notin [slots -> Nat]

VARIABLES
  kind,       \* the policy followed
  decision,   \* the decision time of the last generation
  score,      \* its scores
  allocation, \* the allocation saved with it: each slot's entered_at
  compared,   \* and whether it started from the one before
  since       \* history: since when each asset has had a slot

allocationVars == <<kind, decision, score, allocation, compared, since>>

Ids == 1 .. Assets

-----------------------------------------------------------------------------
(* Ranks *)

Eligible(scored) == {a \in Ids : scored[a] > 0}

\* Higher scores first, then lower ids
Before(scored, a, b) ==
  scored[a] > scored[b] \/ (scored[a] = scored[b] /\ a < b)

Rank(scored, a) ==
  Cardinality({b \in Eligible(scored) : Before(scored, b, a)}) + 1

Ordered(scored) ==
  [i \in 1..Cardinality(Eligible(scored)) |-> CHOOSE a \in Eligible(scored) : Rank(scored, a) = i]

Best(scored) == {a \in Eligible(scored) : Rank(scored, a) <= K}

-----------------------------------------------------------------------------
(* Choosing the slots *)

\* The old slots, when the map and the policy are the same
Old(comparable) ==
  IF allocation = NoSlots \/ ~comparable THEN {} ELSE DOMAIN allocation

\* mutant: the hold ends a minute early
HeldMutant(a, at) == at - allocation[a] < MinHold - 1

Held(a, at) == at - allocation[a] < MinHold

\* Old slots that are young or still near the top, the young and old ones first
Keeps(scored, at) ==
  LET kept == {a \in Old(TRUE) \cap Eligible(scored) :
                 Held(a, at) \/ Rank(scored, a) <= K + Buffer}
      first(a, b) ==
        IF Held(a, at) # Held(b, at) THEN Held(a, at)
        ELSE IF allocation[a] # allocation[b] THEN allocation[a] < allocation[b]
        ELSE Before(scored, a, b)
  IN {a \in kept : Cardinality({b \in kept : first(b, a)}) < K}

\* Free slots go to the best K
Filled(scored, kept) ==
  LET free == K - Cardinality(kept)
      best == Best(scored) \ kept
  IN kept \cup {a \in best : Cardinality({b \in best : Before(scored, b, a)}) < free}

\* What replacing some slots by others costs; an asset of no group counts alone
TransitionCost(before, after) ==
  LET groups(slots) == UNION {GroupsOf[a] : a \in slots}
      alone(slots) == {a \in slots : GroupsOf[a] = {}}
      gone(from, to) == Cardinality(groups(from) \ groups(to))
                        + Cardinality(alone(from) \ alone(to))
      additions == gone(after, before)
  IN SwitchCost * (additions + gone(before, after)) + WarmUpCost * additions

\* The worst slot that may be given up goes, if what comes is worth it
Swapped(scored, at, chosen, a) ==
  LET removable == {b \in chosen : b \notin Old(TRUE) \/ ~Held(b, at)}
      worst == CHOOSE b \in removable :
                 \A c \in removable : scored[b] < scored[c]
                                      \/ (scored[b] = scored[c] /\ b <= c)
      after == (chosen \ {worst}) \cup {a}
  IN IF a \in chosen THEN chosen
     ELSE IF Cardinality(chosen) < K THEN chosen \cup {a}
     ELSE IF removable = {} THEN chosen
     ELSE IF scored[a] - scored[worst] > TransitionCost(chosen, after)
          THEN after ELSE chosen

\* The scored assets, best first, each ask for a slot
CostAware(scored, at) ==
  LET order == Ordered(scored)
      chosen[n \in 0..Len(order)] ==
        IF n = 0 THEN Old(TRUE) \cap Eligible(scored)
        ELSE Swapped(scored, at, chosen[n - 1], order[n])
  IN chosen[Len(order)]

Chosen(scored, at, comparable) ==
  IF kind = "top-k-v1" \/ allocation = NoSlots \/ ~comparable THEN Best(scored)
  ELSE IF kind = "hysteresis-v1" THEN Filled(scored, Keeps(scored, at))
  ELSE CostAware(scored, at)

-----------------------------------------------------------------------------

AllocationInit ==
  /\ kind \in {"top-k-v1", "hysteresis-v1", "cost-aware-greedy-v1"}
  /\ decision = 0
  /\ score = [a \in Ids |-> 0]
  /\ allocation = NoSlots
  /\ compared = FALSE
  /\ since = [a \in Ids |-> 0]

\* A generation is scored and saved with its allocation.  The map may have
\* changed, and an unavailable generation scores nobody.
Allocate(scored, at, comparable) ==
  LET chosen == Chosen(scored, at, comparable)
  IN /\ decision' = at /\ score' = scored
     /\ compared' = (comparable /\ allocation # NoSlots)
     /\ allocation' = [a \in chosen |-> IF a \in Old(comparable)
                                        THEN allocation[a] ELSE at]
     /\ since' = [a \in Ids |->
          IF a \in chosen \cap Old(comparable) THEN since[a] ELSE at]
     /\ UNCHANGED kind

AllocationNext ==
  \E scored \in [Ids -> 0 .. Scores], at \in decision + 1 .. decision + 2,
     comparable \in BOOLEAN :
    at <= MaxDecision /\ Allocate(scored, at, comparable)

AllocationSpec == AllocationInit /\ [][AllocationNext]_allocationVars

-----------------------------------------------------------------------------
(* Properties *)

\* An asset that is still scored loses its slot only after minimum_hold
\* minutes in it, whatever the generations in between, unless the policy
\* keeps no memory: top-k, or a map that has just changed.
SlotsAreHeld ==
  [][kind # "top-k-v1" /\ compared' =>
       \A a \in DOMAIN allocation \ DOMAIN allocation' :
         score'[a] > 0 => decision' - since[a] >= MinHold]_allocationVars

\* Every policy always fills as many slots as there are scored assets for, and
\* a slot that stays keeps the time it was entered at (entered_at is what the
\* hold is measured from).
SlotsAreFull ==
  allocation # NoSlots =>
    /\ Cardinality(DOMAIN allocation) = Min({K, Cardinality(Eligible(score))})
    /\ \A a \in DOMAIN allocation : allocation[a] = since[a]
=============================================================================
