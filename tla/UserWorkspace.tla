----------------------------- MODULE UserWorkspace -----------------------------
(* The user's favorites, pins and saved views: one file behind the Web's routes     *)
(* (user-workspace-repository.ts, under the lock of FileStore, so that each call is *)
(* one step here), and the pages that show a copy of it and change it.  A page has  *)
(* one call under way for each favorite, one for its pins and one for its views.    *)
(* What a target says is listed by the market and may change at any time.           *)
(* A file of schema 1 is one without pins.                                          *)
EXTENDS Naturals, FiniteSets

CONSTANTS
  WorkspacePages, FavoriteKeys,
  Terms,           \* what the favorite of a key may say: the contracts it stands for
  ViewIds, ViewBodies,
  MaxFavorites, MaxPins, MaxViews,
  MaxClicks,       \* bound: clicks that change something
  Unset, NoCopy, NoCall

ASSUME WorkspaceAssumption ==
  {"pin", "view"} \cap FavoriteKeys = {}

(* The file, and a request of a page with what it keeps of it: see SentCall.         *)
WorkspaceFile ==
  [revision : Nat,
   favorites : [FavoriteKeys -> Terms \cup {Unset}],
   pins : [FavoriteKeys -> Terms \cup {Unset}],
   views : [ViewIds -> ViewBodies \cup {Unset}]]

WorkspaceCall ==
  [op : {"favorite", "pin", "view", "read"},
   key : FavoriteKeys \cup ViewIds \cup {Unset},
   body : Terms \cup ViewBodies \cup {Unset},
   seen : WorkspaceFile \cup {NoCopy}, terms : Terms \cup {Unset}, confirmed : BOOLEAN,
   reply : WorkspaceFile \cup {NoCopy}]

ASSUME UnsetIsNothing ==
  Unset \notin Terms /\ NoCopy \notin WorkspaceFile /\ NoCall \notin WorkspaceCall

VARIABLES workspace, copies, intent, calls, clicks

workspaceVars == <<workspace, copies, intent, calls, clicks>>

Lanes == FavoriteKeys \cup {"pin", "view"}

EmptyWorkspace ==
  [revision |-> 0,
   favorites |-> [k \in FavoriteKeys |-> Unset],
   pins |-> [k \in FavoriteKeys |-> Unset],
   views |-> [v \in ViewIds |-> Unset]]

WorkspaceInit ==
  /\ workspace = EmptyWorkspace
  /\ copies = [p \in WorkspacePages |-> NoCopy]
  /\ intent = [p \in WorkspacePages |-> [k \in FavoriteKeys |-> Unset]]
  /\ calls = [p \in WorkspacePages |-> [l \in Lanes |-> NoCall]]
  /\ clicks = 0

IsBusy(p, lane) == calls[p][lane] # NoCall

(* op, key and body (Unset to remove) are the request; seen is the copy whose       *)
(* revision it carries, NoCopy if it carries none; terms and confirmed are what the *)
(* page keeps to send it again                                                      *)
SentCall(op, key, body, seen, terms, confirmed) ==
  [op |-> op, key |-> key, body |-> body, seen |-> seen, terms |-> terms,
   confirmed |-> confirmed, reply |-> NoCopy]

ReadCall == SentCall("read", Unset, Unset, NoCopy, Unset, FALSE)

Click == clicks < MaxClicks /\ clicks' = clicks + 1

Send(p, lane, call) == calls' = [calls EXCEPT ![p][lane] = call]

(* readUserWorkspace on mount; that it may overtake other answers is left out *)
LoadCopy(p) ==
  /\ copies[p] = NoCopy
  /\ copies' = [copies EXCEPT ![p] = workspace]
  /\ UNCHANGED <<workspace, intent, calls, clicks>>

SavedTerms(p, k) == IF copies[p] = NoCopy THEN Unset ELSE copies[p].favorites[k]

(* a favorite is changed without a revision, unless the user confirms new terms *)
FavoriteCall(k, desired, terms, confirmed, copy) ==
  SentCall("favorite", k, IF desired THEN terms ELSE Unset,
           IF confirmed /\ desired THEN copy ELSE NoCopy, terms, confirmed)

(* toggleFavorite: a click while its favorite is busy only changes what is intended *)
ToggleFavorite(p, k) ==
  /\ Click
  /\ \/ /\ IsBusy(p, k) /\ intent[p][k] # Unset
        /\ intent' = [intent EXCEPT ![p][k] = ~@]
        /\ UNCHANGED calls
     \/ /\ ~IsBusy(p, k)
        /\ \E terms \in Terms :
             LET saved == SavedTerms(p, k)
                 desired == saved # terms
             IN  /\ intent' = [intent EXCEPT ![p][k] = desired]
                 /\ Send(p, k, FavoriteCall(k, desired, terms, desired /\ saved # Unset, copies[p]))
  /\ UNCHANGED <<workspace, copies>>

(* mutatePin, mutateView: always with the revision of the page's copy *)
ChangePin(p) ==
  /\ Click /\ copies[p] # NoCopy /\ ~IsBusy(p, "pin")
  /\ \E k \in FavoriteKeys, body \in Terms \cup {Unset} :
       Send(p, "pin", SentCall("pin", k, body, copies[p], Unset, FALSE))
  /\ UNCHANGED <<workspace, copies, intent>>

ChangeView(p) ==
  /\ Click /\ copies[p] # NoCopy /\ ~IsBusy(p, "view")
  /\ \E id \in ViewIds, body \in ViewBodies \cup {Unset} :
       Send(p, "view", SentCall("view", id, body, copies[p], Unset, FALSE))
  /\ UNCHANGED <<workspace, copies, intent>>

SetCount(part) == Cardinality({k \in DOMAIN part : part[k] # Unset})

WithinLimits(w) ==
  SetCount(w.favorites) <= MaxFavorites /\ SetCount(w.pins) <= MaxPins
  /\ SetCount(w.views) <= MaxViews

Refused == [ok |-> FALSE, file |-> workspace]
AsItIs == [ok |-> TRUE, file |-> workspace]
Accept(w) ==
  IF WithinLimits(w) THEN [ok |-> TRUE, file |-> [w EXCEPT !.revision = @ + 1]] ELSE Refused

(* Mutant: a revision ahead is not expected, one behind is forgiven. *)
SeenIsCurrentMutant(c) == c.seen.revision + 1 >= workspace.revision

SeenIsCurrent(c) == c.seen.revision = workspace.revision

FavoriteOutcome(c) ==
  LET saved == workspace.favorites[c.key]
      replaces == c.body # Unset /\ saved # Unset
  IN  IF saved = c.body THEN AsItIs
      ELSE IF (c.seen = NoCopy /\ replaces) \/ (c.seen # NoCopy /\ ~SeenIsCurrent(c)) THEN Refused
      ELSE Accept([workspace EXCEPT !.favorites[c.key] = c.body])

PinOutcome(c) ==
  LET saved == workspace.pins[c.key] IN
  IF saved = c.body THEN AsItIs
  ELSE IF ~SeenIsCurrent(c) \/ (c.body # Unset /\ saved # Unset) THEN Refused
  ELSE Accept([workspace EXCEPT !.pins[c.key] = c.body])

ViewOutcome(c) ==
  IF SeenIsCurrent(c) THEN Accept([workspace EXCEPT !.views[c.key] = c.body]) ELSE Refused

Outcome(c) ==
  CASE c.op = "favorite" -> FavoriteOutcome(c)
    [] c.op = "pin" -> PinOutcome(c)
    [] c.op = "view" -> ViewOutcome(c)
    [] c.op = "read" -> AsItIs

(* what the route and the repository accept is answered; its check of the target by   *)
(* what the market lists (assertCurrent) may refuse at any time: see FailCall         *)
ServeCall(p, lane) ==
  /\ IsBusy(p, lane) /\ calls[p][lane].reply = NoCopy
  /\ LET outcome == Outcome(calls[p][lane]) IN
     /\ outcome.ok
     /\ workspace' = outcome.file
     /\ calls' = [calls EXCEPT ![p][lane].reply = outcome.file]
  /\ UNCHANGED <<copies, intent, clicks>>

ClearIntent(p, lane) ==
  IF lane \in FavoriteKeys THEN [intent EXCEPT ![p][lane] = Unset] ELSE intent

(* the answer is taken as the page's copy, in whatever order answers come; a        *)
(* favorite that is intended otherwise by now is sent again                         *)
TakeAnswer(p, lane) ==
  /\ IsBusy(p, lane) /\ calls[p][lane].reply # NoCopy
  /\ LET c == calls[p][lane]
         again == c.op = "favorite" /\ intent[p][c.key] # (c.body # Unset)
     IN  /\ copies' = [copies EXCEPT ![p] = c.reply]
         /\ calls' = [calls EXCEPT ![p][lane] =
              IF again THEN FavoriteCall(c.key, intent[p][c.key], c.terms, c.confirmed, c.reply)
              ELSE NoCall]
         /\ intent' = IF again THEN intent ELSE ClearIntent(p, lane)
  /\ UNCHANGED <<workspace, clicks>>

(* a refusal, or a request or an answer that is lost, shows an error: a page reads  *)
(* again what became of its favorites and pins, and keeps its copy for its views    *)
FailCall(p, lane) ==
  /\ IsBusy(p, lane)
  /\ LET again == calls[p][lane].op \in {"favorite", "pin"} IN
     /\ calls' = [calls EXCEPT ![p][lane] = IF again THEN ReadCall ELSE NoCall]
     /\ intent' = IF again THEN intent ELSE ClearIntent(p, lane)
  /\ UNCHANGED <<workspace, copies, clicks>>

WorkspaceNext ==
  \/ \E p \in WorkspacePages :
       \/ LoadCopy(p) \/ ChangePin(p) \/ ChangeView(p)
       \/ \E k \in FavoriteKeys : ToggleFavorite(p, k)
       \/ \E lane \in Lanes :
            ServeCall(p, lane) \/ TakeAnswer(p, lane) \/ FailCall(p, lane)

(* No change replaces what its page had not seen: one that is made with a revision  *)
(* is made to the very file the page showed, whatever other pages saved in between  *)
(* and whatever answers were lost; one without only sets or clears its own key, and *)
(* never puts other terms under a favorite.                                         *)
OnlySeenIsReplaced ==
  [][workspace' # workspace =>
       \E p \in WorkspacePages, lane \in Lanes :
         LET c == calls[p][lane] IN
         /\ c # NoCall /\ calls'[p][lane] # c
         /\ IF c.seen # NoCopy THEN c.seen = workspace
            ELSE \E k \in FavoriteKeys :
                   /\ Unset \in {workspace.favorites[k], workspace'.favorites[k]}
                   /\ workspace' = [workspace EXCEPT !.revision = @ + 1,
                                      !.favorites[k] = workspace'.favorites[k]]]_workspaceVars

(* When the calls for a favorite end without an error, the page shows it as it was  *)
(* last clicked, however many clicks came while earlier answers were awaited.       *)
LastClickWins ==
  [][\A p \in WorkspacePages, k \in FavoriteKeys :
       LET c == calls[p][k] IN
       (c # NoCall /\ c.op = "favorite" /\ calls'[p][k] = NoCall) =>
         copies'[p].favorites[k] = IF intent[p][k] THEN c.terms ELSE Unset]_workspaceVars
================================================================================
