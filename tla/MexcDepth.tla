------------------------------- MODULE MexcDepth -------------------------------
(***************************************************************************)
(* The depth and trade stream of one selected instrument of MEXC           *)
(* (sources/mexc_selected.py): the producer subscribes, takes a snapshot   *)
(* over REST, applies the merged updates the socket pushes, fills a gap    *)
(* with the commits the exchange still has, and starts over on anything    *)
(* else.  The exchange, which moves on at any time, merges updates into    *)
(* frames and may lose frames, is external.                                *)
(***************************************************************************)
EXTENDS Integers, Sequences, SequencesExt, FiniteSetsExt

CONSTANTS
  Price,        \* price levels
  Size,         \* sizes a level may have, 0 when there is none
  NoBook,       \* a model value: no book, no version, no frame
  Commits,      \* how many commits depth_commits returns (1000 in the code)
  Deals,        \* how many trades the REST call returns (100)
  SeenLimit,    \* trade ids remembered (10000)
  MaxUpdates,   \* bound: updates of the book
  MaxTrades,    \* bound: trades
  MaxLost,      \* bound: frames lost
  MaxBreaks     \* bound: connections that break

ASSUME DepthAssumption ==
  /\ 0 \in Size
  /\ {Commits, Deals, SeenLimit} \subseteq Nat \ {0}
  /\ {MaxUpdates, MaxTrades, MaxLost, MaxBreaks} \subseteq Nat

VARIABLES
  updates,   \* the exchange's book: its updates in order of their versions
  deals,     \* the exchange's trades so far
  socket,    \* frames on their way
  sent,      \* versions the socket was given, or NoBook before the subscription
  told,      \* trades the socket was given
  unsent,    \* acknowledgements the exchange still owes
  lost, breaks,
  stage,     \* where produce_mexc_selected is
  awaited,   \* pending_acknowledgements
  version,   \* state.version, or NoBook
  book,      \* state.bids and state.asks
  waiting,   \* the frame a bridge is fetched for, or NoBook
  synchronized,
  publish,   \* snapshot_publish_at is set
  shown,     \* the last depth event emitted, NoBook when it is an invalidation
  tape       \* the trades emitted on this connection, in order

exchangeVars == <<updates, deals, socket, sent, told, unsent, lost>>
stateVars == <<awaited, version, book, waiting, synchronized, publish>>
depthVars == <<exchangeVars, breaks, stage, stateVars, shown, tape>>

(* The feed's moves are the exchange's updates, its view what was emitted last. *)
Feed == INSTANCE BookFeed WITH moves <- updates, view <- shown

Connected == {"snapshot", "deals", "receive", "bridge"}
Frame == [kind: {"ack"}, of: {"depth", "deal"}]
         \cup [kind: {"depth"}, begin: 1..MaxUpdates, end: 1..MaxUpdates]
         \cup [kind: {"deal"}, id: 1..MaxTrades]
Book == [Price -> Size]

DepthTypeOK ==
  /\ updates \in Seq(Feed!Update) /\ Len(updates) <= MaxUpdates
  /\ deals \in 0..MaxTrades /\ told \in 0..MaxTrades
  /\ socket \in Seq(Frame)
  /\ sent \in 0..MaxUpdates \cup {NoBook}
  /\ unsent \subseteq {"depth", "deal"} /\ awaited \subseteq {"depth", "deal"}
  /\ lost \in 0..MaxLost /\ breaks \in 0..MaxBreaks
  /\ stage \in Connected \cup {"connect", "stopped"}
  /\ version \in 0..MaxUpdates \cup {NoBook}
  /\ book \in Book
  /\ waiting \in Frame \cup {NoBook}
  /\ synchronized \in BOOLEAN /\ publish \in BOOLEAN
  /\ shown \in [version: 0..MaxUpdates, book: Book] \cup {NoBook}
  /\ tape \in Seq(1..MaxTrades)

Empty == [p \in Price |-> 0]

Fresh ==
  /\ awaited' = {"depth", "deal"}
  /\ version' = NoBook /\ book' = Empty /\ waiting' = NoBook
  /\ synchronized' = FALSE /\ publish' = FALSE
  /\ tape' = <<>>

DepthInit ==
  /\ Feed!FeedInit
  /\ deals = 0 /\ socket = <<>> /\ sent = NoBook /\ told = 0 /\ unsent = {}
  /\ lost = 0 /\ breaks = 0
  /\ stage = "connect"
  /\ awaited = {"depth", "deal"}
  /\ version = NoBook /\ book = Empty /\ waiting = NoBook
  /\ synchronized = FALSE /\ publish = FALSE
  /\ tape = <<>>

-----------------------------------------------------------------------------
(* The exchange *)

ExchangeMoves(update) ==
  /\ Len(updates) < MaxUpdates
  /\ Feed!Move(update)
  /\ UNCHANGED <<deals, socket, sent, told, unsent, lost, breaks, stage, stateVars, tape>>

ExchangeTrades ==
  /\ deals < MaxTrades
  /\ deals' = deals + 1
  /\ UNCHANGED <<updates, socket, sent, told, unsent, lost, breaks, stage, stateVars, shown, tape>>

Acknowledge(of) ==
  /\ of \in unsent
  /\ unsent' = unsent \ {of}
  /\ socket' = Append(socket, [kind |-> "ack", of |-> of])
  /\ UNCHANGED <<updates, deals, sent, told, lost, breaks, stage, stateVars, shown, tape>>

(* compress: one frame stands for every update since the one before it. *)
PushDepth(end, arrives) ==
  /\ sent # NoBook
  /\ end \in sent + 1..Len(updates)
  /\ sent' = end
  /\ socket' = IF arrives THEN Append(socket, [kind |-> "depth", begin |-> sent + 1, end |-> end])
                          ELSE socket
  /\ lost' = IF arrives THEN lost ELSE lost + 1
  /\ lost' <= MaxLost
  /\ UNCHANGED <<updates, deals, told, unsent, breaks, stage, stateVars, shown, tape>>

PushDeal ==
  /\ sent # NoBook
  /\ told < deals
  /\ told' = told + 1
  /\ socket' = Append(socket, [kind |-> "deal", id |-> told + 1])
  /\ UNCHANGED <<updates, deals, sent, unsent, lost, breaks, stage, stateVars, shown, tape>>

-----------------------------------------------------------------------------
(* The producer *)

(* Invalidate, then connect and subscribe: what moved before this is not pushed. *)
Connect ==
  /\ stage = "connect"
  /\ stage' = "snapshot"
  /\ Fresh
  /\ shown' = NoBook
  /\ socket' = <<>> /\ sent' = Len(updates) /\ told' = deals /\ unsent' = {"depth", "deal"}
  /\ UNCHANGED <<updates, deals, lost, breaks>>

(* The REST answer may be older than what the socket pushed meanwhile. *)
TakeSnapshot(of) ==
  /\ stage = "snapshot"
  /\ stage' = "deals"
  /\ version' = of
  /\ book' = Feed!BookAt(updates, of)
  /\ UNCHANGED <<exchangeVars, breaks, awaited, waiting, synchronized, publish, shown, tape>>

LastOf(s, n) == SubSeq(s, IF Len(s) > n THEN Len(s) - n + 1 ELSE 1, Len(s))

Seen == ToSet(LastOf(tape, SeenLimit))

TakeDeals ==
  /\ stage = "deals"
  /\ stage' = "receive"
  /\ tape' = LastOf([i \in 1..deals |-> i], Deals)
  /\ UNCHANGED <<exchangeVars, breaks, stateVars, shown>>

Receives(kind) ==
  /\ stage = "receive"
  /\ socket # <<>>
  /\ Head(socket).kind = kind
  /\ socket' = Tail(socket)
  /\ UNCHANGED <<updates, deals, sent, told, unsent, lost, breaks>>

(* Mutant: the quiet book is only published if an update follows. *)
PublishDueMutant == FALSE

PublishDue == awaited' = {}

(* The last acknowledgement starts the window after which a quiet book is published. *)
ReceiveAck ==
  /\ Receives("ack")
  /\ awaited' = awaited \ {Head(socket).of}
  /\ publish' = PublishDue
  /\ UNCHANGED <<stage, version, book, waiting, synchronized, shown, tape>>

(* A push that overtakes the acknowledgement of its subscription is dropped. *)
ReceiveEarly ==
  /\ \E kind \in {"depth", "deal"} : Receives(kind) /\ kind \in awaited
  /\ UNCHANGED <<stage, stateVars, shown, tape>>

ReceiveDeal ==
  /\ Receives("deal") /\ "deal" \notin awaited
  /\ tape' = IF Head(socket).id \in Seen THEN tape ELSE Append(tape, Head(socket).id)
  /\ UNCHANGED <<stage, stateVars, shown>>

PublishSnapshot ==
  /\ stage = "receive"
  /\ publish /\ ~synchronized
  /\ shown' = [version |-> version, book |-> book]
  /\ synchronized' = TRUE
  /\ UNCHANGED <<exchangeVars, breaks, stage, awaited, version, book, waiting, publish, tape>>

(* The absolute sizes a frame carries: the last one of every level it touched. *)
Applied(onto, begin, end) ==
  [p \in Price |->
     IF \E k \in begin..end : updates[k].price = p
     THEN Feed!BookAt(updates, end)[p] ELSE onto[p]]

Emit(at, levels) ==
  /\ version' = at /\ book' = levels
  /\ shown' = [version |-> at, book |-> levels]
  /\ synchronized' = TRUE

ReceiveStale ==
  /\ Receives("depth") /\ "depth" \notin awaited
  /\ Head(socket).end <= version
  /\ UNCHANGED <<stage, stateVars, shown, tape>>

(* Mutant: off by one, a frame that misses one version is applied. *)
GapMutant(frame) == frame.begin > version + 2

Gap(frame) == frame.begin > version + 1

ReceiveDepth ==
  /\ Receives("depth") /\ "depth" \notin awaited
  /\ LET frame == Head(socket) IN
       /\ frame.end > version /\ ~Gap(frame)
       /\ Emit(frame.end, Applied(book, frame.begin, frame.end))
  /\ UNCHANGED <<stage, awaited, waiting, publish, tape>>

(* Mutant: the book of before the gap stays on display while the bridge is fetched. *)
HideMutant == shown' = shown

Hide == shown' = NoBook

(* A gap hides the book before the commits are asked for. *)
ReceiveGap ==
  /\ Receives("depth") /\ "depth" \notin awaited
  /\ Gap(Head(socket))
  /\ waiting' = Head(socket)
  /\ stage' = "bridge"
  /\ Hide
  /\ UNCHANGED <<awaited, version, book, synchronized, publish, tape>>

(* depth_commits returns the last commits the exchange has. *)
Oldest == Max({1, Len(updates) - Commits + 1})

Bridged == Oldest <= version + 1

Bridge ==
  /\ stage = "bridge"
  /\ Bridged
  /\ Emit(waiting.end, Applied(Applied(book, version + 1, waiting.begin - 1),
                               waiting.begin, waiting.end))
  /\ waiting' = NoBook
  /\ stage' = "receive"
  /\ UNCHANGED <<exchangeVars, breaks, awaited, publish, tape>>

(* Invalidated again; the state of the next connection is a new one. *)
Disconnect ==
  /\ stage' = "connect"
  /\ shown' = NoBook
  /\ Fresh
  /\ socket' = <<>> /\ sent' = NoBook /\ unsent' = {}
  /\ UNCHANGED <<updates, deals, told, lost>>

(* The commits don't reach back far enough: start over. *)
BridgeIncomplete ==
  /\ stage = "bridge"
  /\ ~Bridged
  /\ Disconnect
  /\ UNCHANGED breaks

(***************************************************************************)
(* The socket closes, a call fails, a payload does not parse, the exchange *)
(* rejects the subscription or does not acknowledge it in time.            *)
(***************************************************************************)
Break ==
  /\ stage \in Connected
  /\ breaks < MaxBreaks
  /\ breaks' = breaks + 1
  /\ Disconnect

(* The selection is replaced: no event follows, the lease is closed elsewhere. *)
StopStream ==
  /\ stage # "stopped"
  /\ stage' = "stopped"
  /\ Fresh
  /\ socket' = <<>> /\ sent' = NoBook /\ unsent' = {}
  /\ UNCHANGED <<updates, deals, told, lost, breaks, shown>>

Receive == ReceiveAck \/ ReceiveEarly \/ ReceiveDeal \/ ReceiveStale \/ ReceiveDepth \/ ReceiveGap

Exchange ==
  \/ \E update \in Feed!Update : ExchangeMoves(update)
  \/ ExchangeTrades
  \/ \E of \in {"depth", "deal"} : Acknowledge(of)
  \/ \E end \in 1..Len(updates), arrives \in BOOLEAN : PushDepth(end, arrives)
  \/ PushDeal

Produce ==
  \/ Connect
  \/ \E of \in 0..Len(updates) : TakeSnapshot(of)
  \/ TakeDeals
  \/ Receive
  \/ PublishSnapshot
  \/ Bridge
  \/ BridgeIncomplete

DepthNext == Exchange \/ Produce \/ Break \/ StopStream

DepthFairness ==
  /\ WF_depthVars(Produce)
  /\ WF_depthVars(\E of \in {"depth", "deal"} : Acknowledge(of))

DepthSpec == DepthInit /\ [][DepthNext]_depthVars /\ DepthFairness

-----------------------------------------------------------------------------
(* Properties *)

(***************************************************************************)
(* The stream keeps the promise of BookFeed: whatever is lost, merged, late*)
(* or bridged, a book on display is the exchange's book at its version, and*)
(* it is replaced by later ones only.                                      *)
(***************************************************************************)
ImplementsFeed == Feed!FeedSpec

(* While a gap is open or the stream is down, no book is on display. *)
NothingShownInGap == stage \in {"snapshot", "deals", "bridge", "connect"} => shown = NoBook

(* A trade is emitted once on a connection, though both REST and the socket carry it: *)
(* it does not come again before SeenLimit others were emitted after it.              *)
TradesOnce == \A i, j \in DOMAIN tape : i < j /\ tape[i] = tape[j] => j - i > SeenLimit

(* What is emitted may be shown: no book is on display in a gap, and a trade that REST *)
(* and the socket both carry is emitted once.                                         *)
DisplayIsHonest == DepthTypeOK /\ NothingShownInGap /\ TradesOnce

(***************************************************************************)
(* A book that is quiet, and a stream whose trades or lost frames never    *)
(* cease to be handled, still ends up on display once the connection stays *)
(* up: the snapshot is published when no update bridges it.                *)
(***************************************************************************)
BookAppears ==
  <>[](stage # "connect") => <>[](shown # NoBook \/ stage = "stopped")
===============================================================================
