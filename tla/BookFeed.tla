------------------------------- MODULE BookFeed -------------------------------
(***************************************************************************)
(* What the viewer of a selected instrument is promised about its order    *)
(* book: nothing is shown, or one book the exchange really had, and as long*)
(* as a book is shown it is only ever replaced by a later one.  This is the*)
(* specification MexcDepth is checked to implement.                        *)
(***************************************************************************)
EXTENDS Integers, Sequences, FiniteSetsExt

CONSTANTS
  Price,   \* the price levels of the book
  Size,    \* the sizes a level may have, 0 when there is none
  NoBook   \* a model value: the book is invalidated

VARIABLES
  moves, \* the exchange's history of the book, the update of version i at i
  view   \* the book a viewer sees, with its version, or NoBook

feedVars == <<moves, view>>

Update == [price: Price, size: Size]

(* An update sets the absolute size of one level; size 0 removes the level. *)
BookAt(history, version) ==
  [p \in Price |->
     LET touching == {k \in 1..version : history[k].price = p}
     IN  IF touching = {} THEN 0 ELSE history[Max(touching)].size]

FeedInit ==
  /\ moves = <<>>
  /\ view = NoBook

Move(update) ==
  /\ BookAt(moves, Len(moves))[update.price] # update.size
  /\ moves' = Append(moves, update)
  /\ UNCHANGED view

Show(version) ==
  /\ view # NoBook => version > view.version
  /\ view' = [version |-> version, book |-> BookAt(moves, version)]
  /\ UNCHANGED moves

Hide == view' = NoBook /\ UNCHANGED moves

FeedNext ==
  \/ \E update \in Update : Move(update)
  \/ \E version \in 0..Len(moves) : Show(version)
  \/ Hide

FeedSpec == FeedInit /\ [][FeedNext]_feedVars
===============================================================================
