------------------------------ MODULE SnapshotAudit ------------------------------
(***************************************************************************)
(* The comparison of two saved snapshots of one candle series              *)
(* (candle_audit.py): each file is read record by record, then the minutes *)
(* of the window are compared, values and returns.  A price stands for the *)
(* four price fields; tolerances are zero.                                 *)
(***************************************************************************)
EXTENDS Integers, Sequences

CONSTANTS
  WindowCount,    \* minutes of the window
  ReturnMinutes,  \* --return-minutes
  Values,         \* prices and volumes
  BadRecord,      \* a model value: another version, not final, not available yet, malformed
  NoValue         \* a model value: no record, or a record without volume

ASSUME SnapshotAssumption ==
  WindowCount \in Nat /\ ReturnMinutes \in 1..WindowCount - 1 /\ Values \subseteq Nat \ {0}

Expected1m == 1..WindowCount
Side == {"left", "right"}
Candle == [price : Values, volume : Values \cup {NoValue}]
Unusable == {BadRecord}

ASSUME NoRecordIsNone == NoValue \notin Candle \cup Values /\ BadRecord \notin Candle

Unreadable == 0                 \* the bucket of a record without a usable time

VARIABLES
  compareVolume,  \* --compare-volume-base
  fileRead,       \* the side being read, or "none"
  usableRows,     \* Snapshot.rows: usable candles
  minutesSeen,    \* Snapshot.present: minutes seen
  findings,       \* some record was refused
  given,          \* history: the record of each minute, or BadRecord twice for several
  outcome

snapshotVars == <<compareVolume, fileRead, usableRows, minutesSeen, findings, given, outcome>>

SnapshotInit ==
  /\ compareVolume \in BOOLEAN
  /\ fileRead = "left"
  /\ usableRows = [s \in Side |-> [m \in Expected1m |-> NoValue]]
  /\ minutesSeen = [s \in Side |-> {}]
  /\ findings = [s \in Side |-> FALSE]
  /\ given = [s \in Side |-> [m \in Expected1m \cup {Unreadable} |-> <<>>]]
  /\ outcome = "none"

(* A second record of a minute makes both unusable, and so does every further one. *)
KeptRow(side, bucket, record) ==
  IF record \in Unusable \/ bucket \in minutesSeen[side] THEN NoValue ELSE record

ReadRecord(bucket, record) ==
  /\ fileRead \in Side
  /\ given' = [given EXCEPT ![fileRead][bucket] =
                 IF given[fileRead][bucket] = <<>> THEN <<record>> ELSE <<BadRecord, BadRecord>>]
  /\ usableRows' = IF bucket = Unreadable THEN usableRows
             ELSE [usableRows EXCEPT ![fileRead][bucket] = KeptRow(fileRead, bucket, record)]
  /\ minutesSeen' = [minutesSeen EXCEPT ![fileRead] = @ \cup ({bucket} \ {Unreadable})]
  /\ findings' = [findings EXCEPT ![fileRead] =
                    \/ @ \/ bucket = Unreadable
                    \/ record \in Unusable \/ bucket \in minutesSeen[fileRead]]
  /\ UNCHANGED <<compareVolume, fileRead, outcome>>

NextFile ==
  /\ fileRead \in Side
  /\ fileRead' = IF fileRead = "left" THEN "right" ELSE "none"
  /\ UNCHANGED <<compareVolume, usableRows, minutesSeen, findings, given, outcome>>

Usable(side) == {m \in Expected1m : usableRows[side][m] # NoValue}
Common == Usable("left") \cap Usable("right")

(* The minutes that have a return on both sides: both ends are usable. *)
ReturnPairs == {m \in Common : m - ReturnMinutes \in Common}

ValueDiffers(m) ==
  LET l == usableRows["left"][m] r == usableRows["right"][m] IN
  \/ l.price # r.price
  \/ compareVolume /\ NoValue \notin {l.volume, r.volume} /\ l.volume # r.volume

ReturnDiffers(m) ==
  LET price(s, i) == usableRows[s][i].price IN
  price("left", m) * price("right", m - ReturnMinutes)
    # price("right", m) * price("left", m - ReturnMinutes)

(* Mutant: only the rows are looked at, not the records that could not become one. *)
IncompleteMutant ==
  \/ Common # Expected1m
  \/ compareVolume /\ \E m \in Common, s \in Side : usableRows[s][m].volume = NoValue

Incomplete ==
  \/ Common # Expected1m
  \/ compareVolume /\ \E m \in Common, s \in Side : usableRows[s][m].volume = NoValue
  \/ \E s \in Side : findings[s]

AuditSnapshots ==
  /\ fileRead = "none" /\ outcome = "none"
  /\ outcome' =
       IF Common = {} \/ ReturnPairs = {} THEN "unverified"
       ELSE IF (\E m \in Common : ValueDiffers(m)) \/ (\E m \in ReturnPairs : ReturnDiffers(m))
       THEN "differences"
       ELSE IF Incomplete THEN "incomplete" ELSE "match"
  /\ UNCHANGED <<compareVolume, fileRead, usableRows, minutesSeen, findings, given>>

SnapshotNext ==
  \/ \E m \in Expected1m, c \in Candle \cup Unusable : ReadRecord(m, c)
  \/ \E c \in Unusable : ReadRecord(Unreadable, c)
  \/ NextFile
  \/ AuditSnapshots

SnapshotSpec == SnapshotInit /\ [][SnapshotNext]_snapshotVars

-----------------------------------------------------------------------------
(* Properties *)

(***************************************************************************)
(* The two files match exactly when both hold one usable record of every   *)
(* minute and no other, in whatever order, and the records agree: a file   *)
(* that repeats, lacks or garbles a minute is never certified, whichever   *)
(* of the two it is.                                                       *)
(***************************************************************************)
FilesAgree ==
  /\ \A s \in Side : given[s][Unreadable] = <<>> /\ \A m \in Expected1m : Len(given[s][m]) = 1
  /\ \A m \in Expected1m :
       LET l == given["left"][m][1] r == given["right"][m][1] IN
       /\ BadRecord \notin {l, r}
       /\ l.price = r.price
       /\ compareVolume => l.volume = r.volume /\ l.volume # NoValue

MatchIsExact == outcome # "none" => (outcome = "match" <=> FilesAgree)
===============================================================================
