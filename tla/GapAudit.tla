-------------------------------- MODULE GapAudit --------------------------------
(***************************************************************************)
(* The audit of the candle history (candle_gap_audit.py): an operator reads *)
(* one snapshot of catalog and candles for a fixed scope and writes a      *)
(* ledger of what is missing, carrying over what an earlier ledger of the  *)
(* same scope had found; and the comparison of old ledgers with a new one  *)
(* (candle_gap_reconciliation.py).  Time is in half minutes, the scope is  *)
(* one instrument's minutes 0..ScopeLength-1: instruments are audited alone.   *)
(***************************************************************************)
EXTENDS Integers, Sequences, SequencesExt, FiniteSets, FiniteSetsExt

CONSTANTS
  ScopeLength,  \* length of the scope
  VersionIds,          \* version ids
  Hashes,       \* definition hashes
  Catalogs,     \* the catalogs the database may hold
  MaxGaps,      \* MAX_GAPS
  MaxLedgers,   \* bound: ledgers written
  MaxCatalogs,  \* bound: catalogs that replace the first one
  NoLedger      \* a model value: --previous not given

ScopeMinute == {2 * i : i \in 0..ScopeLength - 1}
Until == 2 * ScopeLength
Forever == Until + 1   \* valid_to of a version that is still open

ContractRange == [id : VersionIds, hash : Hashes, from : 0..Until, to : 1..Forever]

(* A version has one range; ranges of several may leave gaps and overlap. *)
ASSUME GapAssumption ==
  /\ {ScopeLength, MaxGaps, MaxLedgers} \subseteq Nat \ {0} /\ MaxCatalogs \in Nat
  /\ \A c \in Catalogs :
       /\ c \subseteq ContractRange /\ IsFiniteSet(c)
       /\ \A r \in c : r.from < r.to
       /\ \A r, s \in c : r.id = s.id => r = s

CandleKey == [id : VersionIds, hash : Hashes, bucket : ScopeMinute]
OpenBoundary == [bucket : ScopeMinute, contracts : SUBSET ContractRange]
UnavailableRange == [since : ScopeMinute, until : {b + 2 : b \in ScopeMinute}]
TrackedGap ==
  [key : CandleKey, status : {"missing", "recovered", "definition_changed",
                              "version_unavailable", "boundary_unresolved"}]
HistoryAudit ==
  [ranges : SUBSET ContractRange, expected : Nat, present : Nat, missing : SUBSET CandleKey,
   boundaries : SUBSET OpenBoundary, unavailable : SUBSET UnavailableRange,
   tracked : SUBSET TrackedGap]

ASSUME NoLedgerIsNone == NoLedger \notin HistoryAudit

VARIABLES
  catalog,   \* venue_instrument_versions of the instrument
  candles,   \* candle_1m: pairs of version and bucket
  ledgers,   \* the files written
  replaced   \* bound: catalogs that were replaced

gapVars == <<catalog, candles, ledgers, replaced>>

Overlaps(contract, bucket) == contract.from < bucket + 2 /\ bucket < contract.to
Covers(contract, bucket) == contract.from <= bucket /\ bucket + 2 <= contract.to

GapInit ==
  /\ catalog \in Catalogs
  /\ candles = {}
  /\ ledgers = <<>>
  /\ replaced = 0

-----------------------------------------------------------------------------
(* The market service and its maintenance, between two audits *)

(* A late insertion: recovery, or the collection. *)
CandleStored(contract, bucket) ==
  /\ contract \in catalog /\ Covers(contract, bucket)
  /\ <<contract.id, bucket>> \notin candles
  /\ candles' = candles \cup {<<contract.id, bucket>>}
  /\ UNCHANGED <<catalog, ledgers, replaced>>

(* Retention, or a restored backup. *)
CandlesDeleted(bucket) ==
  /\ \E c \in candles : c[2] = bucket
  /\ candles' = {c \in candles : c[2] # bucket}
  /\ UNCHANGED <<catalog, ledgers, replaced>>

(* The catalog of a restored or corrected database. *)
CatalogReplaced(other) ==
  /\ replaced < MaxCatalogs /\ ledgers # <<>> /\ other # catalog
  /\ replaced' = replaced + 1
  /\ catalog' = other
  /\ candles' = {c \in candles : \E r \in other : r.id = c[1]}
  /\ UNCHANGED ledgers

-----------------------------------------------------------------------------
(* build_audit *)

(* The contracts the transaction reads: those of the scope, and those earlier gaps name. *)
Ranges(previous) ==
  {r \in catalog : \/ r.from < Until /\ r.to > 0
                   \/ previous # NoLedger /\ \E k \in previous.tracked : k.key.id = r.id}

OverlapsAt(ranges, bucket) == {r \in ranges : Overlaps(r, bucket)}

(* One contract overlaps the minute, and covers all of it. *)
Expected(ranges, bucket) ==
  \E r \in ranges : OverlapsAt(ranges, bucket) = {r} /\ Covers(r, bucket)

ContractAt(ranges, bucket) == CHOOSE r \in ranges : Overlaps(r, bucket)

Present(ranges, bucket) == <<ContractAt(ranges, bucket).id, bucket>> \in candles

MissingKeys(ranges) ==
  {LET r == ContractAt(ranges, b) IN [id |-> r.id, hash |-> r.hash, bucket |-> b] :
     b \in {c \in ScopeMinute : Expected(ranges, c) /\ ~Present(ranges, c)}}

Boundaries(ranges) ==
  {[bucket |-> b, contracts |-> OverlapsAt(ranges, b)] :
     b \in {c \in ScopeMinute : OverlapsAt(ranges, c) # {} /\ ~Expected(ranges, c)}}

(* The longest intervals no contract overlaps. *)
UnavailableIn(ranges) ==
  LET bare(b) == b \in ScopeMinute /\ OverlapsAt(ranges, b) = {} IN
  {i \in UnavailableRange :
     /\ \A b \in ScopeMinute : i.since <= b /\ b < i.until => bare(b)
     /\ i.since < i.until /\ ~bare(i.since - 2) /\ ~bare(i.until)}

(* Mutant: only the gaps that were missing last time are looked at again. *)
TrackedKeysMutant(missing, previous) ==
  missing \cup IF previous = NoLedger THEN {} ELSE previous.missing

TrackedKeys(missing, previous) ==
  missing \cup IF previous = NoLedger THEN {}
               ELSE previous.missing \cup {k.key : k \in previous.tracked}

(* A new catalog must never erase an earlier boundary: the contracts of both are kept. *)
MergedBoundaries(found, previous) ==
  IF previous = NoLedger THEN found ELSE
  LET all == found \cup previous.boundaries IN
  {[bucket |-> b, contracts |-> UNION {x.contracts : x \in {y \in all : y.bucket = b}}] :
     b \in {x.bucket : x \in all}}

Status(ranges, key) ==
  LET named == {r \in ranges : r.id = key.id}
      r == CHOOSE x \in named : TRUE
  IN  IF named = {} THEN "version_unavailable"
      ELSE IF r.hash # key.hash THEN "definition_changed"
      ELSE IF ~Covers(r, key.bucket) THEN "boundary_unresolved"
      ELSE IF <<key.id, key.bucket>> \in candles THEN "recovered" ELSE "missing"

Report(previous) ==
  LET ranges == Ranges(previous)
      missing == MissingKeys(ranges)
      expected == {b \in ScopeMinute : Expected(ranges, b)}
  IN  [ranges      |-> ranges,
       expected    |-> Cardinality(expected),
       present     |-> Cardinality({b \in expected : Present(ranges, b)}),
       missing     |-> missing,
       boundaries  |-> MergedBoundaries(Boundaries(ranges), previous),
       unavailable |-> UnavailableIn(ranges) \cup
                         (IF previous = NoLedger THEN {} ELSE previous.unavailable),
       tracked     |-> {[key |-> k, status |-> Status(ranges, k)] :
                          k \in TrackedKeys(missing, previous)}]

Size(report) ==
  Cardinality(report.tracked) + Cardinality(report.boundaries) + Cardinality(report.unavailable)

(***************************************************************************)
(* HistoryAudit.consistent: what the schema asks of a ledger, a second     *)
(* time when it is read back.  Without an open boundary or interval the    *)
(* contracts must follow one another, minute by minute, over the scope.    *)
(***************************************************************************)
ByStart(contracts) ==
  CHOOSE s \in [1..Cardinality(contracts) -> contracts] :
    \A i, j \in DOMAIN s : i < j => s[i] # s[j] /\ s[i].from <= s[j].from

SpansScope(ranges) ==
  LET contracts == {r \in ranges : r.from < Until}
      order == ByStart(contracts)
      end(i) == IF i = 0 THEN 0 ELSE Min({Until, order[i].to})
  IN  /\ \A i \in DOMAIN order : order[i].from = end(i - 1) /\ end(i) % 2 = 0
      /\ end(Cardinality(contracts)) = Until

Consistent(report) ==
  LET matches(k) == \E r \in report.ranges :
        r.id = k.id /\ r.hash = k.hash /\ Covers(r, k.bucket)
      settled == report.boundaries = {} /\ report.unavailable = {}
  IN  /\ report.present <= report.expected /\ report.expected <= ScopeLength
      /\ report.expected - report.present = Cardinality(report.missing)
      /\ settled => report.expected = ScopeLength /\ SpansScope(report.ranges)
      /\ \A k \in report.missing : [key |-> k, status |-> "missing"] \in report.tracked
      /\ \A j, k \in report.tracked : j.key = k.key => j = k
      /\ \A k \in report.tracked : k.status \in {"missing", "recovered"} => matches(k.key)
      /\ Size(report) <= MaxGaps

(* The operator may name any earlier ledger of the scope (the p-th), or none. *)
PreviousReport(p) == IF p = 0 THEN NoLedger ELSE ledgers[p].report

Audit(p) ==
  /\ Len(ledgers) < MaxLedgers
  /\ LET report == Report(PreviousReport(p)) IN
       /\ Size(report) <= MaxGaps
       /\ Consistent(report)
       /\ ledgers' = Append(ledgers, [report |-> report, previous |-> p])
  /\ UNCHANGED <<catalog, candles, replaced>>

GapNext ==
  \/ \E r \in catalog, b \in ScopeMinute : CandleStored(r, b)
  \/ \E b \in ScopeMinute : CandlesDeleted(b)
  \/ \E other \in Catalogs : CatalogReplaced(other)
  \/ \E p \in 0..Len(ledgers) : Audit(p)

GapSpec == GapInit /\ [][GapNext]_gapVars

-----------------------------------------------------------------------------
(* reconcile_files: an old ledger against a new one *)

Unresolved(report) == {k.key : k \in {t \in report.tracked : t.status # "recovered"}}

InBaseline(key, entry) == entry = key

CurrentStatus(key, baseline) ==
  LET entries == {t \in baseline.tracked : InBaseline(key, t.key)} IN
  IF entries = {} THEN "none" ELSE (CHOOSE t \in entries : TRUE).status

(* Never recovered: the old database is not known to be the new one. *)
Comparison(key, baseline) ==
  LET current == CurrentStatus(key, baseline)
      differs == \E r \in baseline.ranges : r.id = key.id /\ r.hash # key.hash
  IN  IF current = "missing" THEN "still_missing"
      ELSE IF current = "boundary_unresolved" THEN "boundary_unresolved"
      ELSE IF current = "definition_changed" \/ differs THEN "identity_changed"
      ELSE IF current = "recovered" THEN "unknown"
      ELSE "missing_from_new_baseline"

-----------------------------------------------------------------------------
(* Properties *)

(***************************************************************************)
(* The schema's second formulation of coverage never refuses what the      *)
(* audit's loop found, with whatever earlier ledger: an audit within its   *)
(* budgets is never lost to the check of its own result.                   *)
(***************************************************************************)
LedgerIsAccepted ==
  \A p \in 0..Len(ledgers) :
    LET report == Report(PreviousReport(p)) IN Size(report) <= MaxGaps => Consistent(report)

CompleteReport(report) ==
  /\ report.missing = {} /\ report.boundaries = {} /\ report.unavailable = {}
  /\ \A k \in report.tracked : k.status = "recovered"

(* The ledgers p was made from, directly or through others, and p itself: the least set *)
(* with p that has the previous ledger of each of its own.                               *)
Chain(p) ==
  {i \in DOMAIN ledgers :
     \A S \in SUBSET (0..Len(ledgers)) :
       p \in S /\ (\A j \in S \ {0} : ledgers[j].previous \in S) => i \in S}

(***************************************************************************)
(* A ledger is complete (the tool exits with 0) only if every minute of    *)
(* the scope has one contract and its candle at that moment, and nothing   *)
(* any ledger of its chain had found was forgotten: no catalog erases an   *)
(* open boundary or interval, and each missing candle is there now.        *)
(***************************************************************************)
Whole ==
  \A b \in ScopeMinute : \E r \in catalog :
    OverlapsAt(catalog, b) = {r} /\ Covers(r, b) /\ <<r.id, b>> \in candles

NothingOpen(p) ==
  \A i \in Chain(p) :
    /\ ledgers[i].report.boundaries = {} /\ ledgers[i].report.unavailable = {}
    /\ \A k \in ledgers[i].report.missing :
         <<k.id, k.bucket>> \in candles /\ \E r \in catalog : r.id = k.id /\ r.hash = k.hash

CompleteIsTrue ==
  [][\A p \in 0..Len(ledgers) :
       Len(ledgers') > Len(ledgers) /\ Last(ledgers').previous = p
         /\ CompleteReport(Last(ledgers').report) => Whole /\ NothingOpen(p)]_gapVars

(***************************************************************************)
(* The comparison judges an old gap by the exact contract it belonged to:  *)
(* it is still open only if the baseline has that contract, has changed    *)
(* its identity only if it has not, and a gap the baseline found itself is *)
(* never taken for one it no longer has.                                   *)
(***************************************************************************)
ComparedByContract ==
  \A i \in DOMAIN ledgers : \A b \in i..Len(ledgers) :
    LET baseline == ledgers[b].report IN
    \A k \in Unresolved(ledgers[i].report) :
      LET verdict == Comparison(k, baseline)
          same == \E r \in baseline.ranges : r.id = k.id /\ r.hash = k.hash
      IN  /\ verdict \in {"still_missing", "boundary_unresolved"} => same
          /\ verdict = "identity_changed" => ~same
          /\ k \in baseline.missing => verdict = "still_missing"
===============================================================================
