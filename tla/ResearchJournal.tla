---------------------------- MODULE ResearchJournal -----------------------------
(* research/journal.py and snapshot.py: a reader appends what it saw of the        *)
(* database to a journal, payload first and receipt after, each an atomic bundle;  *)
(* an export is verified again from its bytes.  A payload is named by its id and   *)
(* stands for its hash; the wall clock may be set back between two readings of it. *)
EXTENDS Integers, FiniteSets, Sequences, SequencesExt

CONSTANTS
  Writers,       \* processes that may open the journal
  Uuids,           \* the uuid4 names, taken in turn
  MaxGap,        \* max_gap_seconds, in ticks
  ClockError,    \* clock_error_seconds, in ticks
  MaxTime,       \* bound: the wall clock
  MaxSteps,      \* bound: changes of the wall clock
  NotYet

JournalReceipt ==
  [id : Uuids, sequence : Nat, kind : {"observation", "gap"}, previous : Uuids \cup {NotYet},
   started : Nat, completed : Nat, published : Nat, availableAt : Nat,
   reasons : SUBSET {"clock", "gap", "failed"}]

ASSUME JournalAssumption == MaxGap \in Nat /\ ClockError \in Nat /\ MaxTime \in Nat

VARIABLES wall, steps, writers, payloads, receipts, exported

journalVars == <<wall, steps, writers, payloads, receipts, exported>>

ClosedJournal == [pc |-> "closed", chain |-> <<>>, started |-> 0, completed |-> 0, id |-> NotYet]

JournalInit ==
  /\ wall = 0
  /\ steps = 0
  /\ writers = [w \in Writers |-> ClosedJournal]
  /\ payloads = {}
  /\ receipts = {}
  /\ exported = NotYet

JournalLocked == \E w \in Writers : writers[w].pc # "closed"

LaterOf(a, b) == IF a >= b THEN a ELSE b

(* _receipt: the doubts are judged against the chain this writer holds in memory *)
Doubts(chain, started, completed, published) ==
  (IF completed < started \/ published < completed
     \/ (chain # <<>> /\ (started < Last(chain).started \/ published < Last(chain).published))
   THEN {"clock"} ELSE {})
  \cup (IF chain # <<>> /\ started - Last(chain).started > MaxGap THEN {"gap"} ELSE {})

ReceiptOf(chain, id, kind, started, completed, published) ==
  [id |-> id, sequence |-> Len(chain) + 1, kind |-> kind,
   previous |-> IF chain = <<>> THEN NotYet ELSE Last(chain).id,
   started |-> started, completed |-> completed, published |-> published,
   availableAt |-> LaterOf(completed, published) + ClockError,
   reasons |-> Doubts(chain, started, completed, published)
                 \cup (IF kind = "gap" THEN {"failed"} ELSE {})]

InOrder(rows) ==
  [i \in 1..Cardinality(rows) |->
     CHOOSE r \in rows : Cardinality({q \in rows : q.sequence < r.sequence}) = i - 1]

ChainIsWhole(chain) ==
  \A i \in 1..Len(chain) :
    /\ chain[i].sequence = i
    /\ chain[i].previous = IF i = 1 THEN NotYet ELSE chain[i - 1].id

(* _load: anything missing or left over makes the whole journal unusable *)
JournalLoads ==
  /\ ChainIsWhole(InOrder(receipts))
  /\ payloads = {r.id : r \in {x \in receipts : x.kind = "observation"}}

OpenJournal(w) ==
  /\ writers[w].pc = "closed" /\ ~JournalLocked
  /\ JournalLoads
  /\ writers' = [writers EXCEPT ![w] =
       [ClosedJournal EXCEPT !.pc = "open", !.started = wall, !.chain = InOrder(receipts)]]
  /\ UNCHANGED <<wall, steps, payloads, receipts, exported>>

FreshIds == Uuids \ (payloads \cup {r.id : r \in receipts})

FreshId == CHOOSE id \in FreshIds : TRUE

AppendReceipt(w, receipt) ==
  /\ receipts' = receipts \cup {receipt}
  /\ writers' = [writers EXCEPT ![w] =
       [ClosedJournal EXCEPT !.pc = "open", !.started = writers[w].started,
                      !.chain = Append(writers[w].chain, receipt)]]

BeginRead(w) ==
  /\ writers[w].pc = "open"
  /\ writers' = [writers EXCEPT ![w].pc = "reading", ![w].started = wall]
  /\ UNCHANGED <<wall, steps, payloads, receipts, exported>>

(* read_observation: one repeatable-read transaction, its clock read after commit *)
EndRead(w) ==
  /\ writers[w].pc = "reading"
  /\ writers' = [writers EXCEPT ![w].pc = "read", ![w].completed = wall]
  /\ UNCHANGED <<wall, steps, payloads, receipts, exported>>

PublishPayload(w) ==
  /\ writers[w].pc = "read"
  /\ FreshIds # {}
  /\ payloads' = payloads \cup {FreshId}
  /\ writers' = [writers EXCEPT ![w].pc = "published", ![w].id = FreshId]
  /\ UNCHANGED <<wall, steps, receipts, exported>>

(* the clock is read after the payload was published and read back *)
PublishReceipt(w) ==
  /\ writers[w].pc = "published"
  /\ AppendReceipt(w, ReceiptOf(writers[w].chain, writers[w].id, "observation",
                        writers[w].started, writers[w].completed, wall))
  /\ UNCHANGED <<wall, steps, payloads, exported>>

(* record_failure: an error or an interrupt, wherever it meets the recording *)
RecordFailure(w) ==
  /\ writers[w].pc # "closed"
  /\ FreshIds # {}
  /\ receipts' = receipts \cup
       {ReceiptOf(writers[w].chain, FreshId, "gap", writers[w].started, wall, wall)}
  /\ writers' = [writers EXCEPT ![w] = ClosedJournal]
  /\ UNCHANGED <<wall, steps, payloads, exported>>

(* the end of the samples, or a kill at any point *)
CloseJournal(w) ==
  /\ writers[w].pc # "closed"
  /\ writers' = [writers EXCEPT ![w] = ClosedJournal]
  /\ UNCHANGED <<wall, steps, payloads, receipts, exported>>

(* verify_snapshot's own doubts about the i-th receipt of an exported chain *)
ReplayIssues(chain, i) ==
  chain[i].reasons
  \cup (IF \/ chain[i].completed < chain[i].started
           \/ chain[i].published < chain[i].completed
           \/ i > 1 /\ (\/ chain[i].started < chain[i - 1].started
                        \/ chain[i].availableAt < chain[i - 1].availableAt)
        THEN {"clock"} ELSE {})
  \cup (IF i > 1 /\ chain[i].started - chain[i - 1].started > MaxGap THEN {"gap"} ELSE {})

KnownAt(chain, cutoff) == {i \in 1..Len(chain) : chain[i].availableAt <= cutoff}

ReasonsAt(chain, cutoff) == UNION {ReplayIssues(chain, i) : i \in KnownAt(chain, cutoff)}

(* replay_valid: something was seen, in causal order, and no receipt is a failure *)
ReplayValid(chain, cutoff) ==
  /\ \E i \in KnownAt(chain, cutoff) : chain[i].kind = "observation"
  /\ {"clock", "gap"} \cap ReasonsAt(chain, cutoff) = {}
  /\ \A i \in KnownAt(chain, cutoff) : chain[i].kind # "gap"

(* export_snapshot opens the journal as a writer would, then writes its bytes *)
ExportSnapshot ==
  /\ ~JournalLocked /\ JournalLoads /\ receipts # {}
  /\ exported' = InOrder(receipts)
  /\ UNCHANGED <<wall, steps, writers, payloads, receipts>>

SetWallClock ==
  /\ steps < MaxSteps
  /\ \E t \in {wall - 1, wall + 1, wall + MaxGap + 1} : t \in 0..MaxTime /\ wall' = t
  /\ steps' = steps + 1
  /\ UNCHANGED <<writers, payloads, receipts, exported>>

JournalNext ==
  \/ \E w \in Writers :
       \/ OpenJournal(w) \/ BeginRead(w) \/ EndRead(w) \/ PublishPayload(w)
       \/ PublishReceipt(w) \/ RecordFailure(w) \/ CloseJournal(w)
  \/ ExportSnapshot
  \/ SetWallClock

(* However the writing broke off, the receipts on disk are one chain and every     *)
(* receipt of an observation has its payload.                                      *)
ReceiptsAreAChain ==
  /\ ChainIsWhole(InOrder(receipts))
  /\ \A r \in receipts : r.kind = "observation" => r.id \in payloads

(* What a valid replay knows at any cutoff is a beginning of the journal: no row   *)
(* is known while an earlier one is not, though the wall clock may have been set   *)
(* back while they were recorded.                                                  *)
KnowledgeGrows ==
  exported # NotYet => \A cutoff \in 0..MaxTime + ClockError :
    ReplayValid(exported, cutoff) =>
      KnownAt(exported, cutoff) = 1..Cardinality(KnownAt(exported, cutoff))

JournalHolds == ReceiptsAreAChain /\ KnowledgeGrows
==================================================================================
