------------------------------ MODULE MexcBudget ------------------------------
(***************************************************************************)
(* The request budget that the Python collector and the Web process share  *)
(* for the MEXC venue (mexc_budget.py and lib/server/mexc-budget.ts): one  *)
(* SQLite file, in which every HTTP attempt is admitted by a transaction   *)
(* (BEGIN IMMEDIATE, so one at a time, and all or nothing).                *)
(*                                                                         *)
(* A Python caller reads the wall clock inside the transaction; a Web      *)
(* caller reads it before it waits for the database lock, so its reading   *)
(* may be older than the last one recorded.  The wall clock itself may     *)
(* jump back.  An acquire loop retries the transaction until its deadline; *)
(* it keeps nothing between two tries, so each try is one step here.       *)
(***************************************************************************)
EXTENDS Integers, FiniteSets, FiniteSetsExt

CONSTANTS
  Caller,       \* processes that ask for admission
  EarlyReader,  \* those that read the clock before the transaction: Web
  Lane,         \* funding, foreground, recovery
  Limit,        \* LANE_LIMITS
  Total,        \* 8, the attempts of all lanes in a window
  Window,       \* WINDOW_MS
  NoReading,    \* a caller without a pending clock reading
  Pause,        \* bound: the cool-downs a 429 asks for
  MaxClock,     \* bound: the latest value of the wall clock
  MaxTickets    \* bound: attempts admitted in one behaviour

ASSUME BudgetAssumption ==
  /\ EarlyReader \subseteq Caller
  /\ Limit \in [Lane -> Nat \ {0}]
  /\ Total \in Nat \ {0}
  /\ Window \in Nat \ {0}
  /\ Pause \subseteq Nat
  /\ NoReading \notin Nat

VARIABLES
  clock,          \* the wall clock
  reading,        \* what each early reader has read and not yet used
  lastClock,      \* mexc_budget_meta.last_clock_ms
  cooldownUntil,  \* mexc_budget_meta.cooldown_until_ms
  rows,           \* mexc_budget_attempts
  ticket,         \* the next attempt's row id
  admitted,       \* history: every attempt ever admitted
  cooldowns       \* history: the end of every cool-down ever recorded

vars == <<clock, reading, lastClock, cooldownUntil, rows, ticket, admitted, cooldowns>>

Attempt == [ticket: Nat, at: Nat, lane: Lane]

TypeOK ==
  /\ clock \in Nat
  /\ reading \in [Caller -> Nat \cup {NoReading}]
  /\ lastClock \in Nat
  /\ cooldownUntil \in Nat
  /\ rows \subseteq Attempt /\ IsFiniteSet(rows)
  /\ ticket \in Nat
  /\ admitted \subseteq Attempt /\ IsFiniteSet(admitted)
  /\ cooldowns \subseteq Nat

Init ==
  /\ clock = 0
  /\ reading = [p \in Caller |-> NoReading]
  /\ lastClock = 0
  /\ cooldownUntil = 0
  /\ rows = {}
  /\ ticket = 0
  /\ admitted = {}
  /\ cooldowns = {}

-----------------------------------------------------------------------------
(* The delay of an attempt *)

OfLane(attempts, lane) == {a \in attempts : a.lane = lane}

(* Mutant: attempts leave the window a tick too early. *)
RecentMutant(now) == {a \in rows : a.at > now - Window + 1}

(* DELETE ... WHERE at_ms <= now - WINDOW_MS leaves these. *)
Recent(now) == {a \in rows : a.at > now - Window}

(* rows[-n]: when the n-th newest attempt was made. *)
NthNewest(attempts, n) ==
  Max({a.at : a \in {b \in attempts : Cardinality({c \in attempts : c.at >= b.at}) >= n}})

(* Mutant: the wait is rounded up by a tick. *)
WaitForMutant(attempts, n, now) ==
  IF Cardinality(attempts) >= n THEN {NthNewest(attempts, n) + Window - now + 1} ELSE {}

(* A full window opens again when the n-th newest attempt has left it. *)
WaitFor(attempts, n, now) ==
  IF Cardinality(attempts) >= n THEN {NthNewest(attempts, n) + Window - now} ELSE {}

Delay(lane, now) ==
  Max({0, cooldownUntil - now}
        \cup WaitFor(Recent(now), Total, now)
        \cup WaitFor(OfLane(Recent(now), lane), Limit[lane], now))

-----------------------------------------------------------------------------
(* Date.now() is evaluated, then the caller waits for the database lock. *)
Read(p) ==
  /\ p \in EarlyReader
  /\ reading[p] = NoReading
  /\ reading' = [reading EXCEPT ![p] = clock]
  /\ UNCHANGED <<clock, lastClock, cooldownUntil, rows, ticket, admitted, cooldowns>>

HasReading(p) == p \in EarlyReader => reading[p] # NoReading

(* The clock a transaction of p uses. *)
Now(p) == IF p \in EarlyReader THEN reading[p] ELSE clock

Used(p) == reading' = [reading EXCEPT ![p] = NoReading]

(* A clock behind the recorded one: nothing is read or written, try again. *)
Unavailable(p) ==
  /\ HasReading(p)
  /\ Now(p) < lastClock
  /\ Used(p)
  /\ UNCHANGED <<clock, lastClock, cooldownUntil, rows, ticket, admitted, cooldowns>>

(* _transaction(lane): admit the attempt if it need not wait. *)
Reserve(p, lane) ==
  /\ ticket < MaxTickets
  /\ HasReading(p)
  /\ Now(p) >= lastClock
  /\ lastClock' = Now(p)
  /\ IF Delay(lane, Now(p)) = 0
     THEN LET a == [ticket |-> ticket, at |-> Now(p), lane |-> lane]
          IN  /\ rows' = Recent(Now(p)) \cup {a}
              /\ admitted' = admitted \cup {a}
              /\ ticket' = ticket + 1
     ELSE /\ rows' = Recent(Now(p))
          /\ UNCHANGED <<admitted, ticket>>
  /\ Used(p)
  /\ UNCHANGED <<clock, cooldownUntil, cooldowns>>

(* Mutant: a later cool-down replaces a longer one. *)
CooldownMutant(p, pause) ==
  /\ HasReading(p)
  /\ Now(p) >= lastClock
  /\ lastClock' = Now(p)
  /\ cooldownUntil' = Now(p) + pause
  /\ cooldowns' = cooldowns \cup {Now(p) + pause}
  /\ Used(p)
  /\ UNCHANGED <<clock, rows, ticket, admitted>>

(* _transaction(None, cooldown_ms): a 429 holds every lane of every process. *)
Cooldown(p, pause) ==
  /\ HasReading(p)
  /\ Now(p) >= lastClock
  /\ lastClock' = Now(p)
  /\ cooldownUntil' = Max({cooldownUntil, Now(p) + pause})
  /\ cooldowns' = cooldowns \cup {Now(p) + pause}
  /\ Used(p)
  /\ UNCHANGED <<clock, rows, ticket, admitted>>

(* The wall clock advances, or is set back. *)
ClockChanges ==
  /\ clock' \in 0..MaxClock
  /\ clock' <= clock + 1
  /\ UNCHANGED <<reading, lastClock, cooldownUntil, rows, ticket, admitted, cooldowns>>

Next ==
  \/ \E p \in Caller : Read(p) \/ Unavailable(p)
  \/ \E p \in Caller, lane \in Lane : Reserve(p, lane)
  \/ \E p \in Caller, pause \in Pause : Cooldown(p, pause)
  \/ ClockChanges

Spec == Init /\ [][Next]_vars

-----------------------------------------------------------------------------
(* Properties *)

InWindow(attempts, end) == {a \in attempts : end - Window < a.at /\ a.at <= end}

(* In no window of Window milliseconds, wherever it ends, were more than      *)
(* Total attempts admitted, or more than a lane's limit in that lane, for all *)
(* processes together (docs/current/architecture.md:164): not when the table  *)
(* was pruned, a clock reading was stale, or the clock jumped back.           *)
RollingWindow ==
  \A end \in {a.at : a \in admitted} :
    /\ Cardinality(InWindow(admitted, end)) <= Total
    /\ \A lane \in Lane : Cardinality(OfLane(InWindow(admitted, end), lane)) <= Limit[lane]

(* No attempt of any process is admitted before every cool-down that was ever *)
(* recorded has ended: a shorter one that comes later takes nothing back.     *)
CooldownHolds ==
  [][\A a \in admitted' \ admitted, end \in cooldowns : a.at >= end]_vars

(* The delay is over when the caller would be admitted, and no sooner.        *)
DelayIsExact ==
  \A lane \in Lane, now \in lastClock..MaxClock :
    LET delay == Delay(lane, now) IN
      /\ Delay(lane, now + delay) = 0
      /\ \A t \in now..(now + delay - 1) : Delay(lane, t) > 0

(* After every transaction, the delay a caller would be told is exact: with   *)
(* no other transaction in between it is admitted when the delay is over, and *)
(* at no earlier time.                                                        *)
DelayHolds ==
  [][lastClock' # lastClock \/ cooldownUntil' # cooldownUntil \/ rows' # rows
       => TypeOK' /\ DelayIsExact']_vars
=============================================================================
