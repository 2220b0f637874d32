------------------------------ MODULE FileStore ------------------------------
(***************************************************************************)
(* The file in which the Web server keeps its user's manual decisions      *)
(* (decision-repository.ts).  A request takes a lock file                  *)
(* (lock-file-guard.ts), reads the store, compares the revision the client *)
(* expects and replaces the file by a rename (atomic-json-store.ts).       *)
(* Requests run side by side in one process and interleave at every call   *)
(* into the file system.  The pins and views of user-workspace-repository  *)
(* are kept by the same guard and the same rename.                         *)
(*                                                                         *)
(* The content of the store is the sequence of the decisions it accepted;  *)
(* its length is the revision.  Time is what has passed: the age of the    *)
(* lock file and how long a request has waited, each counted up to the     *)
(* value at which it makes a difference.                                   *)
(***************************************************************************)
EXTENDS Naturals, Sequences, SequencesExt

CONSTANTS
  Request,   \* the requests that may be in progress together
  Change,    \* the decisions, by their identity
  None,
  Limit,     \* how many a store may hold
  Stale,     \* staleMs: the age at which a lock file is taken for abandoned
  Timeout    \* timeoutMs: how long a request waits for the lock

ASSUME FileStoreAssumption ==
  /\ None \notin Request \cup Change \cup [owner: Request, token: BOOLEAN, age: 0..Stale]
  /\ Limit \in Nat /\ Stale \in Nat \ {0} /\ Timeout \in Nat

VARIABLES
  pc,       \* where each request is
  asked,    \* its change, None for a read
  base,     \* the revision its client expects
  waited,   \* how long it has tried to get the lock
  next,     \* the content it is about to write
  lock,     \* the lock file: the request that created it, whether its token is written, its age
  store,    \* the file
  saved,    \* history: the changes a request has saved, each with the revision its client had seen
  left,     \* history: a lock file was left behind by a crash or a failed write
  raced     \* history: two requests were about to remove a stale lock file at the same time

vars == <<pc, asked, base, waited, next, lock, store, saved, left, raced>>

\* What readUnlocked accepts: no decision is there twice.
Contents == {s \in UNION {[1..n -> Change] : n \in 0..Limit} : IsInjective(s)}

Step == {"idle", "open", "token", "stat", "unlink stale", "read", "rename", "release", "unlink"}

LockFile == [owner: Request, token: BOOLEAN, age: 0..Stale]

TypeOK ==
  /\ pc \in [Request -> Step]
  /\ asked \in [Request -> Change \cup {None}]
  /\ base \in [Request -> 0..Limit]
  /\ waited \in [Request -> 0..Timeout]
  /\ next \in [Request -> Contents]
  /\ lock \in LockFile \cup {None}
  /\ store \in Contents
  /\ saved \subseteq [change: Change, base: 0..Limit]
  /\ left \in BOOLEAN /\ raced \in BOOLEAN

Init ==
  /\ pc = [r \in Request |-> "idle"]
  /\ asked = [r \in Request |-> None]
  /\ base = [r \in Request |-> 0]
  /\ waited = [r \in Request |-> 0]
  /\ next = [r \in Request |-> <<>>]
  /\ lock = None
  /\ store = <<>>
  /\ saved = {}
  /\ left = FALSE /\ raced = FALSE

Goto(r, step) == pc' = [pc EXCEPT ![r] = step]

\* Everything a request knows is gone when it has answered.
Answered(r) ==
  /\ Goto(r, "idle")
  /\ asked' = [asked EXCEPT ![r] = None]
  /\ base' = [base EXCEPT ![r] = 0]
  /\ waited' = [waited EXCEPT ![r] = 0]
  /\ next' = [next EXCEPT ![r] = <<>>]

----------------------------------------------------------------------------
(* The lock file *)

\* A client sends a change it may have sent before, with a revision it read at some time.
Begin(r) ==
  /\ pc[r] = "idle"
  /\ Goto(r, "open")
  /\ \E c \in Change \cup {None}, n \in 0..Len(store) :
       /\ asked' = [asked EXCEPT ![r] = c]
       /\ base' = [base EXCEPT ![r] = IF c = None THEN 0 ELSE n]
  /\ UNCHANGED <<waited, next, lock, store, saved, left, raced>>

\* Opens the lock file without asking that it is new.
OpenMutant(r) ==
  /\ pc[r] = "open"
  /\ lock' = [owner |-> r, token |-> FALSE, age |-> 0]
  /\ Goto(r, "token")
  /\ UNCHANGED <<asked, base, waited, next, store, saved, left, raced>>

\* open with "wx": only one request creates the file.
Open(r) ==
  /\ pc[r] = "open"
  /\ lock' = IF lock = None THEN [owner |-> r, token |-> FALSE, age |-> 0] ELSE lock
  /\ Goto(r, IF lock = None THEN "token" ELSE "stat")
  /\ UNCHANGED <<asked, base, waited, next, store, saved, left, raced>>

Mine(r) == lock # None /\ lock.owner = r

\* The token goes into the file this request created, which may no longer be the lock file.
WriteToken(r) ==
  /\ pc[r] = "token"
  /\ lock' = IF Mine(r) THEN [owner |-> r, token |-> TRUE, age |-> 0] ELSE lock
  /\ Goto(r, "read")
  /\ UNCHANGED <<asked, base, waited, next, store, saved, left, raced>>

\* The request fails and leaves its lock file.
WriteTokenFails(r) ==
  /\ pc[r] = "token"
  /\ left' = (left \/ Mine(r))
  /\ Answered(r)
  /\ UNCHANGED <<lock, store, saved, raced>>

\* removeIfStale looks at the age; then the request gives up or tries again.
Stat(r) ==
  /\ pc[r] = "stat"
  /\ \/ /\ lock = None
        /\ Goto(r, "open")
        /\ UNCHANGED <<asked, base, waited, next, raced>>
     \/ /\ lock # None /\ lock.age >= Stale
        /\ Goto(r, "unlink stale")
        /\ raced' = (raced \/ \E s \in Request : pc[s] = "unlink stale")
        /\ UNCHANGED <<asked, base, waited, next>>
     \/ /\ lock # None /\ lock.age < Stale /\ waited[r] < Timeout
        /\ Goto(r, "open")
        /\ UNCHANGED <<asked, base, waited, next, raced>>
     \/ /\ lock # None /\ lock.age < Stale /\ waited[r] >= Timeout
        /\ Answered(r)
        /\ UNCHANGED raced
  /\ UNCHANGED <<lock, store, saved, left>>

\* Leaves the file where it is.
UnlinkMutant(r) ==
  /\ pc[r] = "unlink stale"
  /\ Goto(r, "open")
  /\ UNCHANGED <<asked, base, waited, next, lock, store, saved, left, raced>>

\* Removes whatever has the name of the lock file by now.
UnlinkStale(r) ==
  /\ pc[r] = "unlink stale"
  /\ lock' = None
  /\ Goto(r, "open")
  /\ UNCHANGED <<asked, base, waited, next, store, saved, left, raced>>

\* The lock file is removed only if it holds the token of this request.
Release(r) ==
  /\ pc[r] = "release"
  /\ IF Mine(r) /\ lock.token
       THEN Goto(r, "unlink") /\ UNCHANGED <<asked, base, waited, next>>
       ELSE Answered(r)
  /\ UNCHANGED <<lock, store, saved, left, raced>>

Unlink(r) ==
  /\ pc[r] = "unlink"
  /\ lock' = None
  /\ Answered(r)
  /\ UNCHANGED <<store, saved, left, raced>>

----------------------------------------------------------------------------
(* The task under the lock *)

Known(r) == asked[r] \in ToSet(store)

\* A new change, based on the revision that is current.
Accepted(r) == ~Known(r) /\ base[r] = Len(store) /\ Len(store) < Limit

\* Reads the file and decides; a change that is there already is reported as saved, one that
\* is based on another revision or exceeds the limit is refused.
Read(r) ==
  /\ pc[r] = "read"
  /\ IF asked[r] # None /\ Accepted(r)
       THEN /\ next' = [next EXCEPT ![r] = Append(store, asked[r])]
            /\ Goto(r, "rename")
       ELSE /\ Goto(r, "release")
            /\ UNCHANGED next
  /\ UNCHANGED <<asked, base, waited, lock, store, saved, left, raced>>

Rename(r) ==
  /\ pc[r] = "rename"
  /\ store' = next[r]
  /\ saved' = saved \cup {[change |-> asked[r], base |-> base[r]]}
  /\ Goto(r, "release")
  /\ UNCHANGED <<asked, base, waited, next, lock, left, raced>>

\* The temporary file could not be written; the store is untouched and the lock released.
WriteFails(r) ==
  /\ pc[r] = "rename"
  /\ Goto(r, "release")
  /\ UNCHANGED <<asked, base, waited, next, lock, store, saved, left, raced>>

----------------------------------------------------------------------------
(* The process *)

Holding == {r \in Request : pc[r] \in {"token", "read", "rename", "release", "unlink"}}

Crash ==
  /\ left' = (left \/ lock # None)
  /\ pc' = [r \in Request |-> "idle"]
  /\ asked' = [r \in Request |-> None]
  /\ base' = [r \in Request |-> 0]
  /\ waited' = [r \in Request |-> 0]
  /\ next' = [r \in Request |-> <<>>]
  /\ UNCHANGED <<lock, store, saved, raced>>

\* Time passes, but no request holds the lock for as long as Stale.
Tick ==
  /\ lock # None /\ lock.owner \in Holding => lock.age + 1 < Stale
  /\ lock' = IF lock = None \/ lock.age = Stale THEN lock ELSE [lock EXCEPT !.age = @ + 1]
  /\ waited' = [r \in Request |->
       IF pc[r] \in {"open", "stat"} /\ waited[r] < Timeout THEN waited[r] + 1 ELSE waited[r]]
  /\ UNCHANGED <<pc, asked, base, next, store, saved, left, raced>>

Goes(r) ==
  \/ Open(r)
  \/ WriteToken(r)
  \/ Stat(r)
  \/ UnlinkStale(r)
  \/ Read(r)
  \/ Rename(r)
  \/ Release(r)
  \/ Unlink(r)

Next ==
  \/ \E r \in Request : Begin(r) \/ Goes(r) \/ WriteTokenFails(r) \/ WriteFails(r)
  \/ Crash
  \/ Tick

Spec == Init /\ [][Next]_vars

\* Calls into the file system return, and time passes while requests wait.
FairSpec == Spec /\ (\A r \in Request : WF_vars(Goes(r))) /\ WF_vars(Tick)

----------------------------------------------------------------------------
(* Properties *)

\* At most one request is between taking and releasing the lock, lock files that were left behind
\* and are removed again included: unless two requests are about to remove one at the same time.
MutualExclusion == ~raced => \A r, s \in Holding : r = s

\* What a request has saved is in the store, at the revision its client had seen: no
\* concurrent save was overwritten and none was overlooked.
SavedIsKept == \A a \in saved : a.base < Len(store) /\ store[a.base + 1] = a.change

\* SavedIsKept, unless two requests were about to remove a stale lock file at the same time.
SavedUnlessRaced == ~raced => SavedIsKept

\* A lock file is there only while a request holds it, unless one was left behind.
LockIsHeld == left \/ (lock # None => lock.owner \in Holding)

\* No decision that was saved is overwritten or overlooked by a concurrent save, one request at a
\* time is between taking and releasing the lock file, and no lock file outlives its request but by
\* a crash or a failed write: all this unless two requests were about to remove the same stale file.
StoreIsSerial == MutualExclusion /\ SavedUnlessRaced /\ LockIsHeld

\* When no more requests come, those in progress are all answered, by an error if need be, whatever
\* crashes and failed writes have left behind.
RequestsEnd ==
  <>[][\A r \in Request : ~Begin(r)]_vars => <>[](\A r \in Request : pc[r] = "idle")
=============================================================================
