------------------------------- MODULE Progress_proofs -------------------------------
(***************************************************************************)
(* Proofs about the components that MCProgress runs side by side, each for *)
(* every value of its constants, and of what MCProgress says of them all:  *)
(* the Web's file store, the depth stream of MEXC, the recovery of candles *)
(* and the history of fundings.                                            *)
(***************************************************************************)
EXTENDS MCProgress, ExtremumTheorems, SequenceTheorems

(***************************************************************************)
(* FileStore: until two requests are about to remove a stale file at the   *)
(* same time, whoever is between taking and releasing the lock owns the    *)
(* lock file, which is then not stale; so the one request that may remove  *)
(* a stale file removes nobody's, the store a request has read is still    *)
(* the store when it replaces it, and what it replaces it by is the old    *)
(* content with one decision more (OneAtATime).                            *)
(***************************************************************************)

\* The lock is the holder's and not stale; a request about to remove it is alone with it.
OneAtATime ==
  /\ \A r \in Holding : Mine(r) /\ lock.age < Stale
  /\ \A r \in Request : pc[r] = "unlink stale" => lock # None /\ lock.age >= Stale
  /\ \A r, s \in Request : pc[r] = "unlink stale" /\ pc[s] = "unlink stale" => r = s

\* What a request is about to write.
WritesOneMore ==
  \A r \in Request : pc[r] = "rename" => next[r] = Append(store, asked[r]) /\ base[r] = Len(store)

\* The lock file is its holder's, with the token that the holder will look for.
HeldWithToken ==
  lock # None => /\ lock.owner \in Holding
                 /\ pc[lock.owner] # "token" => lock.token

StoreInv ==
  /\ TypeOK
  /\ \A r \in Request : pc[r] = "rename" => asked[r] \in Change
  /\ ~raced => OneAtATime /\ WritesOneMore /\ SavedIsKept
  /\ ~left => HeldWithToken

-----------------------------------------------------------------------------
(* Contents *)

LEMMA ContentsAreSequences ==
  ASSUME NEW s
  PROVE  s \in Contents <=> s \in Seq(Change) /\ Len(s) <= Limit /\ IsInjective(s)
<1>1. ASSUME s \in Contents
      PROVE  s \in Seq(Change) /\ Len(s) <= Limit /\ IsInjective(s)
  <2>1. PICK n \in 0..Limit : s \in [1..n -> Change]
    BY <1>1 DEF Contents
  <2>2. QED
    BY <1>1, <2>1, FileStoreAssumption DEF Contents
<1>2. ASSUME s \in Seq(Change), Len(s) <= Limit, IsInjective(s)
      PROVE  s \in Contents
  <2>1. Len(s) \in 0..Limit /\ s \in [1..Len(s) -> Change]
    BY <1>2, FileStoreAssumption
  <2>2. QED
    BY <1>2, <2>1 DEF Contents
<1>3. QED
  BY <1>1, <1>2

LEMMA EmptyContent == <<>> \in Contents
<1>1. <<>> \in Seq(Change) /\ Len(<<>>) <= Limit
  BY FileStoreAssumption
<1>2. IsInjective(<<>>)
  BY DEF IsInjective
<1>3. QED
  BY <1>1, <1>2, ContentsAreSequences

\* A new change may be added to what is stored.
LEMMA OneMoreIsContent ==
  ASSUME NEW s \in Contents, NEW c \in Change, c \notin ToSet(s), Len(s) < Limit
  PROVE  Append(s, c) \in Contents
<1>1. s \in Seq(Change) /\ IsInjective(s)
  BY ContentsAreSequences
<1>2. /\ Append(s, c) \in Seq(Change)
      /\ Len(Append(s, c)) = Len(s) + 1
      /\ \A i \in 1..Len(s) : Append(s, c)[i] = s[i]
      /\ Append(s, c)[Len(s) + 1] = c
  BY <1>1, AppendProperties
<1>3. \A i \in 1..Len(s) : s[i] # c
  BY <1>1 DEF ToSet
<1>4. \A i, j \in 1..(Len(s) + 1) : Append(s, c)[i] = Append(s, c)[j] => i = j
  BY <1>1, <1>2, <1>3 DEF IsInjective
<1>5. IsInjective(Append(s, c))
  BY <1>1, <1>2, <1>4 DEF IsInjective
<1>6. Len(Append(s, c)) <= Limit
  BY <1>1, <1>2, FileStoreAssumption
<1>7. QED
  BY <1>2, <1>5, <1>6, ContentsAreSequences

-----------------------------------------------------------------------------
(* The steps *)

\* What the requests know is of its types.
RequestsOK ==
  /\ pc \in [Request -> Step]
  /\ asked \in [Request -> Change \cup {None}]
  /\ base \in [Request -> 0..Limit]
  /\ waited \in [Request -> 0..Timeout]
  /\ next \in [Request -> Contents]

LEMMA StoreInit == Init => StoreInv
<1>1. SUFFICES ASSUME Init PROVE StoreInv
  OBVIOUS
<1>2. RequestsOK /\ store \in Contents
  BY <1>1, EmptyContent, FileStoreAssumption DEF Init, RequestsOK, Step
<1>3. TypeOK
  BY <1>1, <1>2, Zenon DEF Init, TypeOK, RequestsOK
<1>4. OneAtATime /\ WritesOneMore /\ SavedIsKept /\ HeldWithToken
  BY <1>1 DEF Init, OneAtATime, WritesOneMore, SavedIsKept, HeldWithToken, Holding
<1>5. \A r \in Request : pc[r] # "rename"
  BY <1>1 DEF Init
<1>6. QED
  BY <1>3, <1>4, <1>5 DEF StoreInv

\* A request that goes to its next step, and one that has answered.
LEMMA GoesOn ==
  ASSUME RequestsOK, NEW r \in Request, NEW step \in Step, Goto(r, step),
         UNCHANGED <<asked, base, waited, next>>
  PROVE  RequestsOK'
  BY DEF RequestsOK, Goto

LEMMA AnswerForgets ==
  ASSUME RequestsOK, NEW r \in Request, Answered(r)
  PROVE  RequestsOK'
<1>1. 0 \in 0..Limit /\ 0 \in 0..Timeout /\ "idle" \in Step /\ <<>> \in Contents
  BY EmptyContent, FileStoreAssumption DEF Step
<1>2. pc' \in [Request -> Step] /\ asked' \in [Request -> Change \cup {None}]
  BY <1>1 DEF RequestsOK, Answered, Goto
<1>3. base' \in [Request -> 0..Limit] /\ waited' \in [Request -> 0..Timeout]
  BY <1>1 DEF RequestsOK, Answered
<1>4. next' \in [Request -> Contents]
  BY <1>1 DEF RequestsOK, Answered
<1>5. QED
  BY <1>2, <1>3, <1>4 DEF RequestsOK

LEMMA RequestsKeep ==
  ASSUME TypeOK, Next
  PROVE  RequestsOK'
<1>1. RequestsOK /\ store \in Contents
  BY DEF TypeOK, RequestsOK
<1>2. ASSUME NEW r \in Request, Begin(r)
      PROVE  RequestsOK'
  <2>1. Len(store) \in 0..Limit
    BY <1>1, ContentsAreSequences, LenProperties, FileStoreAssumption
  <2>2. PICK c \in Change \cup {None}, n \in 0..Len(store) :
          /\ asked' = [asked EXCEPT ![r] = c]
          /\ base' = [base EXCEPT ![r] = IF c = None THEN 0 ELSE n]
    BY <1>2 DEF Begin
  <2>3. asked' \in [Request -> Change \cup {None}] /\ base' \in [Request -> 0..Limit]
    BY <1>1, <2>1, <2>2, FileStoreAssumption DEF RequestsOK
  <2>4. Goto(r, "open") /\ UNCHANGED <<waited, next>>
    BY <1>2 DEF Begin
  <2>5. QED
    BY <1>1, <2>3, <2>4 DEF RequestsOK, Goto, Step
<1>3. ASSUME NEW r \in Request, Open(r) \/ WriteToken(r) \/ UnlinkStale(r) \/ Rename(r) \/ WriteFails(r)
      PROVE  RequestsOK'
  <2>1. /\ \E step \in Step : Goto(r, step)
        /\ UNCHANGED <<asked, base, waited, next>>
    BY <1>3 DEF Open, WriteToken, UnlinkStale, Rename, WriteFails, Step
  <2>2. QED
    BY <1>1, <2>1, GoesOn
<1>4. ASSUME NEW r \in Request, Stat(r) \/ Release(r) \/ Unlink(r) \/ WriteTokenFails(r)
      PROVE  RequestsOK'
  <2>1. \/ Answered(r)
        \/ /\ \E step \in Step : Goto(r, step)
           /\ UNCHANGED <<asked, base, waited, next>>
    BY <1>4 DEF Stat, Release, Unlink, WriteTokenFails, Step
  <2>2. QED
    BY <1>1, <2>1, GoesOn, AnswerForgets
<1>5. ASSUME NEW r \in Request, Read(r)
      PROVE  RequestsOK'
  <2>1. CASE asked[r] # None /\ Accepted(r)
    <3>1. Append(store, asked[r]) \in Contents
      BY <1>1, <2>1, OneMoreIsContent DEF RequestsOK, Accepted, Known
    <3>2. QED
      BY <1>1, <1>5, <2>1, <3>1 DEF RequestsOK, Read, Goto, Step
  <2>2. CASE ~(asked[r] # None /\ Accepted(r))
    <3>1. Goto(r, "release") /\ UNCHANGED <<asked, base, waited, next>>
      BY <1>5, <2>2 DEF Read
    <3>2. QED
      BY <1>1, <3>1, GoesOn DEF Step
  <2>3. QED
    BY <2>1, <2>2
<1>6. CASE Crash
  BY <1>6, EmptyContent, FileStoreAssumption DEF RequestsOK, Crash, Step
<1>7. CASE Tick
  <2>1. waited' \in [Request -> 0..Timeout]
    <3>1. waited' = [r \in Request |->
            IF pc[r] \in {"open", "stat"} /\ waited[r] < Timeout THEN waited[r] + 1 ELSE waited[r]]
      BY <1>7 DEF Tick
    <3>2. QED
      BY <1>1, <3>1, FileStoreAssumption DEF RequestsOK
  <2>2. QED
    BY <1>1, <1>7, <2>1 DEF RequestsOK, Tick
<1>8. QED
  BY <1>2, <1>3, <1>4, <1>5, <1>6, <1>7 DEF Next, Goes

\* A request's own lock file, before and after its token is written.
LEMMA OwnLock ==
  ASSUME NEW r \in Request, NEW token \in BOOLEAN,
         NEW taken, taken = [owner |-> r, token |-> token, age |-> 0]
  PROVE  taken \in LockFile /\ taken # None /\ taken.owner = r /\ taken.age = 0 /\ taken.token = token
  BY FileStoreAssumption DEF LockFile

LEMMA LockKeeps ==
  ASSUME TypeOK, Next
  PROVE  lock' \in LockFile \cup {None}
<1>1. lock \in LockFile \cup {None}
  BY DEF TypeOK
<1>2. ASSUME NEW r \in Request
      PROVE  /\ [owner |-> r, token |-> FALSE, age |-> 0] \in LockFile
             /\ [owner |-> r, token |-> TRUE, age |-> 0] \in LockFile
  BY FileStoreAssumption DEF LockFile
<1>3. \/ lock' = lock \/ lock' = None
      \/ \E r \in Request : \/ lock' = [owner |-> r, token |-> FALSE, age |-> 0]
                            \/ lock' = [owner |-> r, token |-> TRUE, age |-> 0]
      \/ lock # None /\ lock.age # Stale /\ lock' = [lock EXCEPT !.age = @ + 1]
  BY DEF Next, Goes, Begin, Open, WriteToken, Stat, UnlinkStale, Read, Rename, Release, Unlink,
         WriteTokenFails, WriteFails, Crash, Tick
<1>4. ASSUME lock \in LockFile, lock.age # Stale
      PROVE  [lock EXCEPT !.age = @ + 1] \in LockFile
  BY <1>4, FileStoreAssumption DEF LockFile
<1>5. QED
  BY <1>1, <1>2, <1>3, <1>4

LEMMA TypeKeeps ==
  ASSUME StoreInv, Next
  PROVE  TypeOK'
<1>1. TypeOK
  BY DEF StoreInv
<1>2. store' \in Contents /\ saved' \subseteq [change: Change, base: 0..Limit]
  <2>1. CASE UNCHANGED <<store, saved>>
    BY <1>1, <2>1 DEF TypeOK
  <2>2. CASE \E r \in Request : Rename(r)
    <3>1. PICK r \in Request : Rename(r)
      BY <2>2
    <3>2. asked[r] \in Change /\ base[r] \in 0..Limit
      BY <1>1, <3>1 DEF StoreInv, Rename, TypeOK
    <3>3. QED
      BY <1>1, <3>1, <3>2 DEF TypeOK, Rename
  <2>3. QED
    BY <2>1, <2>2 DEF Next, Goes, Begin, Open, WriteToken, Stat, UnlinkStale, Read, Release, Unlink,
                      WriteTokenFails, WriteFails, Crash, Tick
<1>3. left' \in BOOLEAN /\ raced' \in BOOLEAN
  BY <1>1 DEF TypeOK, Next, Goes, Begin, Open, WriteToken, Stat, UnlinkStale, Read, Rename, Release,
              Unlink, WriteTokenFails, WriteFails, Crash, Tick
<1>4. QED
  BY <1>1, <1>2, <1>3, RequestsKeep, LockKeeps, Zenon DEF TypeOK, RequestsOK

\* A request reaches its rename with a change of its own only.
LEMMA AskedKeeps ==
  ASSUME StoreInv, Next
  PROVE  \A r \in Request : pc'[r] = "rename" => asked'[r] \in Change
<1>1. TypeOK /\ \A r \in Request : pc[r] = "rename" => asked[r] \in Change
  BY DEF StoreInv
<1>2. ASSUME NEW r \in Request, Begin(r) \/ Goes(r) \/ WriteTokenFails(r) \/ WriteFails(r),
             NEW s \in Request, pc'[s] = "rename"
      PROVE  asked'[s] \in Change
  <2>1. CASE s # r
    <3>1. pc'[s] = pc[s] /\ asked'[s] = asked[s]
      BY <1>1, <1>2, <2>1
      DEF TypeOK, Begin, Goes, Open, WriteToken, Stat, UnlinkStale, Read, Rename, Release, Unlink,
          WriteTokenFails, WriteFails, Goto, Answered
    <3>2. QED
      BY <1>1, <1>2, <3>1
  <2>2. CASE s = r
    <3>1. Read(r) /\ asked[r] # None
      BY <1>1, <1>2, <2>2
      DEF TypeOK, Begin, Goes, Open, WriteToken, Stat, UnlinkStale, Read, Rename, Release, Unlink,
          WriteTokenFails, WriteFails, Goto, Answered
    <3>2. QED
      BY <1>1, <2>2, <3>1 DEF TypeOK, Read
  <2>3. QED
    BY <2>1, <2>2
<1>3. CASE Crash \/ Tick
  BY <1>1, <1>3 DEF Crash, Tick
<1>4. QED
  BY <1>2, <1>3 DEF Next

\* The lock file and who may remove it.
LEMMA OneAtATimeKeeps ==
  ASSUME StoreInv, Next, ~raced'
  PROVE  OneAtATime'
<1>1. ~raced
  BY DEF Next, Goes, Begin, Open, WriteToken, Stat, UnlinkStale, Read, Rename, Release, Unlink,
         WriteTokenFails, WriteFails, Crash, Tick
<1>2. OneAtATime /\ pc \in [Request -> Step] /\ lock \in LockFile \cup {None}
  BY <1>1 DEF StoreInv, TypeOK
<1>3. /\ Stale \in Nat /\ 0 < Stale /\ None \notin LockFile
      /\ \A taken \in LockFile : taken.owner \in Request /\ taken.age \in Nat
  BY FileStoreAssumption DEF LockFile
<1>4. ASSUME NEW r \in Request, Open(r)
      PROVE  OneAtATime'
  <2>1. \A s \in Request : pc'[s] = "unlink stale" => pc[s] = "unlink stale"
    BY <1>2, <1>4 DEF Open, Goto
  <2>2. CASE lock = None
    <3>1. lock' = [owner |-> r, token |-> FALSE, age |-> 0] /\ lock' # None
      BY <1>4, <2>2, OwnLock DEF Open
    <3>2. Holding = {} /\ Holding' \subseteq {r}
      BY <1>2, <1>4, <2>2 DEF OneAtATime, Mine, Holding, Open, Goto
    <3>3. \A s \in Request : pc'[s] # "unlink stale"
      BY <1>2, <2>1, <2>2 DEF OneAtATime
    <3>4. QED
      BY <1>3, <3>1, <3>2, <3>3 DEF OneAtATime, Mine
  <2>3. CASE lock # None
    <3>1. lock' = lock /\ Holding' \subseteq Holding
      BY <1>2, <1>4, <2>3 DEF Holding, Open, Goto
    <3>2. QED
      BY <1>2, <2>1, <3>1 DEF OneAtATime, Mine
  <2>4. QED
    BY <2>2, <2>3
<1>5. ASSUME NEW r \in Request, WriteToken(r)
      PROVE  OneAtATime'
  <2>1. r \in Holding /\ Holding' \subseteq Holding
    BY <1>2, <1>5 DEF Holding, WriteToken, Goto
  <2>2. Mine(r) /\ lock.age < Stale
    BY <1>2, <2>1 DEF OneAtATime
  <2>3. lock' = [owner |-> r, token |-> TRUE, age |-> 0] /\ lock' # None
    BY <1>5, <2>2, OwnLock DEF WriteToken
  <2>4. \A s \in Request : pc[s] # "unlink stale"
    <3>1. lock \in LockFile
      BY <1>2, <2>2 DEF Mine
    <3>2. ~(lock.age >= Stale)
      BY <1>3, <2>2, <3>1
    <3>3. QED
      BY <1>2, <3>2 DEF OneAtATime
  <2>5. \A s \in Request : pc'[s] # "unlink stale"
    BY <1>2, <1>5, <2>4 DEF WriteToken, Goto
  <2>6. \A s \in Holding' : s = r
    BY <1>2, <2>1, <2>2 DEF OneAtATime, Mine
  <2>7. QED
    BY <1>3, <2>3, <2>5, <2>6 DEF OneAtATime, Mine
<1>6. ASSUME NEW r \in Request, UnlinkStale(r)
      PROVE  OneAtATime'
  <2>1. lock \in LockFile /\ lock.age >= Stale
    BY <1>2, <1>6 DEF OneAtATime, UnlinkStale
  <2>2. Holding = {}
    <3>1. SUFFICES ASSUME NEW s \in Holding PROVE FALSE
      OBVIOUS
    <3>2. lock.age < Stale /\ lock.age \in Nat
      BY <1>2, <1>3, <2>1 DEF OneAtATime
    <3>3. QED
      BY <1>3, <2>1, <3>2
  <2>3. \A s \in Request : pc'[s] # "unlink stale" /\ s \notin Holding'
    BY <1>2, <1>6, <2>2 DEF OneAtATime, Holding, UnlinkStale, Goto
  <2>4. QED
    BY <2>3 DEF OneAtATime, Holding
<1>7. ASSUME NEW r \in Request, Unlink(r)
      PROVE  OneAtATime'
  <2>1. r \in Holding /\ Holding' \subseteq Holding \ {r}
    BY <1>2, <1>7 DEF Holding, Unlink, Answered, Goto
  <2>2. Mine(r) /\ lock.age < Stale
    BY <1>2, <2>1 DEF OneAtATime
  <2>3. \A s \in Request : pc[s] # "unlink stale"
    <3>1. lock \in LockFile
      BY <1>2, <2>2 DEF Mine
    <3>2. ~(lock.age >= Stale)
      BY <1>3, <2>2, <3>1
    <3>3. QED
      BY <1>2, <3>2 DEF OneAtATime
  <2>4. \A s \in Request : pc'[s] # "unlink stale"
    BY <1>2, <1>7, <2>3 DEF Unlink, Answered, Goto
  <2>5. Holding' = {}
    BY <1>2, <2>1, <2>2 DEF OneAtATime, Mine
  <2>6. QED
    BY <2>4, <2>5 DEF OneAtATime
<1>8. ASSUME NEW r \in Request, Stat(r)
      PROVE  OneAtATime'
  <2>1. Holding' \subseteq Holding /\ lock' = lock
    BY <1>2, <1>8 DEF Holding, Stat, Answered, Goto
  <2>2. \A s \in Request \ {r} : pc'[s] = pc[s]
    BY <1>2, <1>8 DEF Stat, Answered, Goto
  <2>3. pc'[r] = "unlink stale" => /\ lock # None /\ lock.age >= Stale
                                   /\ raced' = (raced \/ \E s \in Request : pc[s] = "unlink stale")
    BY <1>2, <1>8 DEF Stat, Answered, Goto
  <2>4. pc'[r] = "unlink stale" => \A s \in Request : pc[s] # "unlink stale"
    BY <2>3
  <2>5. QED
    BY <1>2, <2>1, <2>2, <2>3, <2>4 DEF OneAtATime, Mine
<1>9. ASSUME NEW r \in Request,
             Begin(r) \/ Read(r) \/ Rename(r) \/ Release(r) \/ WriteTokenFails(r) \/ WriteFails(r)
      PROVE  OneAtATime'
  <2>1. Holding' \subseteq Holding /\ lock' = lock
    BY <1>2, <1>9
    DEF Holding, Begin, Read, Rename, Release, WriteTokenFails, WriteFails, Answered, Goto
  <2>2. \A s \in Request : pc'[s] = "unlink stale" => pc[s] = "unlink stale"
    BY <1>2, <1>9 DEF Begin, Read, Rename, Release, WriteTokenFails, WriteFails, Answered, Goto
  <2>3. QED
    BY <1>2, <2>1, <2>2 DEF OneAtATime, Mine
<1>10. CASE Crash
  BY <1>10 DEF OneAtATime, Crash, Holding
<1>11. CASE Tick
  <2>1. Holding' = Holding /\ pc' = pc
    BY <1>11 DEF Tick, Holding
  <2>2. CASE lock' = lock
    BY <1>2, <2>1, <2>2 DEF OneAtATime, Mine
  <2>3. CASE lock \in LockFile /\ lock.age # Stale /\ lock' = [lock EXCEPT !.age = @ + 1]
    <3>1. lock' \in LockFile /\ lock'.owner = lock.owner /\ lock'.age = lock.age + 1
          /\ lock.age \in 0..Stale
      BY <2>3, FileStoreAssumption DEF LockFile
    <3>2. lock.owner \in Holding => lock.age + 1 < Stale
      BY <1>3, <1>11, <2>3 DEF Tick
    <3>3. \A r \in Holding' : Mine(r)' /\ lock'.age < Stale
      BY <1>2, <1>3, <2>1, <3>1, <3>2 DEF OneAtATime, Mine
    <3>4. \A r \in Request : pc'[r] = "unlink stale" => lock' # None /\ lock'.age >= Stale
      <4>1. ~(lock.age >= Stale)
        BY <1>3, <2>3, <3>1
      <4>2. QED
        BY <1>2, <2>1, <4>1 DEF OneAtATime
    <3>5. QED
      BY <1>2, <2>1, <3>3, <3>4 DEF OneAtATime
  <2>4. QED
    BY <1>2, <1>11, <2>2, <2>3 DEF Tick
<1>12. QED
  BY <1>4, <1>5, <1>6, <1>7, <1>8, <1>9, <1>10, <1>11 DEF Next, Goes

\* What a request is about to write is the store and its change, and what was saved stays.
LEMMA SavedKeeps ==
  ASSUME StoreInv, Next, ~raced'
  PROVE  WritesOneMore' /\ SavedIsKept'
<1>1. ~raced
  BY DEF Next, Goes, Begin, Open, WriteToken, Stat, UnlinkStale, Read, Rename, Release, Unlink,
         WriteTokenFails, WriteFails, Crash, Tick
<1>2. /\ OneAtATime /\ WritesOneMore /\ SavedIsKept
      /\ RequestsOK /\ store \in Seq(Change) /\ Len(store) \in Nat
      /\ \A a \in saved : a.base \in Nat
      /\ \A r \in Request : pc[r] = "rename" => asked[r] \in Change
  BY <1>1, ContentsAreSequences DEF StoreInv, TypeOK, RequestsOK
<1>3. ASSUME NEW r \in Request,
             Begin(r) \/ Open(r) \/ WriteToken(r) \/ Stat(r) \/ UnlinkStale(r) \/ Release(r)
             \/ Unlink(r) \/ WriteTokenFails(r) \/ WriteFails(r)
      PROVE  WritesOneMore' /\ SavedIsKept'
  <2>1. UNCHANGED <<store, saved>>
    BY <1>3 DEF Begin, Open, WriteToken, Stat, UnlinkStale, Release, Unlink, WriteTokenFails,
                WriteFails
  <2>2. \A s \in Request : pc'[s] = "rename" =>
          pc[s] = "rename" /\ next'[s] = next[s] /\ asked'[s] = asked[s] /\ base'[s] = base[s]
    BY <1>2, <1>3
    DEF RequestsOK, Begin, Open, WriteToken, Stat, UnlinkStale, Release, Unlink, WriteTokenFails,
        WriteFails, Goto, Answered
  <2>3. QED
    BY <1>2, <2>1, <2>2 DEF WritesOneMore, SavedIsKept
<1>4. ASSUME NEW r \in Request, Read(r)
      PROVE  WritesOneMore' /\ SavedIsKept'
  <2>1. UNCHANGED <<store, saved, asked, base>>
    BY <1>4 DEF Read
  <2>2. \A s \in Request \ {r} : pc'[s] = pc[s] /\ next'[s] = next[s]
    BY <1>2, <1>4 DEF RequestsOK, Read, Goto
  <2>3. pc'[r] = "rename" => next'[r] = Append(store, asked[r]) /\ base[r] = Len(store)
    BY <1>2, <1>4 DEF RequestsOK, Read, Goto, Accepted
  <2>4. QED
    BY <1>2, <2>1, <2>2, <2>3 DEF WritesOneMore, SavedIsKept
<1>5. ASSUME NEW r \in Request, Rename(r)
      PROVE  WritesOneMore' /\ SavedIsKept'
  <2>1. r \in Holding /\ \A s \in Holding : s = r
    BY <1>2, <1>5 DEF OneAtATime, Mine, Holding, Rename
  <2>2. \A s \in Request : pc'[s] # "rename"
    BY <1>2, <1>5, <2>1 DEF RequestsOK, Rename, Goto, Holding
  <2>3. asked[r] \in Change /\ store' = Append(store, asked[r]) /\ base[r] = Len(store)
        /\ saved' = saved \cup {[change |-> asked[r], base |-> base[r]]}
    BY <1>2, <1>5 DEF Rename, WritesOneMore
  <2>4. /\ Len(store') = Len(store) + 1
        /\ \A i \in 1..Len(store) : store'[i] = store[i]
        /\ store'[Len(store) + 1] = asked[r]
    BY <1>2, <2>3, AppendProperties
  <2>5. ASSUME NEW a \in saved
        PROVE  a.base < Len(store') /\ store'[a.base + 1] = a.change
    <3>1. a.base < Len(store) /\ store[a.base + 1] = a.change /\ a.base \in Nat
      BY <1>2 DEF SavedIsKept
    <3>2. QED
      BY <1>2, <2>4, <3>1
  <2>6. ASSUME NEW a, a = [change |-> asked[r], base |-> base[r]]
        PROVE  a.base < Len(store') /\ store'[a.base + 1] = a.change
    BY <1>2, <2>3, <2>4, <2>6
  <2>7. QED
    BY <2>2, <2>3, <2>5, <2>6 DEF WritesOneMore, SavedIsKept
<1>6. CASE Crash \/ Tick
  BY <1>2, <1>6 DEF WritesOneMore, SavedIsKept, Crash, Tick
<1>7. QED
  BY <1>3, <1>4, <1>5, <1>6 DEF Next, Goes

\* Whoever created the lock file is still at work on it, and its token is there when it looks.
LEMMA HeldKeeps ==
  ASSUME StoreInv, Next, ~left'
  PROVE  HeldWithToken'
<1>1. SUFFICES ASSUME lock' # None
               PROVE  lock'.owner \in Holding' /\ (pc'[lock'.owner] # "token" => lock'.token)
  BY DEF HeldWithToken
<1>2. ~left
  BY DEF Next, Goes, Begin, Open, WriteToken, Stat, UnlinkStale, Read, Rename, Release, Unlink,
         WriteTokenFails, WriteFails, Crash, Tick
<1>3. HeldWithToken /\ pc \in [Request -> Step] /\ lock \in LockFile \cup {None}
  BY <1>2 DEF StoreInv, TypeOK
<1>4. ASSUME NEW r \in Request, lock' = lock, \A s \in Request \ {r} : pc'[s] = pc[s],
             Mine(r) => r \in Holding' /\ pc'[r] # "token" /\ pc[r] # "token"
      PROVE  lock'.owner \in Holding' /\ (pc'[lock'.owner] # "token" => lock'.token)
  <2>1. lock.owner \in Holding /\ (pc[lock.owner] # "token" => lock.token)
    BY <1>1, <1>3, <1>4 DEF HeldWithToken
  <2>2. CASE lock.owner = r
    BY <1>1, <1>4, <2>1, <2>2 DEF Mine
  <2>3. CASE lock.owner # r
    BY <1>4, <2>1, <2>3 DEF Holding
  <2>4. QED
    BY <2>2, <2>3
<1>5. ASSUME NEW r \in Request, Open(r)
      PROVE  lock'.owner \in Holding' /\ (pc'[lock'.owner] # "token" => lock'.token)
  <2>1. CASE lock = None
    <3>1. lock'.owner = r /\ pc'[r] = "token"
      BY <1>3, <1>5, <2>1, OwnLock DEF Open, Goto
    <3>2. QED
      BY <3>1 DEF Holding
  <2>2. CASE lock # None
    <3>1. r \notin Holding
      BY <1>5 DEF Holding, Open
    <3>2. lock' = lock /\ ~Mine(r) /\ \A s \in Request \ {r} : pc'[s] = pc[s]
      BY <1>3, <1>5, <2>2, <3>1 DEF HeldWithToken, Mine, Open, Goto
    <3>3. QED
      BY <1>4, <3>2
  <2>3. QED
    BY <2>1, <2>2
<1>6. ASSUME NEW r \in Request, WriteToken(r)
      PROVE  lock'.owner \in Holding' /\ (pc'[lock'.owner] # "token" => lock'.token)
  <2>1. pc'[r] = "read" /\ \A s \in Request \ {r} : pc'[s] = pc[s]
    BY <1>3, <1>6 DEF WriteToken, Goto
  <2>2. CASE Mine(r)
    <3>1. lock'.owner = r /\ lock'.token = TRUE
      BY <1>6, <2>2, OwnLock DEF WriteToken
    <3>2. QED
      BY <2>1, <3>1 DEF Holding
  <2>3. CASE ~Mine(r)
    BY <1>4, <1>6, <2>1, <2>3 DEF WriteToken
  <2>4. QED
    BY <2>2, <2>3
<1>7. ASSUME NEW r \in Request, UnlinkStale(r) \/ Unlink(r)
      PROVE  FALSE
  BY <1>1, <1>7 DEF UnlinkStale, Unlink
<1>8. ASSUME NEW r \in Request, Begin(r) \/ Stat(r)
      PROVE  lock'.owner \in Holding' /\ (pc'[lock'.owner] # "token" => lock'.token)
  <2>1. lock' = lock /\ r \notin Holding /\ \A s \in Request \ {r} : pc'[s] = pc[s]
    BY <1>3, <1>8 DEF Holding, Begin, Stat, Goto, Answered
  <2>2. ~Mine(r)
    BY <1>3, <2>1 DEF HeldWithToken, Mine
  <2>3. QED
    BY <1>4, <2>1, <2>2
<1>9. ASSUME NEW r \in Request, Read(r) \/ Rename(r) \/ WriteFails(r)
      PROVE  lock'.owner \in Holding' /\ (pc'[lock'.owner] # "token" => lock'.token)
  <2>1. /\ lock' = lock /\ pc[r] # "token" /\ pc'[r] \in {"rename", "release"}
        /\ \A s \in Request \ {r} : pc'[s] = pc[s]
    BY <1>3, <1>9 DEF Read, Rename, WriteFails, Goto
  <2>2. QED
    BY <1>4, <2>1 DEF Holding
<1>10. ASSUME NEW r \in Request, Release(r)
       PROVE  lock'.owner \in Holding' /\ (pc'[lock'.owner] # "token" => lock'.token)
  <2>1. lock' = lock /\ pc[r] = "release" /\ \A s \in Request \ {r} : pc'[s] = pc[s]
    BY <1>3, <1>10 DEF Release, Goto, Answered
  <2>2. Mine(r) => lock.token
    BY <1>3, <2>1 DEF HeldWithToken, Mine
  <2>3. Mine(r) => pc'[r] = "unlink"
    BY <1>3, <1>10, <2>2 DEF Release, Goto
  <2>4. QED
    BY <1>4, <2>1, <2>3 DEF Holding
<1>11. ASSUME NEW r \in Request, WriteTokenFails(r)
       PROVE  lock'.owner \in Holding' /\ (pc'[lock'.owner] # "token" => lock'.token)
  <2>1. lock' = lock /\ ~Mine(r) /\ \A s \in Request \ {r} : pc'[s] = pc[s]
    BY <1>3, <1>11 DEF WriteTokenFails, Goto, Answered
  <2>2. QED
    BY <1>4, <2>1
<1>12. CASE Crash
  BY <1>1, <1>12 DEF Crash
<1>13. CASE Tick
  <2>1. lock'.owner = lock.owner /\ lock'.token = lock.token /\ lock # None
    BY <1>1, <1>3, <1>13 DEF Tick, LockFile
  <2>2. pc' = pc /\ Holding' = Holding
    BY <1>13 DEF Tick, Holding
  <2>3. QED
    BY <1>3, <2>1, <2>2 DEF HeldWithToken
<1>14. QED
  BY <1>5, <1>6, <1>7, <1>8, <1>9, <1>10, <1>11, <1>12, <1>13 DEF Next, Goes

LEMMA StoreInvHolds == Spec => []StoreInv
<1>1. StoreInv /\ Next => StoreInv'
  BY TypeKeeps, AskedKeeps, OneAtATimeKeeps, SavedKeeps, HeldKeeps DEF StoreInv
<1>2. StoreInv /\ UNCHANGED vars => StoreInv'
  <2>1. SUFFICES ASSUME StoreInv, UNCHANGED vars PROVE StoreInv'
    OBVIOUS
  <2>2. TypeOK' /\ (~left => HeldWithToken)'
    BY <2>1, Zenon DEF StoreInv, vars, TypeOK, HeldWithToken, Holding
  <2>3. (~raced => OneAtATime)'
    BY <2>1, Zenon DEF StoreInv, vars, OneAtATime, Holding, Mine
  <2>4. (~raced => WritesOneMore /\ SavedIsKept)'
    BY <2>1, Zenon DEF StoreInv, vars, WritesOneMore, SavedIsKept
  <2>5. (\A r \in Request : pc[r] = "rename" => asked[r] \in Change)'
    BY <2>1, Zenon DEF StoreInv, vars
  <2>6. QED
    BY <2>2, <2>3, <2>4, <2>5, Zenon DEF StoreInv
<1>3. QED
  BY StoreInit, <1>1, <1>2, PTL DEF Spec

-----------------------------------------------------------------------------
(* Results *)

(* Every reachable state of the store, its lock file and the requests is of its types. *)
THEOREM TypeCorrect == Spec => []TypeOK
<1>1. StoreInv => TypeOK
  BY DEF StoreInv
<1>2. QED
  BY <1>1, StoreInvHolds, PTL

(* For any number of requests: until two of them are about to remove the same stale  *)
(* lock file, one at a time is under the lock and every saved decision is in the     *)
(* store where its client expected it; and a lock file nobody holds is left behind   *)
(* by a crash or a failed write only, raced or not.                                  *)
THEOREM StoreStaysSerial == Spec => []StoreIsSerial
<1>1. StoreInv => StoreIsSerial
  BY DEF StoreInv, StoreIsSerial, OneAtATime, MutualExclusion, SavedUnlessRaced, LockIsHeld,
         HeldWithToken, Mine, Holding
<1>2. QED
  BY <1>1, StoreInvHolds, PTL

-----------------------------------------------------------------------------
(***************************************************************************)
(* MexcDepth implements BookFeed, for every book, every number of updates, *)
(* trades, lost frames and breaks, and whatever the exchange merges.  The  *)
(* argument: while the producer holds a book, it is the exchange's book at *)
(* the version it holds (DepthInv).  A frame that is no gap therefore turns*)
(* it into the book of the frame's end, because every level it leaves alone*)
(* was not touched since the version (AppliedCatchesUp); and a bridge does *)
(* the same twice.  A book on display is of the version the producer holds,*)
(* so whatever is shown next is later, or nothing was on display.          *)
(***************************************************************************)

\* A frame ends with an update the exchange made.
KnownFrame(frame) == frame.kind = "depth" => frame.begin <= frame.end /\ frame.end <= Len(updates)

HoldingBook == {"deals", "receive", "bridge"}

HoldsItsVersion ==
  stage \in HoldingBook => version \in 0..Len(updates) /\ book = Feed!BookAt(updates, version)

GapIsOpen ==
  stage = "bridge" => /\ waiting \in Frame /\ waiting.kind = "depth"
                      /\ KnownFrame(waiting) /\ Gap(waiting)

ShowsWhatItHolds ==
  stage = "receive" =>
    IF synchronized THEN shown # NoBook => shown.version = version ELSE shown = NoBook

DepthInv ==
  /\ DepthTypeOK
  /\ sent # NoBook => sent <= Len(updates)
  /\ \A i \in DOMAIN socket : KnownFrame(socket[i])
  /\ HoldsItsVersion
  /\ GapIsOpen
  /\ NothingShownInGap
  /\ ShowsWhatItHolds

-----------------------------------------------------------------------------
(* The book of a version *)

LEMMA TouchIsUpdate ==
  ASSUME NEW n \in Nat, NEW T \in SUBSET (1..n), T # {}
  PROVE  Feed!Max(T) \in 1..n
<1>1. Feed!Max(T) = Max(T)
  BY DEF Feed!Max, Max
<1>2. QED
  BY <1>1, MaxOfIndices

LEMMA BookIsTyped ==
  ASSUME NEW h \in Seq(Feed!Update), NEW v \in 0..Len(h)
  PROVE  Feed!BookAt(h, v) \in Book
<1> SUFFICES ASSUME NEW p \in Price
             PROVE  Feed!BookAt(h, v)[p] \in Size
  BY DEF Book, Feed!BookAt
<1> DEFINE T == {k \in 1..v : h[k].price = p}
<1>1. Feed!BookAt(h, v)[p] = IF T = {} THEN 0 ELSE h[Feed!Max(T)].size
  BY DEF Feed!BookAt
<1>2. T \in SUBSET (1..v) /\ v \in Nat
  OBVIOUS
<1> HIDE DEF T
<1>3. ASSUME T # {} PROVE h[Feed!Max(T)].size \in Size
  <2>1. Feed!Max(T) \in 1..v
    BY <1>2, <1>3, TouchIsUpdate
  <2>2. h[Feed!Max(T)] \in Feed!Update
    BY <2>1
  <2>3. QED
    BY <2>2 DEF Feed!Update
<1>4. QED
  BY <1>1, <1>3, DepthAssumption

\* What the exchange does next does not change the books it had.
LEMMA BookIsHistory ==
  ASSUME NEW h \in Seq(Feed!Update), NEW u \in Feed!Update, NEW v \in 0..Len(h)
  PROVE  Feed!BookAt(Append(h, u), v) = Feed!BookAt(h, v)
<1> SUFFICES ASSUME NEW p \in Price
             PROVE  Feed!BookAt(Append(h, u), v)[p] = Feed!BookAt(h, v)[p]
  BY DEF Feed!BookAt
<1> DEFINE T == {k \in 1..v : h[k].price = p}
           U == {k \in 1..v : Append(h, u)[k].price = p}
<1>1. Feed!BookAt(h, v)[p] = IF T = {} THEN 0 ELSE h[Feed!Max(T)].size
  BY DEF Feed!BookAt
<1>2. Feed!BookAt(Append(h, u), v)[p] = IF U = {} THEN 0 ELSE Append(h, u)[Feed!Max(U)].size
  BY DEF Feed!BookAt
<1>3. \A k \in 1..v : Append(h, u)[k] = h[k]
  OBVIOUS
<1>4. U = T /\ T \in SUBSET (1..v) /\ v \in Nat
  BY <1>3
<1> HIDE DEF T, U
<1>5. T # {} => Feed!Max(T) \in 1..v
  BY <1>4, TouchIsUpdate
<1>6. QED
  BY <1>1, <1>2, <1>3, <1>4, <1>5

\* A frame that continues the book of version v turns it into the book of the frame's end.
LEMMA AppliedCatchesUp ==
  ASSUME NEW v \in Nat, NEW begin \in Nat, NEW end \in Nat, begin <= v + 1, v < end
  PROVE  Applied(Feed!BookAt(updates, v), begin, end) = Feed!BookAt(updates, end)
<1> SUFFICES ASSUME NEW p \in Price
             PROVE  Applied(Feed!BookAt(updates, v), begin, end)[p]
                      = Feed!BookAt(updates, end)[p]
  BY DEF Applied, Feed!BookAt
<1>1. CASE \E k \in begin..end : updates[k].price = p
  BY <1>1 DEF Applied
<1>2. CASE ~\E k \in begin..end : updates[k].price = p
  <2>1. {k \in 1..v : updates[k].price = p} = {k \in 1..end : updates[k].price = p}
    BY <1>2
  <2>2. Feed!BookAt(updates, v)[p] = Feed!BookAt(updates, end)[p]
    BY <2>1 DEF Feed!BookAt
  <2>3. QED
    BY <1>2, <2>2 DEF Applied
<1>3. QED
  BY <1>1, <1>2

-----------------------------------------------------------------------------
(* The inductive invariant *)

LEMMA Bounds ==
  /\ MaxUpdates \in Nat /\ MaxTrades \in Nat /\ MaxLost \in Nat /\ MaxBreaks \in Nat
  /\ Commits \in Nat /\ Commits > 0
  /\ Deals \in Nat /\ Deals > 0
  /\ SeenLimit \in Nat /\ SeenLimit > 0
BY DepthAssumption

LEMMA DepthInitHolds == DepthInit => DepthInv
<1> SUFFICES ASSUME DepthInit PROVE DepthInv
  OBVIOUS
<1>1. Empty \in Book
  BY DepthAssumption DEF Empty, Book
<1>2. DepthTypeOK
  <2>1. synchronized \in BOOLEAN /\ publish \in BOOLEAN
    BY DEF DepthInit
  <2>2. /\ updates \in Seq(Feed!Update) /\ Len(updates) <= MaxUpdates
        /\ socket \in Seq(Frame) /\ tape \in Seq(1..MaxTrades)
        /\ sent \in 0..MaxUpdates \cup {NoBook} /\ version \in 0..MaxUpdates \cup {NoBook}
        /\ waiting \in Frame \cup {NoBook}
        /\ shown \in [version: 0..MaxUpdates, book: Book] \cup {NoBook}
    BY Bounds DEF DepthInit, Feed!FeedInit
  <2>3. QED
    BY <1>1, <2>1, <2>2, Bounds DEF DepthInit, DepthTypeOK, Connected
<1>3. QED
  BY <1>2 DEF DepthInit, Feed!FeedInit, DepthInv, HoldsItsVersion, GapIsOpen,
              NothingShownInGap, ShowsWhatItHolds, HoldingBook

\* A new update leaves what is known of versions, frames and books as it was.
LEMMA ExchangeMovesKeeps ==
  ASSUME DepthInv, NEW update \in Feed!Update, ExchangeMoves(update)
  PROVE  DepthInv'
<1>1. /\ updates' = Append(updates, update)
      /\ UNCHANGED <<shown, deals, socket, sent, told, unsent, lost, breaks, stage, awaited,
                     version, book, waiting, synchronized, publish, tape>>
  BY DEF ExchangeMoves, Feed!Move, stateVars
<1>2. updates \in Seq(Feed!Update) /\ Len(updates') = Len(updates) + 1
  BY <1>1 DEF DepthInv, DepthTypeOK
<1>3. DepthTypeOK'
  BY <1>1, <1>2, Bounds DEF DepthInv, DepthTypeOK, ExchangeMoves
<1>4. \A frame \in Frame : KnownFrame(frame) => KnownFrame(frame)'
  BY <1>1, <1>2 DEF KnownFrame, Frame
<1>5. HoldsItsVersion'
  BY <1>1, <1>2, BookIsHistory DEF DepthInv, HoldsItsVersion
<1>6. GapIsOpen'
  BY <1>1, <1>4 DEF DepthInv, GapIsOpen, Gap
<1>7. (\A i \in DOMAIN socket : KnownFrame(socket[i]))'
  BY <1>1, <1>4 DEF DepthInv, DepthTypeOK
<1>8. (sent # NoBook => sent <= Len(updates))'
  BY <1>1, <1>2, DepthAssumption DEF DepthInv, DepthTypeOK
<1>9. (NothingShownInGap /\ ShowsWhatItHolds)'
  BY <1>1 DEF DepthInv, NothingShownInGap, ShowsWhatItHolds
<1>10. QED
  BY <1>3, <1>5, <1>6, <1>7, <1>8, <1>9 DEF DepthInv

\* The exchange's other steps touch nothing but the frames on their way.
LEMMA ExchangeKeeps ==
  ASSUME DepthInv,
         \/ ExchangeTrades
         \/ \E of \in {"depth", "deal"} : Acknowledge(of)
         \/ \E end \in 1..Len(updates), arrives \in BOOLEAN : PushDepth(end, arrives)
         \/ PushDeal
  PROVE  DepthInv'
<1>1. UNCHANGED <<updates, breaks, stage, awaited, version, book, waiting, synchronized,
                  publish, shown, tape>>
  BY DEF ExchangeTrades, Acknowledge, PushDepth, PushDeal, stateVars
<1>2. /\ deals' \in 0..MaxTrades /\ told' \in 0..MaxTrades /\ lost' \in 0..MaxLost
      /\ unsent' \subseteq {"depth", "deal"}
  <2>1. CASE ExchangeTrades
    BY <2>1, Bounds DEF DepthInv, DepthTypeOK, ExchangeTrades
  <2>2. CASE \E of \in {"depth", "deal"} : Acknowledge(of)
    BY <2>2 DEF DepthInv, DepthTypeOK, Acknowledge
  <2>3. CASE \E end \in 1..Len(updates), arrives \in BOOLEAN : PushDepth(end, arrives)
    BY <2>3, Bounds DEF DepthInv, DepthTypeOK, PushDepth
  <2>4. CASE PushDeal
    BY <2>4, Bounds DEF DepthInv, DepthTypeOK, PushDeal
  <2>5. QED
    BY <2>1, <2>2, <2>3, <2>4
<1>3. /\ sent' \in 0..MaxUpdates \cup {NoBook}
      /\ sent' # NoBook => sent' <= Len(updates)
      /\ socket' \in Seq(Frame)
      /\ \A i \in DOMAIN socket' : KnownFrame(socket'[i])
  <2>1. ASSUME NEW frame \in Frame, KnownFrame(frame), socket' = Append(socket, frame)
        PROVE  socket' \in Seq(Frame) /\ \A i \in DOMAIN socket' : KnownFrame(socket'[i])
    BY <2>1 DEF DepthInv, DepthTypeOK
  <2>2. CASE ExchangeTrades
    BY <2>2 DEF DepthInv, DepthTypeOK, ExchangeTrades
  <2>3. ASSUME NEW of \in {"depth", "deal"}, Acknowledge(of)
        PROVE  <1>3
    <3>1. [kind |-> "ack", of |-> of] \in Frame /\ KnownFrame([kind |-> "ack", of |-> of])
      BY DEF Frame, KnownFrame
    <3>2. QED
      BY <2>1, <2>3, <3>1 DEF DepthInv, DepthTypeOK, Acknowledge
  <2>4. ASSUME NEW end \in 1..Len(updates), NEW arrives \in BOOLEAN, PushDepth(end, arrives)
        PROVE  <1>3
    <3>1. sent \in Nat /\ sent + 1 <= end /\ end <= Len(updates) /\ end <= MaxUpdates
      BY <2>4, Bounds DEF DepthInv, DepthTypeOK, PushDepth
    <3>2. LET frame == [kind |-> "depth", begin |-> sent + 1, end |-> end] IN
          frame \in Frame /\ KnownFrame(frame)
      BY <3>1, Bounds DEF Frame, KnownFrame
    <3>3. socket' \in Seq(Frame) /\ \A i \in DOMAIN socket' : KnownFrame(socket'[i])
      BY <2>1, <2>4, <3>2 DEF DepthInv, DepthTypeOK, PushDepth
    <3>4. QED
      BY <2>4, <3>1, <3>3, Bounds DEF PushDepth
  <2>5. CASE PushDeal
    <3>1. [kind |-> "deal", id |-> told + 1] \in Frame /\ KnownFrame([kind |-> "deal", id |-> told + 1])
      BY <2>5, Bounds DEF DepthInv, DepthTypeOK, PushDeal, Frame, KnownFrame
    <3>2. QED
      BY <2>1, <2>5, <3>1 DEF DepthInv, DepthTypeOK, PushDeal
  <2>6. QED
    BY <2>2, <2>3, <2>4, <2>5
<1>4. DepthTypeOK'
  BY <1>1, <1>2, <1>3 DEF DepthInv, DepthTypeOK
<1>5. (\A i \in DOMAIN socket : KnownFrame(socket[i]))'
  BY <1>1, <1>3 DEF KnownFrame
<1>6. (HoldsItsVersion /\ GapIsOpen /\ NothingShownInGap /\ ShowsWhatItHolds)'
  BY <1>1 DEF DepthInv, HoldsItsVersion, GapIsOpen, KnownFrame, Gap, NothingShownInGap,
              ShowsWhatItHolds
<1>7. QED
  BY <1>1, <1>3, <1>4, <1>5, <1>6 DEF DepthInv

\* A new connection, or none: no book is held, no frame is on its way.
LEMMA FreshKeeps ==
  ASSUME DepthInv, Fresh,
         socket' = <<>>, updates' = updates, deals' = deals, lost' = lost,
         stage' \in {"snapshot", "connect", "stopped"},
         stage' # "stopped" => shown' = NoBook,
         shown' \in {shown, NoBook},
         sent' \in {NoBook, Len(updates)}, told' \in {told, deals},
         unsent' \subseteq {"depth", "deal"}, breaks' \in 0..MaxBreaks
  PROVE  DepthInv'
<1>1. Empty \in Book
  BY DepthAssumption DEF Empty, Book
<1>2. DepthTypeOK'
  <2>1. synchronized' \in BOOLEAN /\ publish' \in BOOLEAN
    BY DEF Fresh
  <2>2. /\ socket' \in Seq(Frame) /\ tape' \in Seq(1..MaxTrades)
        /\ version' \in 0..MaxUpdates \cup {NoBook} /\ waiting' \in Frame \cup {NoBook}
        /\ awaited' \subseteq {"depth", "deal"}
        /\ book' \in Book
    BY <1>1 DEF Fresh
  <2>3. /\ sent' \in 0..MaxUpdates \cup {NoBook} /\ told' \in 0..MaxTrades
        /\ shown' \in [version: 0..MaxUpdates, book: Book] \cup {NoBook}
        /\ stage' \in Connected \cup {"connect", "stopped"}
    BY Bounds DEF DepthInv, DepthTypeOK, Connected
  <2>4. QED
    BY <2>1, <2>2, <2>3 DEF DepthInv, DepthTypeOK
<1>3. (\A i \in DOMAIN socket : KnownFrame(socket[i]))'
  OBVIOUS
<1>4. (sent # NoBook => sent <= Len(updates))'
  BY DEF DepthInv, DepthTypeOK
<1>5. (HoldsItsVersion /\ GapIsOpen /\ NothingShownInGap /\ ShowsWhatItHolds)'
  BY DEF HoldsItsVersion, GapIsOpen, NothingShownInGap, ShowsWhatItHolds, HoldingBook
<1>6. QED
  BY <1>2, <1>3, <1>4, <1>5 DEF DepthInv

LEMMA RestartKeeps ==
  ASSUME DepthInv, Connect \/ BridgeIncomplete \/ Break \/ StopStream
  PROVE  DepthInv'
<1>1. deals \in 0..MaxTrades /\ breaks \in 0..MaxBreaks
  BY DEF DepthInv, DepthTypeOK
<1>2. CASE Connect
  BY <1>1, <1>2, FreshKeeps DEF Connect
<1>3. CASE BridgeIncomplete
  BY <1>1, <1>3, FreshKeeps DEF BridgeIncomplete, Disconnect
<1>4. CASE Break
  <2>1. breaks' \in 0..MaxBreaks
    BY <1>1, <1>4, Bounds DEF Break
  <2>2. QED
    BY <1>4, <2>1, FreshKeeps DEF Break, Disconnect
<1>5. CASE StopStream
  BY <1>1, <1>5, FreshKeeps DEF StopStream
<1>6. QED
  BY <1>2, <1>3, <1>4, <1>5

LEMMA ReceivedFrame ==
  ASSUME DepthInv, NEW kind, Receives(kind)
  PROVE  /\ Head(socket) \in Frame /\ KnownFrame(Head(socket)) /\ Head(socket).kind = kind
         /\ socket' \in Seq(Frame)
         /\ \A i \in DOMAIN socket' : KnownFrame(socket'[i])
         /\ stage = "receive"
         /\ UNCHANGED <<updates, deals, sent, told, unsent, lost, breaks>>
<1>1. socket \in Seq(Frame) /\ socket # <<>> /\ socket' = Tail(socket)
  BY DEF DepthInv, DepthTypeOK, Receives
<1>2. Head(socket) = socket[1] /\ 1 \in DOMAIN socket
  BY <1>1
<1>3. \A i \in DOMAIN socket' : i + 1 \in DOMAIN socket /\ socket'[i] = socket[i + 1]
  BY <1>1
<1>4. QED
  BY <1>1, <1>2, <1>3 DEF DepthInv, Receives

\* The last n elements of a sequence.
LEMMA LastOfIsTyped ==
  ASSUME NEW S, NEW s \in Seq(S), NEW n \in Nat
  PROVE  /\ LastOf(s, n) \in Seq(S)
         /\ \E d \in Nat : /\ Len(LastOf(s, n)) + d = Len(s)
                          /\ d = 0 <=> Len(s) <= n
                          /\ \A i \in 1..Len(LastOf(s, n)) : LastOf(s, n)[i] = s[i + d]
<1> DEFINE d == IF Len(s) > n THEN Len(s) - n ELSE 0
<1>1. d \in Nat /\ d <= Len(s) /\ LastOf(s, n) = SubSeq(s, d + 1, Len(s))
      /\ (d = 0 <=> Len(s) <= n)
  BY DEF LastOf
<1> HIDE DEF d
<1>2. /\ SubSeq(s, d + 1, Len(s)) \in Seq(S)
      /\ Len(SubSeq(s, d + 1, Len(s))) = Len(s) - d
      /\ \A i \in 1..Len(s) - d : SubSeq(s, d + 1, Len(s))[i] = s[i + d]
  BY <1>1
<1>3. /\ LastOf(s, n) \in Seq(S)
      /\ Len(LastOf(s, n)) = Len(s) - d
      /\ \A i \in 1..Len(s) - d : LastOf(s, n)[i] = s[i + d]
  BY ONLY <1>1, <1>2
<1>4. Len(LastOf(s, n)) + d = Len(s)
  BY ONLY <1>1, <1>3, s \in Seq(S)
<1>5. \A i \in 1..Len(LastOf(s, n)) : LastOf(s, n)[i] = s[i + d]
  BY ONLY <1>3
<1>6. QED
  BY ONLY <1>1, <1>3, <1>4, <1>5

\* Steps that leave the book, its version and what is shown alone.
LEMMA BookAsideKeeps ==
  ASSUME DepthInv, ReceiveAck \/ ReceiveEarly \/ ReceiveDeal \/ ReceiveStale \/ TakeDeals
  PROVE  DepthInv'
<1>1. UNCHANGED <<updates, deals, sent, told, unsent, lost, breaks, version, book, waiting,
                  synchronized, shown>>
  BY DEF ReceiveAck, ReceiveEarly, ReceiveDeal, ReceiveStale, TakeDeals, Receives,
         exchangeVars, stateVars
<1>2. /\ socket' \in Seq(Frame)
      /\ \A i \in DOMAIN socket' : KnownFrame(socket'[i])
  <2>1. CASE TakeDeals
    BY <2>1 DEF TakeDeals, exchangeVars, DepthInv, DepthTypeOK
  <2>2. CASE \E kind \in {"ack", "depth", "deal"} : Receives(kind)
    BY <2>2, ReceivedFrame
  <2>3. QED
    BY <2>1, <2>2 DEF ReceiveAck, ReceiveEarly, ReceiveDeal, ReceiveStale
<1>3. /\ stage' = "receive" /\ stage \in {"deals", "receive"}
      /\ stage = "deals" => TakeDeals
  BY DEF ReceiveAck, ReceiveEarly, ReceiveDeal, ReceiveStale, TakeDeals, Receives, stateVars
<1>4. awaited' \subseteq {"depth", "deal"} /\ publish' \in BOOLEAN
  BY DEF DepthInv, DepthTypeOK, ReceiveAck, ReceiveEarly, ReceiveDeal, ReceiveStale, TakeDeals,
         stateVars, PublishDue

<1>5. tape' \in Seq(1..MaxTrades)
  <2>1. CASE TakeDeals
    <3>1. [i \in 1..deals |-> i] \in Seq(1..MaxTrades)
      BY Bounds DEF DepthInv, DepthTypeOK
    <3>2. LastOf([i \in 1..deals |-> i], Deals) \in Seq(1..MaxTrades)
      BY <3>1, LastOfIsTyped, Bounds
    <3>3. QED
      BY <2>1, <3>2 DEF TakeDeals
  <2>2. CASE ReceiveDeal
    <3>1. Head(socket).id \in 1..MaxTrades
      BY <2>2, ReceivedFrame DEF ReceiveDeal, Frame
    <3>2. tape \in Seq(1..MaxTrades)
      BY DEF DepthInv, DepthTypeOK
    <3>3. tape' = tape \/ tape' = Append(tape, Head(socket).id)
      BY <2>2 DEF ReceiveDeal
    <3>4. Append(tape, Head(socket).id) \in Seq(1..MaxTrades)
      BY <3>1, <3>2, AppendProperties
    <3>5. QED
      BY <3>2, <3>3, <3>4
  <2>3. CASE tape' = tape
    BY <2>3 DEF DepthInv, DepthTypeOK
  <2>4. QED
    BY <2>1, <2>2, <2>3 DEF ReceiveAck, ReceiveEarly, ReceiveStale
<1>6. DepthTypeOK'
  BY <1>1, <1>2, <1>3, <1>4, <1>5 DEF DepthInv, DepthTypeOK, Connected
<1>7. (\A i \in DOMAIN socket : KnownFrame(socket[i]))'
  BY <1>1, <1>2 DEF KnownFrame
<1>8. (HoldsItsVersion /\ GapIsOpen /\ NothingShownInGap /\ ShowsWhatItHolds)'
  BY <1>1, <1>3 DEF DepthInv, HoldsItsVersion, GapIsOpen, NothingShownInGap, ShowsWhatItHolds,
                    HoldingBook
<1>9. QED
  BY <1>1, <1>6, <1>7, <1>8 DEF DepthInv

LEMMA SnapshotKeeps ==
  ASSUME DepthInv, NEW of \in 0..Len(updates), TakeSnapshot(of)
  PROVE  DepthInv'
<1>1. /\ UNCHANGED <<updates, deals, socket, sent, told, unsent, lost, breaks, awaited, waiting,
                     synchronized, publish, shown, tape>>
      /\ stage = "snapshot" /\ stage' = "deals"
      /\ version' = of /\ book' = Feed!BookAt(updates, of)
  BY DEF TakeSnapshot, exchangeVars
<1>2. book' \in Book
  BY <1>1, BookIsTyped DEF DepthInv, DepthTypeOK
<1>3. version' \in 0..MaxUpdates
  BY <1>1, Bounds DEF DepthInv, DepthTypeOK
<1>4. DepthTypeOK'
  BY <1>1, <1>2, <1>3 DEF DepthInv, DepthTypeOK, Connected
<1>5. QED
  BY <1>1, <1>4 DEF DepthInv, HoldsItsVersion, GapIsOpen, NothingShownInGap, ShowsWhatItHolds,
                    KnownFrame

LEMMA PublishKeeps ==
  ASSUME DepthInv, PublishSnapshot
  PROVE  /\ DepthInv'
         /\ version \in 0..Len(updates) /\ Feed!Show(version)
<1>1. /\ UNCHANGED <<updates, deals, socket, sent, told, unsent, lost, breaks, stage, awaited,
                     version, book, waiting, publish, tape>>
      /\ stage = "receive" /\ ~synchronized /\ synchronized' = TRUE
      /\ shown' = [version |-> version, book |-> book]
  BY DEF PublishSnapshot, exchangeVars
<1>2. version \in 0..Len(updates) /\ book = Feed!BookAt(updates, version) /\ shown = NoBook
  BY <1>1 DEF DepthInv, HoldsItsVersion, HoldingBook, ShowsWhatItHolds
<1>3. shown' \in [version: 0..MaxUpdates, book: Book]
  BY <1>1, <1>2, Bounds DEF DepthInv, DepthTypeOK
<1>4. DepthTypeOK'
  BY <1>1, <1>3 DEF DepthInv, DepthTypeOK
<1>5. (HoldsItsVersion /\ GapIsOpen /\ NothingShownInGap /\ ShowsWhatItHolds)'
  BY <1>1 DEF DepthInv, HoldsItsVersion, GapIsOpen, NothingShownInGap, ShowsWhatItHolds, HoldingBook
<1>6. DepthInv'
  BY <1>1, <1>4, <1>5 DEF DepthInv, KnownFrame
<1>7. QED
  BY <1>1, <1>2, <1>6 DEF Feed!Show

\* What an applied frame or a bridge shows is the book of a later version.
LEMMA EmitKeeps ==
  ASSUME DepthInv, NEW end \in 0..Len(updates), version < end,
         stage \in {"receive", "bridge"}, stage' = "receive",
         Emit(end, Feed!BookAt(updates, end)),
         socket' \in Seq(Frame), \A i \in DOMAIN socket' : KnownFrame(socket'[i]),
         waiting' \in {waiting, NoBook},
         UNCHANGED <<updates, deals, sent, told, unsent, lost, breaks, awaited, publish, tape>>
  PROVE  DepthInv' /\ Feed!Show(end)
<1>1. /\ version' = end /\ book' = Feed!BookAt(updates, end)
      /\ shown' = [version |-> end, book |-> Feed!BookAt(updates, end)]
      /\ synchronized' = TRUE
  BY DEF Emit
<1>2. book' \in Book
  BY <1>1, BookIsTyped DEF DepthInv, DepthTypeOK
<1>3. end \in 0..MaxUpdates
  BY Bounds DEF DepthInv, DepthTypeOK
<1>4. shown' \in [version: 0..MaxUpdates, book: Book]
  BY <1>1, <1>2, <1>3
<1>5. DepthTypeOK'
  BY <1>1, <1>2, <1>3, <1>4 DEF DepthInv, DepthTypeOK, Connected
<1>6. (HoldsItsVersion /\ GapIsOpen /\ NothingShownInGap /\ ShowsWhatItHolds)'
  BY <1>1 DEF HoldsItsVersion, GapIsOpen, NothingShownInGap, ShowsWhatItHolds, HoldingBook
<1>7. DepthInv'
  BY <1>5, <1>6 DEF DepthInv, KnownFrame
<1>8. shown # NoBook => end > shown.version
  BY DEF DepthInv, NothingShownInGap, ShowsWhatItHolds
<1>9. QED
  BY <1>1, <1>7, <1>8 DEF Feed!Show

LEMMA ReceiveDepthKeeps ==
  ASSUME DepthInv, ReceiveDepth
  PROVE  DepthInv' /\ \E end \in 0..Len(updates) : Feed!Show(end)
<1> DEFINE frame == Head(socket)
<1>1. /\ stage = "receive" /\ frame \in Frame /\ KnownFrame(frame) /\ frame.kind = "depth"
      /\ socket' \in Seq(Frame) /\ \A i \in DOMAIN socket' : KnownFrame(socket'[i])
      /\ UNCHANGED <<updates, deals, sent, told, unsent, lost, breaks>>
  BY ReceivedFrame DEF ReceiveDepth
<1>2. /\ frame.end > version /\ ~(frame.begin > version + 1)
      /\ Emit(frame.end, Applied(book, frame.begin, frame.end))
      /\ UNCHANGED <<stage, awaited, waiting, publish, tape>>
  BY DEF ReceiveDepth, Gap
<1>3. frame.begin \in Nat /\ frame.end \in 0..Len(updates)
  BY <1>1, Bounds DEF Frame, KnownFrame
<1> HIDE DEF frame
<1>4. version \in Nat /\ book = Feed!BookAt(updates, version)
  BY <1>1 DEF DepthInv, HoldsItsVersion, HoldingBook
<1>5. Applied(book, frame.begin, frame.end) = Feed!BookAt(updates, frame.end)
  BY <1>2, <1>3, <1>4, AppliedCatchesUp
<1>6. QED
  BY <1>1, <1>2, <1>3, <1>5, EmitKeeps

LEMMA BridgeKeeps ==
  ASSUME DepthInv, Bridge
  PROVE  DepthInv' /\ \E end \in 0..Len(updates) : Feed!Show(end)
<1>1. /\ stage = "bridge" /\ stage' = "receive" /\ waiting' = NoBook
      /\ Emit(waiting.end, Applied(Applied(book, version + 1, waiting.begin - 1),
                                   waiting.begin, waiting.end))
      /\ UNCHANGED <<updates, deals, socket, sent, told, unsent, lost, breaks, awaited, publish,
                     tape>>
  BY DEF Bridge, exchangeVars
<1>2. /\ waiting.begin \in Nat /\ waiting.end \in 0..Len(updates)
      /\ waiting.begin <= waiting.end /\ version + 1 < waiting.begin
      /\ version \in Nat /\ book = Feed!BookAt(updates, version)
  BY <1>1, Bounds DEF DepthInv, GapIsOpen, HoldsItsVersion, HoldingBook, Frame, KnownFrame, Gap
<1>3. Applied(book, version + 1, waiting.begin - 1) = Feed!BookAt(updates, waiting.begin - 1)
  BY <1>2, AppliedCatchesUp
<1>4. Applied(Feed!BookAt(updates, waiting.begin - 1), waiting.begin, waiting.end)
        = Feed!BookAt(updates, waiting.end)
  BY <1>2, AppliedCatchesUp
<1>5. socket' \in Seq(Frame) /\ \A i \in DOMAIN socket' : KnownFrame(socket'[i])
  BY <1>1 DEF DepthInv, DepthTypeOK
<1>6. QED
  BY <1>1, <1>2, <1>3, <1>4, <1>5, EmitKeeps

LEMMA GapKeeps ==
  ASSUME DepthInv, ReceiveGap
  PROVE  DepthInv'
<1>1. /\ stage = "receive" /\ Head(socket) \in Frame /\ KnownFrame(Head(socket))
      /\ Head(socket).kind = "depth"
      /\ socket' \in Seq(Frame) /\ \A i \in DOMAIN socket' : KnownFrame(socket'[i])
      /\ UNCHANGED <<updates, deals, sent, told, unsent, lost, breaks>>
  BY ReceivedFrame DEF ReceiveGap
<1>2. /\ Gap(Head(socket)) /\ waiting' = Head(socket) /\ stage' = "bridge" /\ shown' = NoBook
      /\ UNCHANGED <<awaited, version, book, synchronized, publish, tape>>
  BY DEF ReceiveGap, Hide
<1>3. DepthTypeOK'
  BY <1>1, <1>2 DEF DepthInv, DepthTypeOK, Connected
<1>4. QED
  BY <1>1, <1>2, <1>3 DEF DepthInv, HoldsItsVersion, GapIsOpen, NothingShownInGap,
                          ShowsWhatItHolds, HoldingBook, KnownFrame, Gap

-----------------------------------------------------------------------------
(* The theorems *)

\* Each step keeps the invariant, and is a step of the feed or leaves the feed as it is.
LEMMA EveryStep ==
  ASSUME DepthInv, [DepthNext]_depthVars
  PROVE  DepthInv' /\ [Feed!FeedNext]_(Feed!feedVars)
<1> USE DEF Feed!feedVars
<1>1. ASSUME NEW update \in Feed!Update, ExchangeMoves(update)
      PROVE  DepthInv' /\ [Feed!FeedNext]_(Feed!feedVars)
  BY <1>1, ExchangeMovesKeeps DEF ExchangeMoves, Feed!FeedNext
<1>2. CASE \/ ExchangeTrades
           \/ \E of \in {"depth", "deal"} : Acknowledge(of)
           \/ \E end \in 1..Len(updates), arrives \in BOOLEAN : PushDepth(end, arrives)
           \/ PushDeal
  <2>1. UNCHANGED <<updates, shown>>
    BY <1>2 DEF ExchangeTrades, Acknowledge, PushDepth, PushDeal
  <2>2. QED
    BY <1>2, <2>1, ExchangeKeeps
<1>3. CASE Connect \/ BridgeIncomplete \/ Break \/ StopStream
  <2>1. updates' = updates /\ (shown' = NoBook \/ shown' = shown)
    BY <1>3 DEF Connect, BridgeIncomplete, Break, StopStream, Disconnect
  <2>2. [Feed!FeedNext]_(Feed!feedVars)
    BY <2>1 DEF Feed!FeedNext, Feed!Hide
  <2>3. QED
    BY <1>3, <2>2, RestartKeeps
<1>4. ASSUME NEW of \in 0..Len(updates), TakeSnapshot(of)
      PROVE  DepthInv' /\ [Feed!FeedNext]_(Feed!feedVars)
  BY <1>4, SnapshotKeeps DEF TakeSnapshot, exchangeVars
<1>5. CASE ReceiveAck \/ ReceiveEarly \/ ReceiveDeal \/ ReceiveStale \/ TakeDeals
  <2>1. UNCHANGED <<updates, shown>>
    BY <1>5 DEF ReceiveAck, ReceiveEarly, ReceiveDeal, ReceiveStale, TakeDeals, Receives,
                exchangeVars
  <2>2. QED
    BY <1>5, <2>1, BookAsideKeeps
<1>6. CASE ReceiveDepth
  BY <1>6, ReceiveDepthKeeps DEF Feed!FeedNext
<1>7. CASE ReceiveGap
  <2>1. Feed!Hide
    BY <1>7 DEF ReceiveGap, Receives, Hide, Feed!Hide
  <2>2. QED
    BY <1>7, <2>1, GapKeeps DEF Feed!FeedNext
<1>8. CASE PublishSnapshot
  BY <1>8, PublishKeeps DEF Feed!FeedNext
<1>9. CASE Bridge
  BY <1>9, BridgeKeeps DEF Feed!FeedNext
<1>10. CASE UNCHANGED depthVars
  BY <1>10 DEF depthVars, exchangeVars, stateVars, DepthInv, DepthTypeOK, HoldsItsVersion, GapIsOpen,
               NothingShownInGap, ShowsWhatItHolds, KnownFrame, Gap
<1>11. QED
  BY <1>1, <1>2, <1>3, <1>4, <1>5, <1>6, <1>7, <1>8, <1>9, <1>10
  DEF DepthNext, Exchange, Produce, Receive

LEMMA DepthInvHolds == DepthSpec => []DepthInv
<1>1. DepthInv /\ [DepthNext]_depthVars => DepthInv'
  BY EveryStep
<1>2. QED
  BY DepthInitHolds, <1>1, PTL DEF DepthSpec

(* The producer's state is of its types, whatever the socket carries.              *)
THEOREM DepthTypeCorrect == DepthSpec => []DepthTypeOK
<1>1. DepthInv => DepthTypeOK
  BY DEF DepthInv
<1>2. QED
  BY <1>1, DepthInvHolds, PTL

-----------------------------------------------------------------------------
(* The tape *)

\* What REST returns holds no trade twice.
LEMMA DealsAreDistinct ==
  ASSUME NEW n \in Nat, NEW k \in Nat \ {0},
         NEW i \in DOMAIN LastOf([d \in 1..n |-> d], k), NEW j \in DOMAIN LastOf([d \in 1..n |-> d], k),
         LastOf([d \in 1..n |-> d], k)[i] = LastOf([d \in 1..n |-> d], k)[j]
  PROVE  i = j
<1> DEFINE s == [d \in 1..n |-> d]
           first == IF n > k THEN n - k + 1 ELSE 1
<1>1. s \in Seq(1..n) /\ Len(s) = n
  OBVIOUS
<1>2. LastOf(s, k) = SubSeq(s, first, n)
  BY <1>1 DEF LastOf
<1>3. first \in Nat /\ first >= 1 /\ first <= n + 1
  OBVIOUS
<1>4. DOMAIN SubSeq(s, first, n) = 1..(n - first + 1)
  BY <1>1, <1>3
<1>5. \A x \in 1..(n - first + 1) : SubSeq(s, first, n)[x] = x + first - 1
  BY <1>1, <1>3
<1>. HIDE DEF s, first
<1>6. i \in 1..(n - first + 1) /\ j \in 1..(n - first + 1)
  BY <1>2, <1>4 DEF s
<1>7. SubSeq(s, first, n)[i] = SubSeq(s, first, n)[j]
  BY <1>2 DEF s
<1>8. SubSeq(s, first, n)[i] = i + first - 1 /\ SubSeq(s, first, n)[j] = j + first - 1
  BY <1>5, <1>6
<1>9. i + first - 1 = j + first - 1
  BY <1>7, <1>8
<1>10. i \in Int /\ j \in Int
  BY <1>6
<1>11. QED
  BY <1>3, <1>9, <1>10

\* A trade that is not among the remembered ones has not been emitted for SeenLimit trades.
LEMMA SeenAreTheLast ==
  ASSUME tape \in Seq(1..MaxTrades), NEW id \in 1..MaxTrades \ Seen,
         NEW i \in 1..Len(tape), tape[i] = id
  PROVE  Len(tape) + 1 - i > SeenLimit
<1> DEFINE n == Len(tape)
           first == IF n > SeenLimit THEN n - SeenLimit + 1 ELSE 1
<1>1. n \in Nat /\ SeenLimit \in Nat \ {0}
  BY Bounds, DepthAssumption
<1>2. first \in Nat /\ first >= 1 /\ first <= n + 1
  BY <1>1
<1>3. SUFFICES ASSUME i >= first PROVE FALSE
  BY <1>1
<1>4. i - first + 1 \in 1..(n - first + 1)
  BY <1>1, <1>2, <1>3
<1>5. DOMAIN SubSeq(tape, first, n) = 1..(n - first + 1)
  <2>1. \A x \in first..n : tape[x] \in 1..MaxTrades
    <3>1. \A x \in 1..n : tape[x] \in 1..MaxTrades
      BY ElementOfSeq
    <3>2. QED
      BY <1>2, <3>1
  <2>2. SubSeq(tape, first, n) \in Seq(1..MaxTrades) /\ Len(SubSeq(tape, first, n)) = n - first + 1
    <3>. HIDE DEF n, first
    <3>1. QED
      BY <1>1, <1>2, <2>1, SubSeqProperties
  <2>3. QED
    BY <2>2
<1>6. SubSeq(tape, first, n)[i - first + 1] = id
  BY <1>1, <1>2, <1>4
<1>7. Seen = {SubSeq(tape, first, n)[x] : x \in DOMAIN SubSeq(tape, first, n)}
  BY DEF Seen, LastOf, ToSet
<1>8. QED
  BY <1>4, <1>5, <1>6, <1>7

LEMMA TapeKeeps ==
  ASSUME DepthInv, TradesOnce, [DepthNext]_depthVars
  PROVE  TradesOnce'
<1>1. CASE tape' = tape
  BY <1>1 DEF TradesOnce
<1>2. CASE tape' = <<>>
  BY <1>2 DEF TradesOnce
<1>3. CASE TakeDeals
  <2>1. deals \in Nat /\ Deals \in Nat \ {0}
    BY DepthAssumption DEF DepthInv, DepthTypeOK
  <2>2. \A i, j \in DOMAIN tape' : tape'[i] = tape'[j] => i = j
    BY <1>3, <2>1, DealsAreDistinct DEF TakeDeals
  <2>3. DOMAIN tape' \subseteq Nat
    <3>1. [d \in 1..deals |-> d] \in Seq(1..deals)
      BY <2>1
    <3>2. tape' \in Seq(1..deals)
      BY <1>3, <2>1, <3>1, LastOfIsTyped DEF TakeDeals
    <3>3. QED
      BY <3>2
  <2>4. QED
    BY <2>2, <2>3 DEF TradesOnce
<1>4. CASE ReceiveDeal /\ tape' # tape
  <2>1. tape \in Seq(1..MaxTrades)
    BY DEF DepthInv, DepthTypeOK
  <2>2. PICK id \in 1..MaxTrades \ Seen : tape' = Append(tape, id)
    BY <1>4, ReceivedFrame DEF ReceiveDeal, Frame
  <2>3. DOMAIN tape' = 1..(Len(tape) + 1) /\ Len(tape) \in Nat
    BY <2>1, <2>2
  <2>4. tape'[Len(tape) + 1] = id /\ \A i \in 1..Len(tape) : tape'[i] = tape[i]
    BY <2>1, <2>2
  <2>5. SUFFICES ASSUME NEW i \in DOMAIN tape', NEW j \in DOMAIN tape', i < j, tape'[i] = tape'[j]
                 PROVE  j - i > SeenLimit
    BY DEF TradesOnce
  <2>6. CASE j = Len(tape) + 1
    <3>1. i \in 1..Len(tape) /\ tape[i] = id
      BY <2>3, <2>4, <2>5, <2>6
    <3>2. QED
      BY <2>1, <2>6, <3>1, SeenAreTheLast
  <2>7. CASE j # Len(tape) + 1
    <3>1. i \in 1..Len(tape) /\ j \in 1..Len(tape) /\ tape[i] = tape[j]
      BY <2>3, <2>4, <2>5, <2>7
    <3>2. DOMAIN tape = 1..Len(tape)
      BY <2>1
    <3>3. QED
      BY <2>5, <3>1, <3>2 DEF TradesOnce
  <2>8. QED
    BY <2>6, <2>7
<1>5. tape' = tape \/ tape' = <<>> \/ TakeDeals \/ ReceiveDeal
  BY DEF DepthNext, Exchange, Produce, Receive, ExchangeMoves, ExchangeTrades, Acknowledge, PushDepth,
         PushDeal, Connect, TakeSnapshot, ReceiveAck, ReceiveEarly, ReceiveStale, ReceiveDepth,
         ReceiveGap, PublishSnapshot, Bridge, BridgeIncomplete, Break, StopStream, Fresh, Disconnect,
         depthVars
<1>6. QED
  BY <1>1, <1>2, <1>3, <1>4, <1>5

(* No book is on display in a gap, and no trade is emitted again while its id is     *)
(* remembered, however many trades REST and the socket both carry.                   *)
THEOREM DisplayStaysHonest == DepthSpec => []DisplayIsHonest
<1>1. DepthInit => TradesOnce
  BY DEF DepthInit, TradesOnce
<1>2. DepthInv /\ TradesOnce /\ [DepthNext]_depthVars => TradesOnce'
  BY TapeKeeps
<1>3. DepthInv => DepthTypeOK /\ NothingShownInGap
  BY DEF DepthInv
<1>4. QED
  BY <1>1, <1>2, <1>3, DepthInvHolds, PTL DEF DepthSpec, DisplayIsHonest

(* The stream keeps the feed's promise: what is lost, merged, late or bridged never   *)
(* puts on display a book the exchange did not have, nor an earlier one after a later.*)
THEOREM DepthImplementsFeed == DepthSpec => ImplementsFeed
<1>1. DepthInit => Feed!FeedInit
  BY DEF DepthInit
<1>2. DepthInv /\ [DepthNext]_depthVars => [Feed!FeedNext]_(Feed!feedVars)
  BY EveryStep
<1>3. QED
  BY <1>1, <1>2, DepthInvHolds, PTL DEF DepthSpec, ImplementsFeed, Feed!FeedSpec

-----------------------------------------------------------------------------
(***************************************************************************)
(* RecoveryRuns: rows are only added, so what a run found missing bounds   *)
(* what is missing later, and a result that is a success was one when it   *)
(* was formed (FoundHolds).                                                *)
(***************************************************************************)

(* The least of three numbers is one of them. *)
LEMMA MinOfThree ==
  ASSUME NEW a \in Nat, NEW b \in Nat, NEW c \in Nat
  PROVE  Min({a, b, c}) \in Nat /\ Min({a, b, c}) <= a /\ Min({a, b, c}) <= b /\ Min({a, b, c}) <= c
<1>1. {a, b, c} \in SUBSET Nat /\ {a, b, c} # {}
  OBVIOUS
<1>2. PICK x \in {a, b, c} : \A y \in {a, b, c} : x <= y
  BY ONLY <1>1, LeastExists, Zenon
<1>3. Min({a, b, c}) \in {a, b, c} /\ \A y \in {a, b, c} : Min({a, b, c}) <= y
  BY <1>2 DEF Min
<1>. QED
  BY <1>3

LEMMA OrderIsTyped ==
  ASSUME NEW wanted \in SUBSET Target, NEW last \in 0..N
  PROVE  InTurn(wanted, last) \in Seq(Target)
<1>1. N \in Nat /\ IsFiniteSet(wanted)
  <2>1. N \in Nat
    BY RecoveryAssumption
  <2>2. IsFiniteSet(Target)
    BY <2>1, FS_Interval DEF Target
  <2>. QED
    BY <2>1, <2>2, FS_Subset
<1> DEFINE rank == [t \in Target |-> Turn(t, last)]
           n == Cardinality(wanted)
<1>2. n \in Nat
  BY <1>1, FS_CardinalityType
<1>3. /\ \A t \in wanted : rank[t] \in Nat
      /\ \A a, b \in wanted : rank[a] = rank[b] => a = b
  BY <1>1 DEF Turn, Target
<1>4. PICK s \in [1..n -> wanted] : \A i, j \in 1..n : i < j => rank[s[i]] < rank[s[j]]
  BY ONLY <1>1, <1>3, RankedOrderExists, Zenon
<1>5. \A i, j \in DOMAIN s : i < j => Turn(s[i], last) < Turn(s[j], last)
  BY <1>4
<1>6. InTurn(wanted, last) \in [1..n -> wanted]
  BY <1>4, <1>5 DEF InTurn
<1>. QED
  BY <1>2, <1>6, SeqDef

LEMMA WorkIsTyped ==
  ASSUME RecoveryTypeOK
  PROVE  Work \in Seq(Target \X {"current", "recent", "all"})
<1> DEFINE Entries == Target \X {"current", "recent", "all"}
<1>1. \A order \in Seq(Target), p \in {"current", "recent", "all"} : ForEach(order, p) \in Seq(Entries)
  BY SeqDef DEF ForEach
<1>2. N \in Nat \ {0} /\ cursor.all \in 0..N /\ cursor["current"] \in 0..N /\ cursor["recent"] \in 0..N
  BY RecoveryAssumption DEF RecoveryTypeOK
<1>3. FullWork \in Seq(Entries)
  <2>1. InTurn({t \in Target : Missing(t) # {}}, cursor.all) \in Seq(Target)
    BY <1>2, OrderIsTyped
  <2>. QED
    BY <1>1, <2>1 DEF FullWork
<1>4. \A p \in {"current", "recent"} : PriorityWork(p) \in Seq(Entries)
  <2>1. \A p \in {"current", "recent"} : InTurn({t \in Target : Calls(p, t)}, cursor[p]) \in Seq(Target)
    BY <1>2, OrderIsTyped
  <2>. QED
    BY <1>1, <2>1 DEF PriorityWork
<1>5. PriorityWork("current") \o PriorityWork("recent") \in Seq(Entries)
  BY <1>4, ConcatProperties
<1>. QED
  BY <1>3, <1>5 DEF Work

LEMMA PriorityRange == Range(Priority) \cup {"all"} = {"current", "recent", "all"}
  BY DEF Range, Priority

-----------------------------------------------------------------------------

AllPresent == \A t \in Target : Missing(t) = {}

(* What a run has found stays true while others insert. *)
FoundHolds ==
  /\ runStage \in {"serve", "rescan"} =>
       \A t \in Target : before[t] \in SUBSET Minute /\ Missing(t) \subseteq before[t]
  /\ runStage \in {"finish", "publish"} =>
       result \in {"succeeded", "partial"} /\ (result = "succeeded" => AllPresent)

(* A run that is under way has its state file, a file of a completed run has one beside it. *)
FilesHold ==
  /\ runStage # "idle" => state # Nothing
  /\ completed # Nothing => state # Nothing
  /\ runStage = "publish" => runRow # "running"

RecoveryInv ==
  /\ RecoveryTypeOK
  /\ \A t \in Target : generation[t] <= changes
  /\ FoundHolds /\ FilesHold /\ SuccessIsTrue /\ FilesAreLinked /\ RunRowsEnd

IsTrue(file) == file # Nothing /\ file.execution = "succeeded" => AllPresent

LEMMA SuccessOfBoth == SuccessIsTrue <=> IsTrue(state) /\ IsTrue(completed)
  BY DEF SuccessIsTrue, IsTrue, AllPresent

LEMMA RecoveryInitHolds == RecoveryInit => RecoveryInv
<1>. SUFFICES ASSUME RecoveryInit PROVE RecoveryInv
  OBVIOUS
<1>1. RecoveryTypeOK
  <2>1. work \in Seq(Target \X (Range(Priority) \cup {"all"}))
    BY EmptySeq DEF RecoveryInit
  <2>2. cursor \in [all: 0..N - 1, current: 0..N, recent: 0..N]
    BY RecoveryAssumption DEF RecoveryInit, NoCursor
  <2>4. MaxChanges \in Nat /\ MaxFaults \in Nat /\ MaxDeaths \in Nat /\ Requests \in Nat
    BY RecoveryAssumption
  <2>3. /\ 0 \in 0..MaxChanges /\ 0 \in 0..MaxFaults /\ 0 \in 0..MaxDeaths /\ 0 \in 0..Requests
    BY <2>4
  <2>5. /\ generation \in [Target -> 0..MaxChanges] /\ roster \in [Target -> 0..MaxChanges]
        /\ before \in [Target -> (SUBSET Minute) \cup {Nothing}]
    <3>1. generation = [t \in Target |-> 0] /\ roster = generation /\ before = [t \in Target |-> Nothing]
      BY DEF RecoveryInit
    <3>2. before \in [Target -> (SUBSET Minute) \cup {Nothing}]
      BY ONLY <3>1, Zenon
    <3>3. generation \in [Target -> 0..MaxChanges]
      BY ONLY <3>1, <2>3, Zenon
    <3>. QED
      BY <3>1, <3>2, <3>3
  <2>6. lane \in Lane /\ rows \subseteq Target \X Minute /\ {late, exhausted} \subseteq BOOLEAN
    BY DEF RecoveryInit
  <2>. QED
    BY <2>1, <2>2, <2>3, <2>5, <2>6 DEF RecoveryInit, RecoveryTypeOK
<1>2. FoundHolds /\ FilesHold /\ FilesAreLinked
  BY DEF RecoveryInit, FoundHolds, FilesHold, FilesAreLinked
<1>5. RunRowsEnd
  BY NothingIsNoStatus DEF RecoveryInit, RunRowsEnd, Execution
<1>3. SuccessIsTrue
  BY DEF RecoveryInit, SuccessIsTrue
<1>4. \A t \in Target : generation[t] <= changes
  BY DEF RecoveryInit
<1>. QED
  BY <1>1, <1>2, <1>3, <1>4, <1>5 DEF RecoveryInv

(* Minutes that are present stay present. *)
LEMMA PresenceGrows ==
  ASSUME rows \subseteq rows'
  PROVE  /\ \A t \in Target : Missing(t)' \subseteq Missing(t)
         /\ AllPresent => AllPresent'
  BY DEF Missing, AllPresent

(* A step that leaves the run where it is and its files and row alone. *)
LEMMA QuietStepKeeps ==
  ASSUME RecoveryInv, RecoveryTypeOK', \A t \in Target : generation'[t] <= changes',
         rows \subseteq rows', faults <= faults',
         UNCHANGED <<runStage, before, result, runRow, state, completed, deaths>>
  PROVE  RecoveryInv'
<1>1. FoundHolds'
  BY PresenceGrows DEF RecoveryInv, FoundHolds
<1>2. FilesHold' /\ RunRowsEnd'
  BY DEF RecoveryInv, FilesHold, RunRowsEnd
<1>3. FilesAreLinked'
  <2>1. faults' = 0 => faults = 0
    BY DEF RecoveryInv, RecoveryTypeOK
  <2>. QED
    BY <2>1 DEF RecoveryInv, FilesAreLinked
<1>4. SuccessIsTrue'
  BY PresenceGrows, SuccessOfBoth DEF RecoveryInv, IsTrue, SuccessIsTrue, AllPresent
<1>. QED
  BY <1>1, <1>2, <1>3, <1>4 DEF RecoveryInv

LEMMA DefinitionChangesKeeps ==
  ASSUME RecoveryInv, NEW t \in Target, DefinitionChanges(t)
  PROVE  RecoveryInv'
<1>. USE DEF dbVars, runVars, memoryVars, fileVars, boundVars
<1>1. rows' \subseteq Target \X Minute
  BY DEF RecoveryInv, RecoveryTypeOK, DefinitionChanges
<1>2. /\ generation' \in [Target -> 0..MaxChanges] /\ changes' \in 0..MaxChanges
      /\ \A u \in Target : generation'[u] <= changes'
  <2>1. changes \in 0..MaxChanges /\ changes < MaxChanges /\ MaxChanges \in Nat
    BY RecoveryAssumption DEF RecoveryInv, RecoveryTypeOK, DefinitionChanges
  <2>. QED
    BY <2>1 DEF RecoveryInv, RecoveryTypeOK, DefinitionChanges
<1>3. RecoveryTypeOK'
  BY <1>1, <1>2 DEF RecoveryInv, RecoveryTypeOK, DefinitionChanges
<1>4. /\ rows \subseteq rows' /\ faults <= faults'
      /\ UNCHANGED <<runStage, before, result, runRow, state, completed, deaths>>
  BY DEF RecoveryInv, RecoveryTypeOK, DefinitionChanges
<1>. QED
  BY ONLY <1>2, <1>3, <1>4, RecoveryInv, QuietStepKeeps

LEMMA CooldownEndsKeeps ==
  ASSUME RecoveryInv, NEW venue \in Venue, CooldownEnds(venue)
  PROVE  RecoveryInv'
<1>. USE DEF dbVars, runVars, memoryVars, fileVars, boundVars
<1>1. RecoveryTypeOK'
  BY DEF RecoveryInv, RecoveryTypeOK, CooldownEnds
<1>2. /\ rows \subseteq rows' /\ faults <= faults' /\ \A t \in Target : generation'[t] <= changes'
      /\ UNCHANGED <<runStage, before, result, runRow, state, completed, deaths>>
  BY DEF RecoveryInv, RecoveryTypeOK, CooldownEnds
<1>. QED
  BY ONLY <1>1, <1>2, RecoveryInv, QuietStepKeeps

LEMMA BeginRunKeeps ==
  ASSUME RecoveryInv, BeginRun
  PROVE  RecoveryInv'
<1>. USE DEF dbVars, runVars, memoryVars, fileVars, boundVars
<1>1. run' \in 0..2
  BY DEF RecoveryInv, RecoveryTypeOK, BeginRun
<1>2. state' \in File
  <2>1. completed # Nothing => completed.run \in 0..2
    BY DEF RecoveryInv, RecoveryTypeOK, File
  <2>. QED
    BY <1>1, <2>1 DEF BeginRun, File, Execution
<1>3. RecoveryTypeOK'
  BY <1>1, <1>2 DEF RecoveryInv, RecoveryTypeOK, BeginRun
<1>4. state' # Nothing
  BY <1>2, NothingIsNoFile
<1>5. state'.execution = "running" /\ (completed # Nothing => completed.run = state'.previous)
  BY DEF BeginRun
<1>6. FoundHolds' /\ FilesHold' /\ RunRowsEnd'
  BY <1>4 DEF BeginRun, FoundHolds, FilesHold, RunRowsEnd
<1>7. FilesAreLinked'
  BY <1>5 DEF BeginRun, FilesAreLinked
<1>8. SuccessIsTrue'
  <2>1. AllPresent' <=> AllPresent
    BY DEF AllPresent, Missing, BeginRun
  <2>2. IsTrue(completed)' /\ IsTrue(state)'
    BY <1>5, <2>1, SuccessOfBoth DEF BeginRun, IsTrue, RecoveryInv
  <2>. QED
    BY <2>1, <2>2 DEF IsTrue, SuccessIsTrue, AllPresent
<1>. QED
  BY <1>3, <1>6, <1>7, <1>8 DEF RecoveryInv, RecoveryTypeOK, BeginRun

LEMMA StartKeeps ==
  ASSUME RecoveryInv, Start
  PROVE  RecoveryInv'
<1>. USE DEF dbVars, runVars, memoryVars, fileVars, boundVars
<1>1. Requests \in 0..Requests
  BY RecoveryAssumption
<1>2. RecoveryTypeOK'
  BY <1>1 DEF RecoveryInv, RecoveryTypeOK, Start, Execution
<1>3. FoundHolds' /\ FilesHold' /\ RunRowsEnd' /\ FilesAreLinked'
  BY DEF RecoveryInv, Start, FoundHolds, FilesHold, RunRowsEnd, FilesAreLinked
<1>4. SuccessIsTrue'
  BY DEF RecoveryInv, Start, SuccessIsTrue, Missing
<1>. QED
  BY <1>2, <1>3, <1>4 DEF RecoveryInv, Start

LEMMA ScanKeeps ==
  ASSUME RecoveryInv, Scan
  PROVE  RecoveryInv'
<1>. USE DEF dbVars, runVars, memoryVars, fileVars, boundVars
<1>1. work' \in Seq(Target \X (Range(Priority) \cup {"all"}))
  BY WorkIsTyped, PriorityRange DEF RecoveryInv, Scan
<1>2. before' \in [Target -> SUBSET Minute]
  BY DEF Scan, Missing
<1>3. RecoveryTypeOK'
  BY <1>1, <1>2 DEF RecoveryInv, RecoveryTypeOK, Scan
<1>4. FoundHolds'
  BY <1>2 DEF Scan, FoundHolds, Missing
<1>5. FilesHold' /\ RunRowsEnd' /\ FilesAreLinked'
  BY DEF RecoveryInv, Scan, FilesHold, RunRowsEnd, FilesAreLinked
<1>6. SuccessIsTrue'
  BY DEF RecoveryInv, Scan, SuccessIsTrue, Missing
<1>. QED
  BY <1>3, <1>4, <1>5, <1>6 DEF RecoveryInv, Scan

(* The first entry of the work. *)
LEMMA FirstEntry ==
  ASSUME RecoveryTypeOK, work # <<>>
  PROVE  /\ Target1 \in Target /\ Priority1 \in {"current", "recent", "all"}
         /\ Tail(work) \in Seq(Target \X (Range(Priority) \cup {"all"}))
<1>1. work \in Seq(Target \X {"current", "recent", "all"})
  BY PriorityRange DEF RecoveryTypeOK
<1>2. work[1] \in Target \X {"current", "recent", "all"}
  BY <1>1
<1>3. Tail(work) \in Seq(Target \X {"current", "recent", "all"})
  BY <1>1
<1>. QED
  BY <1>2, <1>3, PriorityRange DEF Target1, Priority1

LEMMA CursorIsTyped ==
  ASSUME RecoveryTypeOK, work # <<>>, NEW served \in BOOLEAN
  PROVE  After(Target1, served) \in [all: 0..N - 1, current: 0..N, recent: 0..N]
<1>1. Target1 \in 1..N /\ N \in Nat /\ N # 0
  BY FirstEntry, RecoveryAssumption DEF Target
<1>2. Target1 % N \in 0..N - 1 /\ Target1 - 1 \in 0..N - 1 /\ Target1 \in 0..N
  BY <1>1
<1>3. cursor \in [all: 0..N - 1, current: 0..N, recent: 0..N]
  BY DEF RecoveryTypeOK
<1>4. CASE Priority1 = "all"
  BY <1>2, <1>3, <1>4 DEF After
<1>5. CASE Priority1 = "current"
  BY <1>2, <1>3, <1>5 DEF After
<1>6. CASE Priority1 = "recent"
  BY <1>2, <1>3, <1>6 DEF After
<1>. QED
  BY <1>4, <1>5, <1>6, FirstEntry

LEMMA SkipKeeps ==
  ASSUME RecoveryInv, Skip
  PROVE  RecoveryInv'
<1>. USE DEF dbVars, runVars, memoryVars, fileVars, boundVars
<1>1. work' \in Seq(Target \X (Range(Priority) \cup {"all"})) /\ deferred' \subseteq Target
  BY FirstEntry DEF RecoveryInv, RecoveryTypeOK, Skip
<1>2. RecoveryTypeOK'
  BY <1>1 DEF RecoveryInv, RecoveryTypeOK, Skip
<1>3. /\ rows \subseteq rows' /\ faults <= faults' /\ \A t \in Target : generation'[t] <= changes'
      /\ UNCHANGED <<runStage, before, result, runRow, state, completed, deaths>>
  BY DEF RecoveryInv, RecoveryTypeOK, Skip
<1>. QED
  BY ONLY <1>2, <1>3, RecoveryInv, QuietStepKeeps

(* What a target is asked for is missing, and was missing at the scan or is now. *)
LEMMA WantedIsBounded ==
  ASSUME RecoveryInv, runStage = "serve", NEW t \in Target
  PROVE  Wanted(t) \in SUBSET Minute /\ IsFiniteSet(Wanted(t)) /\ Cardinality(Wanted(t)) \in Nat
<1>1. Wanted(t) \in SUBSET Minute
  BY DEF RecoveryInv, FoundHolds, Wanted, Missing
<1>2. IsFiniteSet(Minute)
  <2>1. 1 \in Int /\ LastMinute \in Int
    BY RecoveryAssumption
  <2>2. IsFiniteSet(1..LastMinute)
    BY <2>1, FS_Interval
  <2>. QED
    BY <2>2 DEF Minute
<1>. QED
  BY <1>1, <1>2, FS_Subset, FS_CardinalityType

LEMMA ServeKeeps ==
  ASSUME RecoveryInv, NEW got \in SUBSET Minute, Serve(got)
  PROVE  RecoveryInv'
<1>. USE DEF dbVars, runVars, memoryVars, fileVars, boundVars
<1> DEFINE t == Target1
           wanted == Wanted(t)
           pages == Min({Cardinality(wanted), Pages, workLeft})
<1>1. /\ t \in Target /\ wanted \in SUBSET Minute
      /\ work' \in Seq(Target \X (Range(Priority) \cup {"all"}))
  BY FirstEntry, WantedIsBounded DEF RecoveryInv, Serve, PageCount
<1>2. pages \in Nat /\ pages <= workLeft /\ workLeft \in Nat /\ workLeft' = workLeft - pages
  <2>1. Pages \in Nat /\ workLeft \in Nat
    BY RecoveryAssumption DEF RecoveryInv, RecoveryTypeOK
  <2>3. runStage = "serve"
    BY DEF Serve, PageCount
  <2>4. Cardinality(wanted) \in Nat
    BY ONLY RecoveryInv, <1>1, <2>3, WantedIsBounded
  <2>2. workLeft' = workLeft - pages
    BY DEF Serve, PageCount
  <2>. QED
    BY ONLY <2>1, <2>2, <2>4, MinOfThree
<1>3. workLeft' \in 0..Requests
  <2>1. workLeft \in 0..Requests
    BY DEF RecoveryInv, RecoveryTypeOK
  <2>. QED
    BY ONLY <1>2, <2>1, RecoveryAssumption
<1>4. rows \subseteq rows' /\ rows' \subseteq Target \X Minute
  BY <1>1 DEF RecoveryInv, RecoveryTypeOK, Serve, PageCount
<1>5. cursor' \in [all: 0..N - 1, current: 0..N, recent: 0..N]
  <2>1. cursor' = After(t, TRUE) \/ cursor' = After(t, pages > 0)
    BY DEF Serve, PageCount, NextCursor
  <2>2. (pages > 0) \in BOOLEAN
    OBVIOUS
  <2>. QED
    BY <2>1, <2>2, CursorIsTyped DEF RecoveryInv, Serve, PageCount
<1>6. before' \in [Target -> (SUBSET Minute) \cup {Nothing}]
      /\ \A u \in Target : before'[u] \in SUBSET Minute /\ before[u] \subseteq before'[u]
  <2>1. before \in [Target -> (SUBSET Minute) \cup {Nothing}] /\ \A u \in Target : before[u] \in SUBSET Minute
    BY DEF RecoveryInv, RecoveryTypeOK, FoundHolds, Serve, PageCount
  <2>2. before' = [before EXCEPT ![t] = @ \cup wanted]
    BY DEF Serve, PageCount
  <2>. QED
    BY ONLY <1>1, <2>1, <2>2
<1>7. errors' \subseteq Target /\ deferred' \subseteq Target /\ askedOf' \subseteq Target
  BY <1>1 DEF RecoveryInv, RecoveryTypeOK, Serve, PageCount
<1>8. exhausted' \in BOOLEAN /\ UNCHANGED late
  BY DEF Serve, PageCount
<1>9. RecoveryTypeOK'
  BY <1>1, <1>3, <1>4, <1>5, <1>6, <1>7, <1>8 DEF RecoveryInv, RecoveryTypeOK, Serve, PageCount
<1>10. FoundHolds'
  <2>1. \A u \in Target : Missing(u)' \subseteq before'[u]
    BY <1>4, <1>6, PresenceGrows DEF RecoveryInv, FoundHolds, Serve, PageCount
  <2>. QED
    BY <1>6, <2>1 DEF FoundHolds, Serve, PageCount
<1>11. FilesHold' /\ RunRowsEnd' /\ FilesAreLinked'
  BY DEF RecoveryInv, Serve, PageCount, FilesHold, RunRowsEnd, FilesAreLinked
<1>12. SuccessIsTrue'
  <2>1. UNCHANGED <<state, completed>>
    BY DEF Serve, PageCount
  <2>. QED
    BY <1>4, <2>1, PresenceGrows DEF RecoveryInv, SuccessIsTrue, AllPresent
<1>. QED
  BY <1>9, <1>10, <1>11, <1>12 DEF RecoveryInv, Serve, PageCount

LEMMA ServeFailsKeeps ==
  ASSUME RecoveryInv, NEW limited \in BOOLEAN, ServeFails(limited)
  PROVE  RecoveryInv'
<1>. USE DEF dbVars, runVars, memoryVars, fileVars, boundVars
<1>1. /\ Target1 \in Target /\ VenueOf[Target1] \in Venue
      /\ work' \in Seq(Target \X (Range(Priority) \cup {"all"}))
  BY FirstEntry DEF RecoveryInv, ServeFails, Venue
<1>2. cursor' \in [all: 0..N - 1, current: 0..N, recent: 0..N]
  BY CursorIsTyped DEF RecoveryInv, ServeFails
<1>3. faults' \in 0..MaxFaults /\ faults <= faults'
  BY RecoveryAssumption, SMTT(30) DEF RecoveryInv, RecoveryTypeOK, ServeFails, Fails
<1>4. workLeft' \in 0..Requests
  BY RecoveryAssumption DEF RecoveryInv, RecoveryTypeOK, ServeFails
<1>5. RecoveryTypeOK'
  BY <1>1, <1>2, <1>3, <1>4 DEF RecoveryInv, RecoveryTypeOK, ServeFails
<1>6. /\ rows \subseteq rows' /\ faults <= faults' /\ \A t \in Target : generation'[t] <= changes'
      /\ UNCHANGED <<runStage, before, result, runRow, state, completed, deaths>>
  BY <1>3 DEF RecoveryInv, RecoveryTypeOK, ServeFails
<1>. QED
  BY ONLY <1>5, <1>6, RecoveryInv, QuietStepKeeps

LEMMA DeadlineKeeps ==
  ASSUME RecoveryInv, Deadline
  PROVE  RecoveryInv'
<1>. USE DEF dbVars, runVars, memoryVars, fileVars, boundVars
<1>1. faults' \in 0..MaxFaults /\ faults <= faults'
  BY RecoveryAssumption, SMTT(30) DEF RecoveryInv, RecoveryTypeOK, Deadline, Fails
<1>2. workLeft' \in 0..Requests
  BY RecoveryAssumption DEF Deadline
<1>3. RecoveryTypeOK'
  BY <1>1, <1>2 DEF RecoveryInv, RecoveryTypeOK, Deadline
<1>4. /\ rows \subseteq rows' /\ faults <= faults' /\ \A t \in Target : generation'[t] <= changes'
      /\ UNCHANGED <<runStage, before, result, runRow, state, completed, deaths>>
  BY <1>1 DEF RecoveryInv, RecoveryTypeOK, Deadline
<1>. QED
  BY ONLY <1>3, <1>4, RecoveryInv, QuietStepKeeps

LEMMA ServeEndsKeeps ==
  ASSUME RecoveryInv, ServeEnds
  PROVE  RecoveryInv'
<1>. USE DEF dbVars, runVars, memoryVars, fileVars, boundVars
<1>1. RecoveryTypeOK'
  BY DEF RecoveryInv, RecoveryTypeOK, ServeEnds
<1>2. FoundHolds' /\ FilesHold' /\ RunRowsEnd' /\ FilesAreLinked'
  BY DEF RecoveryInv, ServeEnds, FoundHolds, FilesHold, RunRowsEnd, FilesAreLinked, Missing
<1>3. SuccessIsTrue'
  BY DEF RecoveryInv, ServeEnds, SuccessIsTrue, Missing
<1>. QED
  BY <1>1, <1>2, <1>3 DEF RecoveryInv, ServeEnds

(* A run that calls itself a success has seen that nothing was missing. *)
LEMMA RescanKeeps ==
  ASSUME RecoveryInv, Rescan
  PROVE  RecoveryInv'
<1>. USE DEF dbVars, runVars, memoryVars, fileVars, boundVars
<1>1. result' \in {"succeeded", "partial"} /\ deferred' \subseteq Target
  BY DEF RecoveryInv, RecoveryTypeOK, Rescan, Verdict, Unscanned
<1>2. RecoveryTypeOK'
  BY <1>1 DEF RecoveryInv, RecoveryTypeOK, Rescan, Verdict, Unscanned
<1>3. result' = "succeeded" => AllPresent
  <2>1. SUFFICES ASSUME result' = "succeeded", NEW t \in Target PROVE Missing(t) = {}
    BY DEF AllPresent
  <2>2. Remaining(t) = {}
    BY <2>1 DEF Rescan, Verdict, Unscanned
  <2>3. Missing(t) \subseteq before[t]
    BY DEF RecoveryInv, FoundHolds, Rescan, Verdict, Unscanned
  <2>. QED
    BY <2>2, <2>3 DEF Remaining
<1>4. FoundHolds'
  BY <1>1, <1>3 DEF Rescan, Verdict, Unscanned, FoundHolds, AllPresent, Missing
<1>5. FilesHold' /\ RunRowsEnd' /\ FilesAreLinked'
  BY DEF RecoveryInv, Rescan, Verdict, Unscanned, FilesHold, RunRowsEnd, FilesAreLinked
<1>6. SuccessIsTrue'
  BY DEF RecoveryInv, Rescan, Verdict, Unscanned, SuccessIsTrue, Missing
<1>. QED
  BY <1>2, <1>4, <1>5, <1>6 DEF RecoveryInv, Rescan, Verdict, Unscanned

LEMMA FinishKeeps ==
  ASSUME RecoveryInv, Finish
  PROVE  RecoveryInv'
<1>. USE DEF dbVars, runVars, memoryVars, fileVars, boundVars
<1>1. runRow' \in Execution \cup {Nothing} /\ runRow' # "running"
  BY DEF RecoveryInv, RecoveryTypeOK, FoundHolds, Finish, Closed, Execution
<1>2. RecoveryTypeOK'
  BY <1>1 DEF RecoveryInv, RecoveryTypeOK, Finish
<1>3. FoundHolds'
  BY DEF RecoveryInv, Finish, FoundHolds, AllPresent, Missing
<1>4. FilesHold' /\ RunRowsEnd' /\ FilesAreLinked'
  BY <1>1 DEF RecoveryInv, Finish, FilesHold, RunRowsEnd, FilesAreLinked
<1>5. SuccessIsTrue'
  BY DEF RecoveryInv, Finish, SuccessIsTrue, Missing
<1>. QED
  BY <1>2, <1>3, <1>4, <1>5 DEF RecoveryInv, Finish

(* What RunForgotten leaves behind. *)
LEMMA ForgottenIsTyped ==
  ASSUME RunForgotten
  PROVE  /\ before' \in [Target -> (SUBSET Minute) \cup {Nothing}] /\ roster' \in [Target -> 0..MaxChanges]
         /\ work' \in Seq(Target \X (Range(Priority) \cup {"all"}))
         /\ workLeft' \in 0..Requests /\ {late, exhausted}' \subseteq BOOLEAN
         /\ errors' \subseteq Target /\ deferred' \subseteq Target /\ askedOf' \subseteq Target
         /\ result' \in {"succeeded", "partial", Nothing}
<1>1. 0 \in 0..MaxChanges /\ 0 \in 0..Requests
  BY RecoveryAssumption
<1>2. before' = [t \in Target |-> Nothing] /\ roster' = [t \in Target |-> 0] /\ work' = <<>>
  BY DEF RunForgotten
<1>3. before' \in [Target -> (SUBSET Minute) \cup {Nothing}]
  BY ONLY <1>2, Zenon
<1>4. roster' \in [Target -> 0..MaxChanges]
  BY ONLY <1>1, <1>2, Zenon
<1>5. work' \in Seq(Target \X (Range(Priority) \cup {"all"}))
  BY <1>2, EmptySeq
<1>. QED
  BY <1>1, <1>3, <1>4, <1>5 DEF RunForgotten

LEMMA EndedIsTyped ==
  ASSUME RecoveryInv, runStage # "idle", NEW status \in {"succeeded", "partial", "failed"}
  PROVE  /\ Ended(status) \in File /\ Ended(status) # Nothing
         /\ Ended(status).execution = status /\ Ended(status).run = state.run
         /\ Ended(status).previous = state.previous
<1>1. state \in File
  BY DEF RecoveryInv, RecoveryTypeOK, FilesHold
<1>2. Ended(status) \in File
  BY <1>1 DEF Ended, File, Execution
<1>3. /\ Ended(status).execution = status /\ Ended(status).run = state.run
      /\ Ended(status).previous = state.previous
  BY <1>1 DEF Ended, File
<1>. QED
  BY <1>2, <1>3, NothingIsNoFile

LEMMA CursorStartsTyped == NoCursor \in [all: 0..N - 1, current: 0..N, recent: 0..N]
  BY RecoveryAssumption DEF NoCursor

LEMMA PublishRunKeeps ==
  ASSUME RecoveryInv, Publish
  PROVE  RecoveryInv'
<1>. USE DEF dbVars, runVars, memoryVars, fileVars, boundVars
<1>1. runStage = "publish" /\ result \in {"succeeded", "partial"} /\ runRow # "running" /\ state # Nothing
  BY DEF RecoveryInv, FoundHolds, FilesHold, Publish
<1>2. /\ Ended(result) \in File /\ Ended(result) # Nothing
      /\ Ended(result).execution = result /\ Ended(result).run = state.run
      /\ Ended(result).previous = state.previous
  <2>1. runStage # "idle" /\ result \in {"succeeded", "partial", "failed"}
    BY <1>1
  <2>. QED
    BY ONLY <2>1, RecoveryInv, EndedIsTyped
<1>3. completed' = Ended(result) /\ runStage' = "idle" /\ UNCHANGED <<lane, rows, generation, runRow, run, changes, faults>>
  BY DEF Publish, Published, Idle
<1>4. \/ state' = Ended(result) /\ UNCHANGED <<cursor, cooling, deaths>>
      \/ deaths < MaxDeaths /\ deaths' = deaths + 1 /\ cursor' = NoCursor /\ cooling' = {} /\ UNCHANGED state
  BY DEF Publish
<1>5. RecoveryTypeOK'
  <2>1. deaths' \in 0..MaxDeaths
    BY <1>4, RecoveryAssumption, SMTT(30) DEF RecoveryInv, RecoveryTypeOK
  <2>2. /\ cursor' \in [all: 0..N - 1, current: 0..N, recent: 0..N] /\ cooling' \subseteq Venue
        /\ state' \in File \cup {Nothing}
    BY <1>2, <1>4, CursorStartsTyped DEF RecoveryInv, RecoveryTypeOK
  <2>3. RunForgotten
    BY DEF Publish, Idle
  <2>. QED
    BY <1>2, <1>3, <2>1, <2>2, <2>3, ForgottenIsTyped DEF RecoveryInv, RecoveryTypeOK
<1>6. FoundHolds' /\ FilesHold'
  BY <1>1, <1>2, <1>3, <1>4 DEF FoundHolds, FilesHold
<1>7. RunRowsEnd'
  BY <1>1, <1>3 DEF RunRowsEnd
<1>8. FilesAreLinked'
  <2>1. deaths \in Nat
    BY DEF RecoveryInv, RecoveryTypeOK
  <2>2. deaths' = 0 => state' = Ended(result)
    BY <1>4, <2>1
  <2>3. completed'.run \in {state'.run, state'.previous}
    BY <1>2, <1>3, <1>4
  <2>. QED
    BY <1>1, <1>2, <1>3, <2>2, <2>3 DEF FilesAreLinked
<1>9. SuccessIsTrue'
  <2>1. AllPresent' <=> AllPresent
    BY <1>3 DEF AllPresent, Missing
  <2>2. result = "succeeded" => AllPresent
    BY <1>1 DEF RecoveryInv, FoundHolds
  <2>3. IsTrue(state)
    BY SuccessOfBoth DEF RecoveryInv
  <2>4. IsTrue(completed)' /\ IsTrue(state)'
    BY <1>2, <1>3, <1>4, <2>1, <2>2, <2>3 DEF IsTrue
  <2>. QED
    BY <2>4 DEF IsTrue, SuccessIsTrue, AllPresent
<1>. QED
  BY <1>3, <1>5, <1>6, <1>7, <1>8, <1>9 DEF RecoveryInv

LEMMA RunFailsKeeps ==
  ASSUME RecoveryInv, RunFails
  PROVE  RecoveryInv'
<1>. USE DEF dbVars, runVars, memoryVars, fileVars, boundVars
<1>1. /\ Ended("failed") \in File /\ Ended("failed") # Nothing
      /\ Ended("failed").execution = "failed" /\ Ended("failed").run = state.run
      /\ Ended("failed").previous = state.previous
  <2>1. runStage # "idle" /\ "failed" \in {"succeeded", "partial", "failed"}
    BY DEF RunFails
  <2>. QED
    BY ONLY <2>1, RecoveryInv, EndedIsTyped
<1>2. /\ state' = Ended("failed") /\ completed' \in {completed, Ended("failed")}
      /\ runStage' = "idle" /\ RunForgotten
      /\ UNCHANGED <<lane, rows, generation, run, cursor, cooling, changes, deaths>>
  BY DEF RunFails, Published, Idle
<1>3. runRow' \in Execution \cup {Nothing} /\ runRow' # "running"
  BY DEF RecoveryInv, RecoveryTypeOK, RunFails, Closed, Execution
<1>4. faults' \in 0..MaxFaults /\ faults' # 0
  BY RecoveryAssumption, SMTT(30) DEF RecoveryInv, RecoveryTypeOK, RunFails, Fails
<1>5. RecoveryTypeOK'
  BY <1>1, <1>2, <1>3, <1>4, ForgottenIsTyped DEF RecoveryInv, RecoveryTypeOK
<1>6. FoundHolds' /\ FilesHold' /\ RunRowsEnd'
  BY <1>1, <1>2, <1>3 DEF FoundHolds, FilesHold, RunRowsEnd
<1>7. FilesAreLinked'
  BY <1>1, <1>2, <1>4 DEF RecoveryInv, FilesAreLinked
<1>8. SuccessIsTrue'
  <2>1. AllPresent' <=> AllPresent
    BY <1>2 DEF AllPresent, Missing
  <2>2. IsTrue(completed)' /\ IsTrue(state)'
    BY <1>1, <1>2, <2>1, SuccessOfBoth DEF RecoveryInv, IsTrue
  <2>. QED
    BY <2>2 DEF IsTrue, SuccessIsTrue, AllPresent
<1>. QED
  BY <1>2, <1>5, <1>6, <1>7, <1>8 DEF RecoveryInv

LEMMA RunDiesKeeps ==
  ASSUME RecoveryInv, RunDies
  PROVE  RecoveryInv'
<1>. USE DEF dbVars, runVars, memoryVars, fileVars, boundVars
<1>1. deaths' \in 0..MaxDeaths /\ deaths' # 0
  BY RecoveryAssumption DEF RecoveryInv, RecoveryTypeOK, RunDies
<1>2. RunForgotten /\ cursor' = NoCursor /\ cooling' = {} /\ runStage' = "idle"
      /\ UNCHANGED <<lane, rows, generation, runRow, run, state, completed, changes, faults>>
  BY DEF RunDies, Idle
<1>3. RecoveryTypeOK'
  BY <1>1, <1>2, ForgottenIsTyped, CursorStartsTyped DEF RecoveryInv, RecoveryTypeOK
<1>4. FoundHolds' /\ FilesHold' /\ RunRowsEnd' /\ FilesAreLinked'
  BY <1>1, <1>2 DEF RecoveryInv, FoundHolds, FilesHold, RunRowsEnd, FilesAreLinked
<1>5. SuccessIsTrue'
  BY <1>2 DEF RecoveryInv, SuccessIsTrue, Missing
<1>. QED
  BY <1>2, <1>3, <1>4, <1>5 DEF RecoveryInv

LEMMA RecoveryStepKeeps ==
  ASSUME RecoveryInv, [RecoveryNext]_recoveryVars
  PROVE  RecoveryInv'
<1>1. CASE RunStep
  BY <1>1, BeginRunKeeps, StartKeeps, ScanKeeps, SkipKeeps, ServeKeeps, ServeEndsKeeps, RescanKeeps,
     FinishKeeps, PublishRunKeeps DEF RunStep
<1>2. CASE \E t \in Target : DefinitionChanges(t)
  BY <1>2, DefinitionChangesKeeps
<1>3. CASE \E venue \in Venue : CooldownEnds(venue)
  BY <1>3, CooldownEndsKeeps
<1>4. CASE (\E limited \in BOOLEAN : ServeFails(limited)) \/ Deadline
  BY <1>4, ServeFailsKeeps, DeadlineKeeps
<1>5. CASE RunFails \/ RunDies
  BY <1>5, RunFailsKeeps, RunDiesKeeps
<1>6. CASE UNCHANGED recoveryVars
  <2>. USE DEF recoveryVars, dbVars, runVars, memoryVars, fileVars, boundVars
  <2>1. RecoveryTypeOK'
    BY <1>6 DEF RecoveryInv, RecoveryTypeOK
  <2>2. FoundHolds' /\ FilesHold' /\ RunRowsEnd' /\ FilesAreLinked'
    BY <1>6 DEF RecoveryInv, FoundHolds, FilesHold, RunRowsEnd, FilesAreLinked, AllPresent, Missing
  <2>3. SuccessIsTrue'
    BY <1>6 DEF RecoveryInv, SuccessIsTrue, Missing
  <2>. QED
    BY <1>6, <2>1, <2>2, <2>3 DEF RecoveryInv
<1>. QED
  BY <1>1, <1>2, <1>3, <1>4, <1>5, <1>6 DEF RecoveryNext

THEOREM RepairsStayHonest == RecoverySpec => [](SuccessIsTrue /\ FilesAreLinked /\ RunRowsEnd)
<1>1. RecoveryInv => SuccessIsTrue /\ FilesAreLinked /\ RunRowsEnd
  BY DEF RecoveryInv
<1>. QED
  BY <1>1, RecoveryInitHolds, RecoveryStepKeeps, PTL DEF RecoverySpec

-----------------------------------------------------------------------------
(***************************************************************************)
(* FundingHistory: what a sweep took for the last recorded settlement was  *)
(* recorded before the sweep started, and the answer it got is unbroken    *)
(* from there (Loaded).  The versions of an instrument follow each other,  *)
(* so a settlement has one version, for ever, as no version ends at the    *)
(* time of a settlement.                                                   *)
(***************************************************************************)

Answer == [e: 1..Settlements, rate: {0, 1}]
Version == [from: Nat, to: Nat]
Row == [i: Symbols, v: Nat, e: 1..Settlements, rate: {0, 1}, at: 0..MaxTime]
SweepState == [step: {"idle", "fetching"}, at: 0..MaxTime, from: [Symbols -> Nat],
               latest: [Symbols -> Nat], answers: [Symbols -> SUBSET Answer],
               asked: SUBSET Symbols, failed: SUBSET Symbols]

FundingTypeOK ==
  /\ time \in 0..MaxTime
  /\ published \in [Symbols -> 0..Settlements]
  /\ rate \in [Symbols -> [1..Settlements -> {0, 1}]]
  /\ versions \in [Symbols -> Seq(Version)]
  /\ events \subseteq Row
  /\ sweep \in [Sweeps -> SweepState]

(* The versions of an instrument follow each other. *)
InOrder(vs) ==
  /\ Len(vs) > 0
  /\ \A v \in 1..Len(vs) : vs[v].from < vs[v].to /\ vs[v].from <= time
  /\ \A u, v \in 1..Len(vs) : u < v => vs[u].to <= vs[v].from

VersionsInOrder == \A i \in Symbols : InOrder(versions[i])

Covers(i, v, t) == v \in DOMAIN versions[i] /\ versions[i][v].from <= t /\ t < versions[i][v].to

(* Rows are of the past, each in the version of its time. *)
RowsInVersion == \A r \in events : EventAt(r.e) <= r.at /\ r.at <= time /\ Covers(r.i, r.v, EventAt(r.e))

(* What a sweep loaded was true when it started; what it was given is unbroken. *)
Loaded(w) ==
  /\ w.at <= time
  /\ \A i \in Symbols :
       /\ w.from[i] # Never => \E v \in DOMAIN versions[i] : versions[i][v].from = w.from[i]
       /\ w.latest[i] > 0 => \E r \in events : r.i = i /\ EventAt(r.e) = w.latest[i] /\ r.at <= w.at
       /\ \A a, b \in w.answers[i] : a.e = b.e => a = b
       /\ \A a \in w.answers[i] :
            /\ InWindow(w, i, EventAt(a.e))
            /\ \A e \in 1..(a.e - 1) :
                 InWindow(w, i, EventAt(e)) => \E b \in w.answers[i] : b.e = e

FundingInv ==
  FundingTypeOK /\ VersionsInOrder /\ RowsInVersion /\ (\A s \in Sweeps : Loaded(sweep[s])) /\ NoHoles

LEMMA BoundsOfFunding ==
  /\ Interval \in Nat /\ Interval > 0 /\ Grace \in Nat /\ Lookback \in Nat /\ Settlements \in Nat
  /\ MaxTime \in Nat /\ Never \in Nat
  BY FundingAssumption DEF Never

(* Settlements are in the order of their numbers. *)
LEMMA SettlementOrder ==
  ASSUME NEW e \in Nat, NEW f \in Nat
  PROVE  EventAt(e) \in Nat /\ (e < f => EventAt(e) < EventAt(f)) /\ (EventAt(e) = EventAt(f) => e = f)
<1>1. \A a, b \in Nat : a < b => a * Interval < b * Interval
  <2>1. SUFFICES ASSUME NEW a \in Nat, NEW b \in Nat, a < b PROVE a * Interval < b * Interval
    OBVIOUS
  <2>2. PICK d \in Nat : b = a + d /\ d > 0
    <3>1. b - a \in Nat /\ b = a + (b - a) /\ b - a > 0
      BY <2>1
    <3>. QED
      BY <3>1
  <2>3. b * Interval = a * Interval + d * Interval
    BY <2>2, BoundsOfFunding
  <2>4. d * Interval > 0 /\ a * Interval \in Nat /\ d * Interval \in Nat
    BY <2>2, BoundsOfFunding
  <2>. QED
    BY <2>3, <2>4
<1>2. e * Interval \in Nat /\ f * Interval \in Nat
  BY BoundsOfFunding
<1>3. e * Interval = f * Interval => e = f
  <2>1. e < f => e * Interval < f * Interval
    BY <1>1
  <2>2. f < e => f * Interval < e * Interval
    BY <1>1
  <2>. QED
    BY <1>2, <2>1, <2>2
<1>. QED
  BY <1>1, <1>2, <1>3 DEF EventAt

(* No settlement is between two settlements' times. *)
LEMMA SettlementIsMultiple ==
  ASSUME NEW e \in Nat
  PROVE  EventAt(e) % Interval = 0
<1>1. Interval \in Nat /\ Interval > 0
  BY BoundsOfFunding
<1> DEFINE x == e * Interval
           q == x \div Interval
           r == x % Interval
<1>2. x \in Nat /\ q \in Int /\ r \in 0..(Interval - 1) /\ x = Interval * q + r
  BY <1>1
<1>. HIDE DEF q, r
<1>3. r = (e - q) * Interval
  BY <1>1, <1>2
<1>4. e - q \in Int /\ (e - q = 0 \/ e - q >= 1 \/ e - q <= -1)
  BY <1>2
<1>5. CASE e - q >= 1
  <2>1. (e - q) * Interval >= Interval
    BY <1>1, <1>4, <1>5
  <2>. QED
    BY <1>1, <1>2, <1>3, <2>1
<1>6. CASE e - q <= -1
  <2>1. (e - q) * Interval < 0
    BY <1>1, <1>4, <1>6
  <2>. QED
    BY <1>1, <1>2, <1>3, <2>1
<1>7. CASE e - q = 0
  <2>1. r = 0
    BY <1>1, <1>3, <1>7
  <2>. QED
    BY <2>1 DEF r, EventAt
<1>. QED
  BY <1>4, <1>5, <1>6, <1>7

LEMMA FundingInitHolds == FundingInit => FundingInv
<1>. SUFFICES ASSUME FundingInit PROVE FundingInv
  OBVIOUS
<1>. USE BoundsOfFunding
<1>1. /\ time = 0 /\ published = [i \in Symbols |-> 0]
      /\ rate = [i \in Symbols |-> [e \in 1..Settlements |-> 0]]
      /\ versions = [i \in Symbols |-> <<[from |-> 0, to |-> Never]>>]
      /\ events = {} /\ sweep = [s \in Sweeps |-> NoSweep]
  BY DEF FundingInit
<1>2. NoSweep \in SweepState
  BY DEF NoSweep, SweepState
<1>3. <<[from |-> 0, to |-> Never]>> \in Seq(Version)
  BY DEF Version
<1>4. FundingTypeOK
  <2>1. 0 \in 0..Settlements /\ 0 \in 0..MaxTime
    OBVIOUS
  <2>2. published \in [Symbols -> 0..Settlements]
    BY ONLY <1>1, <2>1, Zenon
  <2>3. rate \in [Symbols -> [1..Settlements -> {0, 1}]]
    BY ONLY <1>1, Zenon
  <2>4. versions \in [Symbols -> Seq(Version)]
    BY ONLY <1>1, <1>3, Zenon
  <2>5. sweep \in [Sweeps -> SweepState]
    BY ONLY <1>1, <1>2, Zenon
  <2>. QED
    BY <1>1, <2>1, <2>2, <2>3, <2>4, <2>5 DEF FundingTypeOK
<1>5. VersionsInOrder
  BY <1>1 DEF VersionsInOrder, InOrder, Never
<1>6. RowsInVersion /\ NoHoles
  BY <1>1 DEF RowsInVersion, NoHoles
<1>7. \A s \in Sweeps : Loaded(sweep[s])
  BY <1>1 DEF Loaded, NoSweep
<1>. QED
  BY <1>4, <1>5, <1>6, <1>7 DEF FundingInv

LEMMA VersionsAreTyped ==
  ASSUME FundingTypeOK, NEW i \in Symbols
  PROVE  /\ versions[i] \in Seq(Version) /\ Len(versions[i]) \in Nat
         /\ DOMAIN versions[i] = 1..Len(versions[i])
         /\ \A v \in 1..Len(versions[i]) :
              versions[i][v] \in Version /\ versions[i][v].from \in Nat /\ versions[i][v].to \in Nat
<1>1. versions[i] \in Seq(Version)
  BY DEF FundingTypeOK
<1>2. \A v \in 1..Len(versions[i]) : versions[i][v] \in Version
  BY <1>1, ElementOfSeq
<1>. QED
  BY <1>1, <1>2 DEF Version

(* What a clock tick or a venue's news leaves alone. *)
LEMMA OutsideStepKeeps ==
  ASSUME FundingInv, FundingTypeOK', time <= time', UNCHANGED <<versions, events, sweep>>
  PROVE  FundingInv'
<1>0. time \in Nat /\ time' \in Nat /\ versions \in [Symbols -> Seq(Version)]
      /\ (\A r \in events : r.at \in Nat) /\ (\A s \in Sweeps : sweep[s].at \in Nat)
  BY BoundsOfFunding DEF FundingInv, FundingTypeOK, Row, SweepState
<1>1. VersionsInOrder'
  <2>1. \A i \in Symbols : \A v \in 1..Len(versions[i]) : versions[i][v].from \in Nat
    BY VersionsAreTyped DEF FundingInv
  <2>. QED
    BY <1>0, <2>1 DEF FundingInv, VersionsInOrder, InOrder
<1>2. RowsInVersion'
  BY <1>0 DEF FundingInv, RowsInVersion, Covers
<1>3. \A s \in Sweeps : Loaded(sweep[s])'
  BY <1>0 DEF FundingInv, Loaded, InWindow
<1>4. NoHoles'
  BY DEF FundingInv, NoHoles
<1>. QED
  BY <1>1, <1>2, <1>3, <1>4 DEF FundingInv

LEMMA VenueMovesKeep ==
  ASSUME FundingInv,
         \/ FundingTick
         \/ \E i \in Symbols : PublishSettlement(i) \/ \E e \in 1..Settlements : Revise(i, e)
  PROVE  FundingInv'
<1>1. CASE FundingTick
  <2>1. FundingTypeOK' /\ time <= time'
    BY <1>1, BoundsOfFunding DEF FundingInv, FundingTypeOK, FundingTick
  <2>. QED
    BY <1>1, <2>1, OutsideStepKeeps DEF FundingTick
<1>2. ASSUME NEW i \in Symbols, PublishSettlement(i) PROVE FundingInv'
  <2>1. FundingTypeOK'
    BY <1>2, BoundsOfFunding DEF FundingInv, FundingTypeOK, PublishSettlement
  <2>2. time <= time'
    BY <1>2, BoundsOfFunding DEF FundingInv, FundingTypeOK, PublishSettlement
  <2>. QED
    BY <1>2, <2>1, <2>2, OutsideStepKeeps DEF PublishSettlement
<1>3. ASSUME NEW i \in Symbols, NEW e \in 1..Settlements, Revise(i, e) PROVE FundingInv'
  <2>1. FundingTypeOK'
    BY <1>3, BoundsOfFunding DEF FundingInv, FundingTypeOK, Revise
  <2>2. time <= time'
    BY <1>3, BoundsOfFunding DEF FundingInv, FundingTypeOK, Revise
  <2>. QED
    BY <1>3, <2>1, <2>2, OutsideStepKeeps DEF Revise
<1>. QED
  BY <1>1, <1>2, <1>3

(***************************************************************************)
(* The catalog ends a version between two settlements, so a settlement     *)
(* that is recorded stays inside it.                                       *)
(***************************************************************************)
LEMMA EndVersionKeeps ==
  ASSUME FundingInv, NEW i \in Symbols, NEW changed \in BOOLEAN, EndVersion(i, changed)
  PROVE  FundingInv'
<1> DEFINE vs == versions[i]
           n == Len(vs)
           ended == [vs EXCEPT ![n].to = time]
           new == versions'[i]
<1>1. /\ vs \in Seq(Version) /\ n \in Nat /\ n > 0 /\ DOMAIN vs = 1..n
      /\ \A v \in 1..n : vs[v] \in Version /\ vs[v].from \in Nat /\ vs[v].to \in Nat
      /\ time \in 0..MaxTime /\ time \in Nat
  BY VersionsAreTyped, BoundsOfFunding DEF FundingInv, FundingTypeOK, VersionsInOrder, InOrder
<1>2. /\ vs[n].to = Never /\ vs[n].from < time /\ time % Interval # 0
      /\ versions' = [versions EXCEPT ![i] =
           IF changed THEN Append(ended, [from |-> time, to |-> Never]) ELSE ended]
      /\ UNCHANGED <<time, published, rate, events, sweep>>
  BY DEF EndVersion, Listed, Current
<1>3. /\ ended \in Seq(Version) /\ Len(ended) = n
      /\ \A v \in 1..n : ended[v].from = vs[v].from /\ ended[v].to = IF v = n THEN time ELSE vs[v].to
  <2>1. [vs[n] EXCEPT !.to = time] \in Version /\ [vs[n] EXCEPT !.to = time].from = vs[n].from
        /\ [vs[n] EXCEPT !.to = time].to = time
    BY <1>1, SMTT(30) DEF Version
  <2>2. ended = [vs EXCEPT ![n] = [vs[n] EXCEPT !.to = time]]
    OBVIOUS
  <2>3. ended \in Seq(Version) /\ Len(ended) = n
    BY ONLY <1>1, <2>1, <2>2, ExceptSeq
  <2>4. \A v \in 1..n : ended[v] = IF v = n THEN [vs[n] EXCEPT !.to = time] ELSE vs[v]
    BY ONLY <1>1, <2>2
  <2>. QED
    BY ONLY <2>1, <2>3, <2>4
<1>4. [from |-> time, to |-> Never] \in Version
  BY <1>1, BoundsOfFunding DEF Version
<1>5. /\ new \in Seq(Version) /\ Len(new) \in {n, n + 1}
      /\ \A v \in 1..n : new[v].from = vs[v].from /\ new[v].to = IF v = n THEN time ELSE vs[v].to
      /\ Len(new) = n + 1 => new[n + 1] = [from |-> time, to |-> Never]
  <2>1. new = IF changed THEN Append(ended, [from |-> time, to |-> Never]) ELSE ended
    BY <1>2 DEF FundingInv, FundingTypeOK
  <2>2. CASE ~changed
    BY ONLY <1>1, <1>3, <2>1, <2>2
  <2>3. CASE changed
    <3>1. /\ Append(ended, [from |-> time, to |-> Never]) \in Seq(Version)
          /\ Len(Append(ended, [from |-> time, to |-> Never])) = n + 1
          /\ \A v \in 1..n : Append(ended, [from |-> time, to |-> Never])[v] = ended[v]
          /\ Append(ended, [from |-> time, to |-> Never])[n + 1] = [from |-> time, to |-> Never]
      BY ONLY <1>3, <1>4, AppendProperties
    <3>. QED
      BY ONLY <1>1, <1>3, <2>1, <2>3, <3>1
  <2>. QED
    BY <2>2, <2>3
<1>. HIDE DEF new, ended
<1>6. FundingTypeOK'
  <2>1. versions' \in [Symbols -> Seq(Version)]
    BY <1>2, <1>5 DEF FundingInv, FundingTypeOK, new
  <2>. QED
    BY <1>2, <2>1 DEF FundingInv, FundingTypeOK
<1>7. InOrder(new)
  <2>1. InOrder(vs)
    BY DEF FundingInv, VersionsInOrder
  <2>2. \A v \in 1..Len(new) : new[v].from < new[v].to /\ new[v].from <= time
    <3>1. SUFFICES ASSUME NEW v \in 1..Len(new) PROVE new[v].from < new[v].to /\ new[v].from <= time
      OBVIOUS
    <3>2. CASE v \in 1..n
      BY <1>1, <1>2, <1>5, <2>1, <3>2 DEF InOrder
    <3>3. CASE v = n + 1
      BY <1>1, <1>5, <3>1, <3>3, BoundsOfFunding DEF Never
    <3>. QED
      BY <1>1, <1>5, <3>1, <3>2, <3>3
  <2>3. \A u, v \in 1..Len(new) : u < v => new[u].to <= new[v].from
    <3>1. SUFFICES ASSUME NEW u \in 1..Len(new), NEW v \in 1..Len(new), u < v
                   PROVE  new[u].to <= new[v].from
      OBVIOUS
    <3>2. CASE v \in 1..n
      BY <1>1, <1>5, <2>1, <3>1, <3>2 DEF InOrder
    <3>3. CASE v = n + 1
      <4>1. u \in 1..n /\ new[v].from = time
        BY <1>1, <1>5, <3>1, <3>3
      <4>2. new[u].to = IF u = n THEN time ELSE vs[u].to
        BY ONLY <1>5, <4>1
      <4>3. u # n => vs[u].to <= vs[n].from
        BY ONLY <1>1, <2>1, <4>1 DEF InOrder
      <4>4. u # n => vs[u].to \in Nat /\ vs[n].from \in Nat
        BY ONLY <1>1, <4>1
      <4>5. new[u].to <= time
        BY ONLY <1>1, <1>2, <4>2, <4>3, <4>4
      <4>. QED
        BY <4>1, <4>5
    <3>. QED
      BY <1>1, <1>5, <3>1, <3>2, <3>3
  <2>. QED
    BY <1>1, <1>5, <2>2, <2>3 DEF InOrder
<1>8. VersionsInOrder'
  <2>1. \A j \in Symbols : versions'[j] = IF j = i THEN new ELSE versions[j]
    BY <1>2 DEF FundingInv, FundingTypeOK, new
  <2>2. \A j \in Symbols : InOrder(versions'[j])
    BY <1>7, <2>1 DEF FundingInv, VersionsInOrder
  <2>. QED
    BY <1>2, <2>2 DEF VersionsInOrder, InOrder
<1>9. \A r \in events : /\ r.v \in DOMAIN versions'[r.i]
                        /\ versions'[r.i][r.v].from = versions[r.i][r.v].from
                        /\ EventAt(r.e) < versions'[r.i][r.v].to
  <2>1. SUFFICES ASSUME NEW r \in events
                 PROVE  /\ r.v \in DOMAIN versions'[r.i]
                        /\ versions'[r.i][r.v].from = versions[r.i][r.v].from
                        /\ EventAt(r.e) < versions'[r.i][r.v].to
    OBVIOUS
  <2>2. /\ r.i \in Symbols /\ r.v \in DOMAIN versions[r.i]
        /\ EventAt(r.e) < versions[r.i][r.v].to /\ EventAt(r.e) <= r.at /\ r.at <= time
        /\ r.e \in Nat /\ r.at \in Nat
    BY BoundsOfFunding DEF FundingInv, FundingTypeOK, RowsInVersion, Covers, Row
  <2>3. CASE r.i # i
    BY <1>2, <2>2, <2>3 DEF FundingInv, FundingTypeOK
  <2>4. CASE r.i = i
    <3>1. EventAt(r.e) \in Nat /\ EventAt(r.e) % Interval = 0
      BY <2>2, SettlementOrder, SettlementIsMultiple
    <3>2. EventAt(r.e) < time
      <4>1. EventAt(r.e) # time
        BY <1>2, <3>1
      <4>. QED
        BY <1>1, <2>2, <3>1, <4>1
    <3>3. r.v \in 1..n /\ versions'[r.i] = new /\ versions[r.i] = vs
      BY <1>1, <2>2, <2>4 DEF new
    <3>4. DOMAIN new = 1..Len(new) /\ r.v \in 1..Len(new)
      BY <1>1, <1>5, <3>3
    <3>. QED
      BY <1>5, <2>2, <3>2, <3>3, <3>4
  <2>. QED
    BY <2>3, <2>4
<1>10. RowsInVersion'
  BY <1>2, <1>9 DEF FundingInv, RowsInVersion, Covers, EventAt
<1>11. \A s \in Sweeps : Loaded(sweep[s])'
  <2>1. \A j \in Symbols : \A v \in DOMAIN versions[j] :
          v \in DOMAIN versions'[j] /\ versions'[j][v].from = versions[j][v].from
    <3>1. DOMAIN new = 1..Len(new) /\ (1..n) \subseteq 1..Len(new)
      BY <1>1, <1>5
    <3>. QED
      BY <1>1, <1>2, <1>5, <3>1 DEF FundingInv, FundingTypeOK, new
  <2>2. SUFFICES ASSUME NEW s \in Sweeps PROVE Loaded(sweep[s])'
    OBVIOUS
  <2>3. Loaded(sweep[s])
    BY DEF FundingInv
  <2>. QED
    BY <1>2, <2>1, <2>3 DEF Loaded, InWindow, EventAt
<1>12. NoHoles'
  BY <1>2, <1>9 DEF FundingInv, NoHoles, RowsInVersion, Covers, EventAt
<1>. QED
  BY <1>6, <1>8, <1>10, <1>11, <1>12 DEF FundingInv

LEMMA SweepIsTyped ==
  ASSUME FundingTypeOK, NEW s \in Sweeps
  PROVE  /\ sweep[s] \in SweepState /\ sweep[s].at \in Nat /\ sweep[s].at \in 0..MaxTime
         /\ sweep[s].from \in [Symbols -> Nat] /\ sweep[s].latest \in [Symbols -> Nat]
         /\ \A i \in Symbols : sweep[s].answers[i] \subseteq Answer
  BY BoundsOfFunding DEF FundingTypeOK, SweepState

(* A step of one sweep that leaves the store alone. *)
LEMMA SweepStepKeeps ==
  ASSUME FundingInv, NEW s \in Sweeps, NEW w \in SweepState, sweep' = [sweep EXCEPT ![s] = w],
         UNCHANGED <<time, published, rate, versions, events>>, Loaded(w)
  PROVE  FundingInv'
<1>1. FundingTypeOK'
  BY DEF FundingInv, FundingTypeOK
<1>2. VersionsInOrder' /\ RowsInVersion' /\ NoHoles'
  BY DEF FundingInv, VersionsInOrder, InOrder, RowsInVersion, Covers, NoHoles
<1>3. \A u \in Sweeps : Loaded(sweep[u])'
  <2>1. SUFFICES ASSUME NEW u \in Sweeps PROVE Loaded(sweep[u])'
    OBVIOUS
  <2>2. sweep'[u] = IF u = s THEN w ELSE sweep[u]
    BY DEF FundingInv, FundingTypeOK
  <2>3. Loaded(sweep[u])
    BY DEF FundingInv
  <2>. QED
    BY <2>2, <2>3 DEF Loaded, InWindow
<1>. QED
  BY <1>1, <1>2, <1>3 DEF FundingInv

(* The last recorded settlement is one that was recorded before now, or there is none. *)
LEMMA LatestIsRecorded ==
  ASSUME FundingInv, NEW i \in Symbols
  PROVE  /\ Latest(i) \in Nat
         /\ Latest(i) > 0 => \E r \in events : r.i = i /\ EventAt(r.e) = Latest(i) /\ r.at <= time
<1> DEFINE T == {0} \cup {EventAt(r.e) : r \in RowsOf(i)}
<1>1. \A r \in events : r.e \in Nat /\ EventAt(r.e) \in Nat /\ r.at \in Nat /\ EventAt(r.e) <= r.at /\ r.at <= time
  <2>1. SUFFICES ASSUME NEW r \in events
                 PROVE  r.e \in Nat /\ EventAt(r.e) \in Nat /\ r.at \in Nat /\ EventAt(r.e) <= r.at /\ r.at <= time
    OBVIOUS
  <2>2. r.e \in Nat /\ r.at \in Nat /\ EventAt(r.e) <= r.at /\ r.at <= time
    BY BoundsOfFunding DEF FundingInv, FundingTypeOK, RowsInVersion, Row
  <2>. QED
    BY <2>2, SettlementOrder
<1>2. time \in Int /\ time >= 0
  BY BoundsOfFunding DEF FundingInv, FundingTypeOK
<1>3. T \in SUBSET Int /\ T # {} /\ \A x \in T : x <= time
  BY <1>1, <1>2 DEF RowsOf
<1>4. Max(T) \in T
  BY ONLY <1>2, <1>3, MaxOfBounded, Zenon
<1>5. Latest(i) = Max(T)
  BY DEF Latest
<1>. QED
  BY <1>1, <1>4, <1>5 DEF RowsOf

LEMMA StartSweepKeeps ==
  ASSUME FundingInv, NEW s \in Sweeps, StartSweep(s)
  PROVE  FundingInv'
<1> DEFINE from == [i \in Symbols |-> IF Listed(i) THEN Current(i).from ELSE Never]
           latest == [i \in Symbols |-> Latest(i)]
           none == [i \in Symbols |-> {}]
           w == [step |-> "fetching", at |-> time, from |-> from, latest |-> latest, answers |-> none,
                 asked |-> {}, failed |-> {}]
<1>2. \A i \in Symbols : Len(versions[i]) \in DOMAIN versions[i] /\ Current(i).from \in Nat
  BY VersionsAreTyped DEF FundingInv, VersionsInOrder, InOrder, Current
<1>3. from \in [Symbols -> Nat] /\ latest \in [Symbols -> Nat] /\ none \in [Symbols -> SUBSET Answer]
  BY <1>2, LatestIsRecorded, BoundsOfFunding
<1>4. time \in 0..MaxTime /\ time <= time
  BY BoundsOfFunding DEF FundingInv, FundingTypeOK
<1>5. w \in SweepState
  BY <1>3, <1>4 DEF SweepState
<1>1. sweep' = [sweep EXCEPT ![s] = w] /\ UNCHANGED <<time, published, rate, versions, events>>
  <2> DEFINE started == [NoSweep EXCEPT !.step = "fetching", !.at = time, !.from = from, !.latest = latest]
  <2>1. started = w
    <3>1. NoSweep \in SweepState
      BY BoundsOfFunding DEF NoSweep, SweepState
    <3>2. /\ started \in SweepState
          /\ started.step = "fetching" /\ started.at = time /\ started.from = from
          /\ started.latest = latest /\ started.answers = NoSweep.answers
          /\ started.asked = NoSweep.asked /\ started.failed = NoSweep.failed
      BY <1>3, <1>4, <3>1 DEF SweepState
    <3>3. NoSweep.answers = none /\ NoSweep.asked = {} /\ NoSweep.failed = {}
      BY DEF NoSweep
    <3>. HIDE DEF started
    <3>4. started = [step |-> started.step, at |-> started.at, from |-> started.from,
                     latest |-> started.latest, answers |-> started.answers,
                     asked |-> started.asked, failed |-> started.failed]
      BY ONLY <3>2 DEF SweepState
    <3>. QED
      BY ONLY <3>2, <3>3, <3>4
  <2>2. sweep' = [sweep EXCEPT ![s] = started]
    BY DEF StartSweep
  <2>3. UNCHANGED <<time, published, rate, versions, events>>
    BY DEF StartSweep
  <2>. QED
    BY ONLY <2>1, <2>2, <2>3
<1>6. Loaded(w)
  <2>1. SUFFICES ASSUME NEW i \in Symbols
                 PROVE  /\ from[i] # Never => \E v \in DOMAIN versions[i] : versions[i][v].from = from[i]
                        /\ latest[i] > 0 => \E r \in events : r.i = i /\ EventAt(r.e) = latest[i] /\ r.at <= time
    BY <1>4 DEF Loaded
  <2>2. from[i] # Never => \E v \in DOMAIN versions[i] : versions[i][v].from = from[i]
    BY <1>2 DEF Current
  <2>3. latest[i] > 0 => \E r \in events : r.i = i /\ EventAt(r.e) = latest[i] /\ r.at <= time
    BY LatestIsRecorded
  <2>. QED
    BY <2>2, <2>3
<1>. HIDE DEF w
<1>. QED
  BY <1>1, <1>5, <1>6, SweepStepKeeps

(* A venue's answer has every settlement of the window up to the last one it has. *)
LEMMA FetchKeeps ==
  ASSUME FundingInv, NEW s \in Sweeps, NEW i \in Symbols, Fetch(s, i)
  PROVE  FundingInv'
<1> DEFINE w == [sweep[s] EXCEPT !.asked = @ \cup {i}, !.answers[i] = Answers(sweep[s], i)]
<1>1. sweep[s] \in SweepState
  BY DEF FundingInv, FundingTypeOK
<1>2. sweep' = [sweep EXCEPT ![s] = w] /\ UNCHANGED <<time, published, rate, versions, events>>
  BY DEF Fetch
<1>3. Answers(sweep[s], i) \subseteq Answer
  <2>1. published[i] \in 0..Settlements /\ rate[i] \in [1..Settlements -> {0, 1}]
    BY DEF FundingInv, FundingTypeOK
  <2>. QED
    BY <2>1, BoundsOfFunding DEF Answers, Answer
<1>4. /\ w \in SweepState /\ w.at = sweep[s].at /\ w.from = sweep[s].from /\ w.latest = sweep[s].latest
      /\ \A j \in Symbols : w.answers[j] = IF j = i THEN Answers(sweep[s], i) ELSE sweep[s].answers[j]
  BY <1>1, <1>3 DEF SweepState
<1>. HIDE DEF w
<1>5. Loaded(sweep[s])
  BY DEF FundingInv
<1>6. /\ \A a, b \in Answers(sweep[s], i) : a.e = b.e => a = b
      /\ \A a \in Answers(sweep[s], i) :
            /\ InWindow(sweep[s], i, EventAt(a.e))
            /\ \A e \in 1..(a.e - 1) :
                 InWindow(sweep[s], i, EventAt(e)) => \E b \in Answers(sweep[s], i) : b.e = e
  <2>1. \A a \in Answers(sweep[s], i) : a.e \in 1..published[i] /\ a = [e |-> a.e, rate |-> rate[i][a.e]]
          /\ InWindow(sweep[s], i, EventAt(a.e))
    BY DEF Answers
  <2>2. \A e \in 1..published[i] : InWindow(sweep[s], i, EventAt(e)) => \E b \in Answers(sweep[s], i) : b.e = e
    <3>1. SUFFICES ASSUME NEW e \in 1..published[i], InWindow(sweep[s], i, EventAt(e))
                   PROVE  \E b \in Answers(sweep[s], i) : b.e = e
      OBVIOUS
    <3>2. [e |-> e, rate |-> rate[i][e]] \in Answers(sweep[s], i)
      BY <3>1 DEF Answers
    <3>. QED
      BY <3>2
  <2>3. published[i] \in Nat
    BY BoundsOfFunding DEF FundingInv, FundingTypeOK
  <2>4. \A a \in Answers(sweep[s], i) : \A e \in 1..(a.e - 1) : e \in 1..published[i]
    BY <2>1, <2>3
  <2>. QED
    BY <2>1, <2>2, <2>4
<1>7. Loaded(w)
  BY <1>4, <1>5, <1>6 DEF Loaded, InWindow
<1>. QED
  BY <1>2, <1>4, <1>7, SweepStepKeeps

LEMMA SweepFailsKeep ==
  ASSUME FundingInv, NEW s \in Sweeps, (\E i \in Symbols : FetchFails(s, i)) \/ SweepLost(s)
  PROVE  FundingInv'
<1>1. sweep[s] \in SweepState
  BY DEF FundingInv, FundingTypeOK
<1>2. NoSweep \in SweepState /\ Loaded(NoSweep)
  <2>1. NoSweep \in SweepState
    BY BoundsOfFunding DEF NoSweep, SweepState
  <2>2. 0 <= time
    BY BoundsOfFunding DEF FundingInv, FundingTypeOK
  <2>. QED
    BY <2>1, <2>2 DEF Loaded, NoSweep
<1>3. CASE SweepLost(s)
  BY <1>2, <1>3, SweepStepKeeps DEF SweepLost
<1>4. ASSUME NEW i \in Symbols, FetchFails(s, i) PROVE FundingInv'
  <2> DEFINE w == [sweep[s] EXCEPT !.asked = @ \cup {i}, !.failed = @ \cup {i}]
  <2>1. sweep' = [sweep EXCEPT ![s] = w] /\ UNCHANGED <<time, published, rate, versions, events>>
    BY <1>4 DEF FetchFails
  <2>2. w \in SweepState /\ w.at = sweep[s].at /\ w.from = sweep[s].from /\ w.latest = sweep[s].latest
        /\ w.answers = sweep[s].answers
    BY <1>1 DEF SweepState
  <2>. HIDE DEF w
  <2>3. Loaded(w)
    BY <2>2 DEF FundingInv, Loaded, InWindow
  <2>. QED
    BY <2>1, <2>2, <2>3, SweepStepKeeps
<1>. QED
  BY <1>3, <1>4

(* At most one version covers a time. *)
LEMMA CoveringIsOne ==
  ASSUME FundingInv, NEW i \in Symbols, NEW t \in Nat, NEW u \in Covering(i, t), NEW v \in Covering(i, t)
  PROVE  u = v
<1>1. /\ u \in 1..Len(versions[i]) /\ v \in 1..Len(versions[i])
      /\ versions[i][u].from <= t /\ t < versions[i][u].to
      /\ versions[i][v].from <= t /\ t < versions[i][v].to
      /\ versions[i][u].from \in Nat /\ versions[i][u].to \in Nat
      /\ versions[i][v].from \in Nat /\ versions[i][v].to \in Nat
      /\ Len(versions[i]) \in Nat
  BY VersionsAreTyped DEF FundingInv, Covering
<1>2. \A x, y \in 1..Len(versions[i]) : x < y => versions[i][x].to <= versions[i][y].from
  BY DEF FundingInv, VersionsInOrder, InOrder
<1>3. ~(u < v) /\ ~(v < u)
  BY <1>1, <1>2, SMTT(30)
<1>. QED
  BY <1>1, <1>3

LEMMA RowIsTyped ==
  ASSUME FundingInv, NEW r \in events
  PROVE  /\ r \in Row /\ r.i \in Symbols /\ r.e \in 1..Settlements /\ r.e \in Nat /\ r.at \in Nat
         /\ EventAt(r.e) \in Nat /\ EventAt(r.e) <= r.at /\ r.at <= time
         /\ r.v \in Covering(r.i, EventAt(r.e))
<1>1. r \in Row /\ r.i \in Symbols /\ r.e \in 1..Settlements /\ r.e \in Nat /\ r.at \in Nat
  BY BoundsOfFunding DEF FundingInv, FundingTypeOK, Row
<1>2. EventAt(r.e) <= r.at /\ r.at <= time /\ r.v \in Covering(r.i, EventAt(r.e))
  BY DEF FundingInv, RowsInVersion, Covers, Covering
<1>. QED
  BY <1>1, <1>2, SettlementOrder

(* A new row is of an answer, in the version of its time. *)
LEMMA NewRowIsAnswer ==
  ASSUME FundingInv, NEW s \in Sweeps, NEW r \in NewRows(sweep[s])
  PROVE  /\ r \in Row /\ r.i \in Symbols /\ r.e \in Nat /\ r.at = sweep[s].at /\ r.at <= time
         /\ r.v \in Covering(r.i, EventAt(r.e)) /\ InWindow(sweep[s], r.i, EventAt(r.e))
         /\ \E a \in sweep[s].answers[r.i] : a.e = r.e /\ a.rate = r.rate
<1> DEFINE w == sweep[s]
<1>1. PICK x \in Received(w) :
        /\ Covering(x[1], EventAt(x[2].e)) # {}
        /\ r = [i |-> x[1], v |-> VersionAt(x[1], EventAt(x[2].e)), e |-> x[2].e,
                rate |-> x[2].rate, at |-> w.at]
  BY DEF NewRows
<1>2. PICK i \in Symbols : \E b \in w.answers[i] : x = <<i, b>>
  BY <1>1 DEF Received
<1>9. PICK a \in w.answers[i] : x = <<i, a>>
  BY <1>2
<1>3. a \in Answer /\ a.e \in Nat /\ a.e \in 1..Settlements /\ a.rate \in {0, 1} /\ w.at \in 0..MaxTime
  BY <1>2, <1>9, SweepIsTyped, BoundsOfFunding DEF FundingInv, Answer
<1>4. VersionAt(i, EventAt(a.e)) \in Covering(i, EventAt(a.e))
  BY <1>1, <1>2, <1>9 DEF VersionAt
<1>5. /\ r.i = i /\ r.e = a.e /\ r.rate = a.rate /\ r.at = w.at /\ r.v \in Covering(i, EventAt(a.e))
      /\ r = [i |-> r.i, v |-> r.v, e |-> r.e, rate |-> r.rate, at |-> r.at]
  BY <1>1, <1>2, <1>9, <1>4
<1>6. r.v \in Nat
  BY <1>5, VersionsAreTyped DEF FundingInv, Covering
<1>7. r \in Row
  BY <1>2, <1>9, <1>3, <1>5, <1>6 DEF Row
<1>8. InWindow(w, i, EventAt(a.e)) /\ w.at <= time
  BY <1>2, <1>9 DEF FundingInv, Loaded
<1>. QED
  BY <1>2, <1>9, <1>3, <1>5, <1>7, <1>8

LEMMA AnswerIsNewRow ==
  ASSUME NEW w, NEW i \in Symbols, NEW a \in w.answers[i], Covering(i, EventAt(a.e)) # {}
  PROVE  \E r \in NewRows(w) : r.i = i /\ r.e = a.e
<1>1. <<i, a>> \in Received(w)
  BY DEF Received
<1> DEFINE r == [i |-> i, v |-> VersionAt(i, EventAt(a.e)), e |-> a.e,
                 rate |-> a.rate, at |-> w.at]
<1>2. r \in NewRows(w)
  <2>1. <<i, a>>[1] = i /\ <<i, a>>[2] = a
    OBVIOUS
  <2>. QED
    BY <1>1, <2>1, Zenon DEF NewRows
<1>3. r.i = i /\ r.e = a.e
  OBVIOUS
<1>. QED
  BY <1>2, <1>3

-----------------------------------------------------------------------------
(* The transaction *)

Inserted(s) == {r \in NewRows(sweep[s]) : ~\E q \in events : SameEvent(r, q)}

(* No settlement is recorded twice. *)
LEMMA InsertOnce ==
  ASSUME FundingInv, NEW s \in Sweeps
  PROVE  \A r, q \in events \cup Inserted(s) : r.i = q.i /\ r.e = q.e => r = q
<1> DEFINE w == sweep[s]
<1>1. SUFFICES ASSUME NEW r \in events \cup Inserted(s), NEW q \in events \cup Inserted(s),
                      r.i = q.i, r.e = q.e
               PROVE  r = q
  OBVIOUS
<1>2. /\ \A x \in Inserted(s) : x \in NewRows(w) /\ ~\E y \in events : SameEvent(x, y)
      /\ \A x \in events \cup Inserted(s) : x \in Row /\ x.i \in Symbols /\ x.e \in Nat /\ x.v \in Covering(x.i, EventAt(x.e))
  BY RowIsTyped, NewRowIsAnswer DEF Inserted
<1>3. EventAt(r.e) \in Nat
  BY <1>2, SettlementOrder
<1>4. r.v = q.v
  BY <1>1, <1>2, <1>3, CoveringIsOne
<1>5. CASE r \in events /\ q \in events
  BY <1>1, <1>5 DEF FundingInv, NoHoles
<1>6. CASE r \in Inserted(s) /\ q \in events
  BY <1>1, <1>2, <1>4, <1>6 DEF SameEvent
<1>7. CASE r \in events /\ q \in Inserted(s)
  BY <1>1, <1>2, <1>4, <1>7 DEF SameEvent
<1>8. CASE r \in Inserted(s) /\ q \in Inserted(s)
  <2>1. r \in NewRows(w) /\ q \in NewRows(w)
    BY <1>2, <1>8
  <2>2. PICK a \in w.answers[r.i] : a.e = r.e /\ a.rate = r.rate
    BY <2>1, NewRowIsAnswer
  <2>3. PICK b \in w.answers[q.i] : b.e = q.e /\ b.rate = q.rate
    BY <2>1, NewRowIsAnswer
  <2>4. a = b
    BY <1>1, <1>2, <2>2, <2>3 DEF FundingInv, Loaded
  <2>5. r.at = w.at /\ q.at = w.at
    BY <2>1, NewRowIsAnswer
  <2>6. r \in Row /\ q \in Row
    BY <1>2
  <2>. QED
    BY <1>1, <1>4, <2>2, <2>3, <2>4, <2>5, <2>6 DEF Row
<1>. QED
  BY <1>5, <1>6, <1>7, <1>8

Filled(r, e, recorded) ==
  \/ EventAt(e) < versions[r.i][r.v].from
  \/ EventAt(e) < r.at - Lookback
  \/ \E q \in recorded : q.i = r.i /\ q.v = r.v /\ q.e = e

(***************************************************************************)
(* What comes before a new settlement is there: it was answered with it, or*)
(* it is not after the settlement the sweep took for the last one, which   *)
(* was recorded before the sweep and has no hole before it either.         *)
(***************************************************************************)
LEMMA NewRowIsFilled ==
  ASSUME FundingInv, NEW s \in Sweeps, NEW r \in NewRows(sweep[s]), NEW e \in 1..(r.e - 1)
  PROVE  Filled(r, e, events \cup Inserted(s))
<1> DEFINE w == sweep[s]
           i == r.i
           from == versions[i][r.v].from
<1>1. /\ i \in Symbols /\ r.e \in Nat /\ r.at = w.at /\ w.at \in Nat
      /\ r.v \in Covering(i, EventAt(r.e)) /\ InWindow(w, i, EventAt(r.e))
  BY NewRowIsAnswer, SweepIsTyped DEF FundingInv
<1>2. PICK a \in w.answers[i] : a.e = r.e
  BY NewRowIsAnswer
<1>3. e \in Nat /\ e < r.e /\ EventAt(e) \in Nat /\ EventAt(r.e) \in Nat /\ EventAt(e) < EventAt(r.e)
  <2>1. e \in Nat /\ e < r.e
    BY <1>1
  <2>. QED
    BY <1>1, <2>1, SettlementOrder
<1>4. /\ from \in Nat /\ versions[i][r.v].to \in Nat
      /\ from <= EventAt(r.e) /\ EventAt(r.e) < versions[i][r.v].to
      /\ r.v \in 1..Len(versions[i]) /\ Len(versions[i]) \in Nat
  BY <1>1, VersionsAreTyped DEF FundingInv, Covering
<1>12. SUFFICES ASSUME ~(EventAt(e) < versions[r.i][r.v].from), ~(EventAt(e) < r.at - Lookback)
              PROVE  \E q \in events \cup Inserted(s) : q.i = r.i /\ q.v = r.v /\ q.e = e
  BY Zenon DEF Filled
<1>5. EventAt(e) >= from /\ EventAt(e) >= w.at - Lookback
  <2>1. from \in Nat /\ w.at - Lookback \in Int /\ EventAt(e) \in Nat
    BY ONLY <1>1, <1>3, <1>4, BoundsOfFunding
  <2>2. ~(EventAt(e) < from) /\ ~(EventAt(e) < w.at - Lookback)
    BY ONLY <1>1, <1>12
  <2>. QED
    BY ONLY <2>1, <2>2
<1>6. r.v \in Covering(i, EventAt(e))
  BY <1>3, <1>4, <1>5 DEF Covering
<1>7. w.from[i] \in Nat /\ w.latest[i] \in Nat /\ w.at <= MaxTime
  BY <1>1, SweepIsTyped, BoundsOfFunding DEF FundingInv
<1>8. EventAt(e) >= w.from[i]
  <2>1. w.from[i] # Never
    BY <1>1, <1>3, <1>7, BoundsOfFunding DEF InWindow, Never
  <2>2. PICK v \in DOMAIN versions[i] : versions[i][v].from = w.from[i]
    BY <1>1, <2>1 DEF FundingInv, Loaded
  <2>3. v \in 1..Len(versions[i]) /\ versions[i][v].from <= EventAt(r.e)
        /\ versions[i][v].from \in Nat /\ versions[i][v].to \in Nat
    BY <1>1, <2>2, VersionsAreTyped DEF InWindow, FundingInv
  <2>4. \A x, y \in 1..Len(versions[i]) : x < y => versions[i][x].to <= versions[i][y].from
    BY <1>1 DEF FundingInv, VersionsInOrder, InOrder
  <2>5. r.v < v => versions[i][r.v].to <= versions[i][v].from
    BY ONLY <1>4, <2>3, <2>4
  <2>6. v < r.v => versions[i][v].to <= from
    BY ONLY <1>4, <2>3, <2>4
  <2>7. versions[i][v].from < versions[i][v].to
    BY <1>1, <2>3 DEF FundingInv, VersionsInOrder, InOrder
  <2>8. r.v \in Nat /\ v \in Nat /\ (v = r.v => versions[i][v].from = from)
    BY ONLY <1>4, <2>3
  <2>9. versions[i][v].from <= from
    BY ONLY <1>3, <1>4, <2>3, <2>5, <2>6, <2>7, <2>8, SMTT(30)
  <2>. QED
    BY ONLY <1>3, <1>4, <1>5, <1>7, <2>2, <2>3, <2>9, SMTT(30)
<1>9. CASE EventAt(e) > w.latest[i]
  <2>1. InWindow(w, i, EventAt(e))
    BY <1>1, <1>3, <1>5, <1>7, <1>8, <1>9, BoundsOfFunding DEF InWindow
  <2>2. e \in 1..(a.e - 1)
    BY <1>2
  <2>3. PICK b \in w.answers[i] : b.e = e
    BY <1>1, <1>2, <2>1, <2>2 DEF FundingInv, Loaded
  <2>4. Covering(i, EventAt(b.e)) # {}
    BY <1>6, <2>3
  <2>5. PICK p \in NewRows(w) : p.i = i /\ p.e = e
    <3>1. \E p \in NewRows(w) : p.i = i /\ p.e = b.e
      BY <1>1, <2>4, AnswerIsNewRow
    <3>. QED
      BY <2>3, <3>1
  <2>6. p.v \in Covering(i, EventAt(e))
    BY <2>5, NewRowIsAnswer
  <2>7. p.v = r.v
    BY <1>1, <1>3, <1>6, <2>6, CoveringIsOne
  <2>8. CASE p \in Inserted(s)
    BY <2>5, <2>7, <2>8
  <2>9. CASE p \notin Inserted(s)
    <3>1. PICK q \in events : SameEvent(p, q)
      BY <2>9 DEF Inserted
    <3>. QED
      BY <2>5, <2>7, <3>1 DEF SameEvent
  <2>. QED
    BY <2>8, <2>9
<1>10. CASE EventAt(e) <= w.latest[i]
  <2>1. w.latest[i] > 0
    <3>1. EventAt(0) < EventAt(e) /\ EventAt(0) \in Nat
      BY <1>3, SettlementOrder
    <3>. QED
      BY <1>3, <1>7, <1>10, <3>1
  <2>2. PICK p \in events : p.i = i /\ EventAt(p.e) = w.latest[i] /\ p.at <= w.at
    BY <1>1, <2>1 DEF FundingInv, Loaded
  <2>3. /\ p.e \in Nat /\ p.at \in Nat /\ p.v \in Covering(i, EventAt(p.e)) /\ EventAt(p.e) \in Nat
    BY <2>2, RowIsTyped
  <2>4. EventAt(p.e) < EventAt(r.e)
    BY <1>1, <1>3, <1>7, <2>2 DEF InWindow
  <2>5. r.v \in Covering(i, EventAt(p.e))
    <3>1. from <= EventAt(p.e)
      BY ONLY <1>3, <1>4, <1>5, <1>10, <2>2, <2>3, SMTT(30)
    <3>2. EventAt(p.e) < versions[i][r.v].to
      BY <1>3, <1>4, <2>3, <2>4
    <3>3. r.v \in DOMAIN versions[i]
      BY <1>1 DEF Covering
    <3>. QED
      BY <3>1, <3>2, <3>3 DEF Covering
  <2>6. p.v = r.v
    BY <1>1, <2>3, <2>5, CoveringIsOne
  <2>7. CASE p.e = e
    BY <2>2, <2>6, <2>7
  <2>8. CASE p.e # e
    <3>1. e \in 1..(p.e - 1)
      <4>1. ~(p.e < e)
        BY <1>3, <1>10, <2>2, <2>3, SettlementOrder
      <4>. QED
        BY <1>3, <2>3, <2>8, <4>1
    <3>2. Filled(p, e, events)
      BY <3>1 DEF FundingInv, NoHoles, Filled
    <3>3. ~(EventAt(e) < versions[p.i][p.v].from) /\ ~(EventAt(e) < p.at - Lookback)
      <4>1. versions[p.i][p.v].from = from
        BY <2>2, <2>6
      <4>2. ~(EventAt(e) < from)
        BY <1>3, <1>4, <1>5
      <4>3. ~(EventAt(e) < p.at - Lookback)
        BY <1>1, <1>3, <1>5, <2>2, <2>3, BoundsOfFunding
      <4>. QED
        BY <4>1, <4>2, <4>3
    <3>. QED
      BY <2>2, <2>6, <3>2, <3>3 DEF Filled
  <2>. QED
    BY <2>7, <2>8
<1>. QED
  BY <1>3, <1>7, <1>9, <1>10

LEMMA PersistKeeps ==
  ASSUME FundingInv, NEW s \in Sweeps, Persist(s)
  PROVE  FundingInv'
<1>1. /\ sweep' = [sweep EXCEPT ![s] = NoSweep]
      /\ UNCHANGED <<time, published, rate, versions, setbacks>>
  BY DEF Persist
<1>2. events' = events \/ events' = events \cup Inserted(s)
  BY DEF Persist, Inserted
<1>3. NoSweep \in SweepState /\ time \in Nat
  BY BoundsOfFunding DEF NoSweep, SweepState, FundingInv, FundingTypeOK
<1>4. FundingTypeOK'
  <2>1. \A r \in Inserted(s) : r \in Row
    BY NewRowIsAnswer DEF Inserted
  <2>. QED
    BY <1>1, <1>2, <1>3, <2>1 DEF FundingInv, FundingTypeOK
<1>5. VersionsInOrder'
  BY <1>1 DEF FundingInv, VersionsInOrder, InOrder
<1>6. RowsInVersion'
  <2>1. \A r \in Inserted(s) : EventAt(r.e) <= r.at /\ r.at <= time /\ Covers(r.i, r.v, EventAt(r.e))
    BY NewRowIsAnswer DEF Inserted, Covering, Covers, InWindow
  <2>. QED
    BY <1>1, <1>2, <2>1 DEF FundingInv, RowsInVersion, Covers, EventAt
<1>7. \A u \in Sweeps : Loaded(sweep[u])'
  <2>1. SUFFICES ASSUME NEW u \in Sweeps PROVE Loaded(sweep[u])'
    OBVIOUS
  <2>2. events \subseteq events'
    BY <1>2
  <2>3. CASE u = s
    <3>1. sweep'[u] = NoSweep
      BY <1>1, <2>3 DEF FundingInv, FundingTypeOK
    <3>. QED
      BY <1>1, <1>3, <3>1 DEF Loaded, NoSweep
  <2>4. CASE u # s
    <3>1. sweep'[u] = sweep[u]
      BY <1>1, <2>4 DEF FundingInv, FundingTypeOK
    <3>. QED
      BY <1>1, <2>2, <3>1 DEF FundingInv, Loaded, InWindow, EventAt
  <2>. QED
    BY <2>3, <2>4
<1>8. NoHoles'
  <2>1. CASE events' = events
    BY <1>1, <2>1 DEF FundingInv, NoHoles
  <2>2. CASE events' = events \cup Inserted(s)
    <3>1. \A r, q \in events' : r.i = q.i /\ r.e = q.e => r = q
      BY <2>2, InsertOnce
    <3>2. \A r \in events' : versions[r.i][r.v].from <= EventAt(r.e) /\ EventAt(r.e) < versions[r.i][r.v].to
      BY <1>1, <1>6 DEF RowsInVersion, Covers, EventAt
    <3>3. \A r \in events' : \A e \in 1..(r.e - 1) : Filled(r, e, events')
      <4>1. SUFFICES ASSUME NEW r \in events', NEW e \in 1..(r.e - 1) PROVE Filled(r, e, events')
        OBVIOUS
      <4>2. CASE r \in events
        BY <2>2, <4>1, <4>2 DEF FundingInv, NoHoles, Filled
      <4>3. CASE r \in Inserted(s)
        BY <2>2, <4>1, <4>3, NewRowIsFilled DEF Inserted
      <4>. QED
        BY <2>2, <4>1, <4>2, <4>3
    <3>. QED
      BY <1>1, <3>1, <3>2, <3>3 DEF NoHoles, Filled, EventAt
  <2>. QED
    BY <1>2, <2>1, <2>2
<1>. QED
  BY <1>4, <1>5, <1>6, <1>7, <1>8 DEF FundingInv

LEMMA FundingStepKeeps ==
  ASSUME FundingInv, [FundingNext]_fundingVars
  PROVE  FundingInv'
<1>1. CASE UNCHANGED fundingVars
  <2>1. UNCHANGED <<time, published, rate, versions, events, sweep>>
    BY <1>1 DEF fundingVars
  <2>2. FundingTypeOK' /\ time <= time'
    BY <2>1, BoundsOfFunding DEF FundingInv, FundingTypeOK
  <2>. QED
    BY <2>1, <2>2, OutsideStepKeeps
<1>2. CASE FundingTick
  BY <1>2, VenueMovesKeep
<1>3. ASSUME NEW i \in Symbols,
             PublishSettlement(i) \/ (\E e \in 1..Settlements : Revise(i, e))
               \/ (\E changed \in BOOLEAN : EndVersion(i, changed))
      PROVE  FundingInv'
  BY <1>3, VenueMovesKeep, EndVersionKeeps
<1>4. ASSUME NEW s \in Sweeps,
             StartSweep(s) \/ (\E i \in Symbols : Fetch(s, i) \/ FetchFails(s, i)) \/ Persist(s) \/ SweepLost(s)
      PROVE  FundingInv'
  BY <1>4, StartSweepKeeps, FetchKeeps, SweepFailsKeep, PersistKeeps
<1>. QED
  BY <1>1, <1>2, <1>3, <1>4 DEF FundingNext

THEOREM HistoryHasNoHoles == FundingSpec => []NoHoles
<1>1. FundingInv => NoHoles
  BY DEF FundingInv
<1>. QED
  BY <1>1, FundingInitHolds, FundingStepKeeps, PTL DEF FundingSpec

-----------------------------------------------------------------------------
(***************************************************************************)
(* Side by side: each component's invariant holds, whoever moves.          *)
(***************************************************************************)

LEMMA EachStepIsTheirs ==
  ASSUME [EachNext]_eachVars
  PROVE  [RecoveryNext]_recoveryVars /\ [FundingNext]_fundingVars
  BY DEF EachNext, eachVars, StoreMoves, DepthMoves, RecoveryMoves, FundingMoves

(***************************************************************************)
(* A published repair is one, its files are linked and its row ends, and   *)
(* the history of fundings has no holes (RecoveryRuns, FundingHistory).    *)
(***************************************************************************)
THEOREM RecordStaysHonest == EachSpec => []RecordIsHonest
<1>1. EachInit => RecoveryInv /\ FundingInv
  BY RecoveryInitHolds, FundingInitHolds DEF EachInit
<1>2. RecoveryInv /\ FundingInv /\ [EachNext]_eachVars => RecoveryInv' /\ FundingInv'
  BY EachStepIsTheirs, RecoveryStepKeeps, FundingStepKeeps
<1>3. RecoveryInv /\ FundingInv => RecordIsHonest
  BY DEF RecoveryInv, FundingInv, RecordIsHonest
<1>. QED
  BY <1>1, <1>2, <1>3, PTL DEF EachSpec
=============================================================================
