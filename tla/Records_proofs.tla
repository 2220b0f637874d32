------------------------------- MODULE Records_proofs -------------------------------
(***************************************************************************)
(* Proofs about components that MCRecords runs side by side: the request   *)
(* budget of MEXC, the publication of audits and the finalizing of         *)
(* captures.                                                               *)
(***************************************************************************)
EXTENDS MCRecords, ExtremumTheorems, FunctionTheorems, SequenceTheorems

-----------------------------------------------------------------------------
(***************************************************************************)
(* MexcBudget, for every set of callers, lanes, limits, window length and  *)
(* clock, set back as often as it likes.  RollingWindow speaks of all      *)
(* attempts ever admitted, the transaction sees only the rows it kept.  The*)
(* strengthening (Kept) says that every admitted attempt younger than one  *)
(* window, seen from the last recorded clock, is still a row, and that none*)
(* is younger than that clock.                                             *)
(***************************************************************************)

KeptRows ==
  /\ rows \subseteq admitted
  /\ \A a \in admitted : a.at <= lastClock /\ a.ticket < ticket
  /\ \A a \in admitted : a.at > lastClock - Window => a \in rows

Recorded == \A end \in cooldowns : end <= cooldownUntil

(* RollingWindow for every window, whether an attempt ends it or not. *)
EveryWindow ==
  \A end \in Nat :
    /\ Cardinality(InWindow(admitted, end)) <= Total
    /\ \A lane \in Lane : Cardinality(OfLane(InWindow(admitted, end), lane)) <= Limit[lane]

IInv == TypeOK /\ KeptRows /\ Recorded /\ EveryWindow

-----------------------------------------------------------------------------
(* The delay *)

(* A full window makes its caller wait, for a whole number of ticks. *)
LEMMA FullWindowWaits ==
  ASSUME NEW S \in SUBSET Attempt, IsFiniteSet(S), NEW n \in Nat \ {0}, NEW clockNow \in Nat,
         \A a \in S : a.at > clockNow - Window /\ a.at <= clockNow
  PROVE  /\ WaitFor(S, n, clockNow) \subseteq Int
         /\ \A w \in WaitFor(S, n, clockNow) : 0 < w /\ w <= Window
         /\ WaitFor(S, n, clockNow) = {} => Cardinality(S) < n
<1> DEFINE Times == {a.at : a \in S}
           OldOnes == {b \in S : Cardinality({c \in S : c.at >= b.at}) >= n}
           T == {a.at : a \in OldOnes}
<1>1. Cardinality(S) \in Nat
  BY FS_CardinalityType
<1>2. CASE Cardinality(S) >= n
  <2>1. S # {}
    BY <1>2, FS_EmptySet
  <2>2. Times \in SUBSET Nat /\ Times # {}
    BY <2>1 DEF Attempt
  <2>3. PICK m \in Times : \A y \in Times : m <= y
    BY <2>2, LeastExists
  <2>4. PICK b \in S : m = b.at
    BY <2>3
  <2>5. {c \in S : c.at >= b.at} = S
    BY <2>2, <2>3, <2>4
  <2>6. b \in OldOnes
    BY <1>2, <2>4, <2>5
  <2>7. T \in SUBSET Int /\ T # {} /\ \A x \in T : x <= clockNow
    <3>1. OldOnes \subseteq S /\ \A a \in S : a.at \in Int /\ a.at <= clockNow
      BY DEF Attempt
    <3>2. \A x \in T : \E a \in S : x = a.at
      BY <3>1
    <3>3. b.at \in T
      BY <2>6
    <3>. HIDE DEF T, OldOnes
    <3>. QED
      BY <3>1, <3>2, <3>3
  <2>8. Max(T) \in T
    <3>. HIDE DEF T
    <3>. QED
      BY <2>7, MaxOfBounded
  <2>9. PICK a \in S : Max(T) = a.at
    BY <2>8
  <2>10. a.at \in Nat /\ a.at > clockNow - Window /\ a.at <= clockNow
    <3>. HIDE DEF T
    <3>. QED
      BY <2>9 DEF Attempt
  <2>11. NthNewest(S, n) = Max(T)
    BY DEF NthNewest
  <2>12. WaitFor(S, n, clockNow) = {a.at + Window - clockNow}
    BY <1>2, <2>9, <2>11 DEF WaitFor
  <2>. QED
    BY <2>10, <2>12, BudgetAssumption
<1>3. CASE ~(Cardinality(S) >= n)
  BY <1>1, <1>3 DEF WaitFor
<1>. QED
  BY <1>2, <1>3

LEMMA RecentRows ==
  ASSUME TypeOK, KeptRows, NEW lane \in Lane, NEW clockNow \in Nat, clockNow >= lastClock
  PROVE  /\ Recent(clockNow) \in SUBSET Attempt /\ IsFiniteSet(Recent(clockNow))
         /\ OfLane(Recent(clockNow), lane) \in SUBSET Attempt
         /\ IsFiniteSet(OfLane(Recent(clockNow), lane))
         /\ \A a \in Recent(clockNow) : a.at > clockNow - Window /\ a.at <= clockNow
<1>1. Recent(clockNow) \in SUBSET rows /\ OfLane(Recent(clockNow), lane) \in SUBSET rows
  BY DEF Recent, OfLane
<1>2. IsFiniteSet(Recent(clockNow)) /\ IsFiniteSet(OfLane(Recent(clockNow), lane))
  BY <1>1, FS_Subset DEF TypeOK
<1>3. \A a \in Recent(clockNow) : a.at > clockNow - Window /\ a.at <= clockNow
  <2>1. SUFFICES ASSUME NEW a \in Recent(clockNow) PROVE a.at > clockNow - Window /\ a.at <= clockNow
    OBVIOUS
  <2>2. a \in rows /\ a \in admitted /\ a.at \in Nat /\ a.at <= lastClock /\ lastClock \in Nat
    BY <1>1 DEF TypeOK, KeptRows, Attempt
  <2>. QED
    BY <2>2 DEF Recent
<1>. QED
  BY <1>1, <1>2, <1>3 DEF TypeOK

(* A window has room at t, with nothing admitted before, if the wait is over. *)
LEMMA WaitEnds ==
  ASSUME NEW S \in SUBSET Attempt, IsFiniteSet(S), NEW n \in Nat \ {0}, NEW clockNow \in Nat,
         \A a \in S : a.at <= clockNow,
         NEW t \in Nat, t >= clockNow
  PROVE  Cardinality({a \in S : a.at > t - Window}) < n
           <=> \A w \in WaitFor(S, n, clockNow) : t - clockNow >= w
<1> DEFINE OldOnes == {b \in S : Cardinality({c \in S : c.at >= b.at}) >= n}
           T == {a.at : a \in OldOnes}
           Left == {a \in S : a.at > t - Window}
<1>1. /\ IsFiniteSet(Left) /\ Cardinality(Left) \in Nat /\ Cardinality(Left) <= Cardinality(S)
      /\ Cardinality(S) \in Nat
  <2>1. Left \subseteq S
    OBVIOUS
  <2>. HIDE DEF Left
  <2>. QED
    BY <2>1, FS_Subset, FS_CardinalityType
<1>2. CASE ~(Cardinality(S) >= n)
  <2>1. WaitFor(S, n, clockNow) = {} /\ Cardinality(Left) < n
    <3>. HIDE DEF Left
    <3>. QED
      BY <1>1, <1>2 DEF WaitFor
  <2>. QED
    BY <2>1
<1>3. CASE Cardinality(S) >= n
  <2>1. OldOnes # {}
    <3>1. S # {}
      BY <1>3, FS_EmptySet
    <3>2. {a.at : a \in S} \in SUBSET Nat /\ {a.at : a \in S} # {}
      BY <3>1 DEF Attempt
    <3>3. PICK m \in {a.at : a \in S} : \A y \in {a.at : a \in S} : m <= y
      BY <3>2, LeastExists
    <3>4. PICK b \in S : m = b.at
      BY <3>3
    <3>5. {c \in S : c.at >= b.at} = S
      BY <3>2, <3>3, <3>4
    <3>. QED
      BY <1>3, <3>4, <3>5
  <2>2. \A x \in T : \E b \in OldOnes : x = b.at /\ b \in S /\ x \in Nat /\ x <= clockNow
    BY DEF Attempt
  <2>3. T \in SUBSET Int /\ T # {} /\ \A x \in T : x <= clockNow
    <3>1. T # {}
      BY <2>1
    <3>. HIDE DEF T, OldOnes
    <3>. QED
      BY <2>2, <3>1
  <2>4. Max(T) \in T /\ \A y \in T : Max(T) >= y
    <3>. HIDE DEF T
    <3>. QED
      BY <2>3, MaxOfBounded
  <2>5. PICK b \in OldOnes : Max(T) = b.at /\ b \in S /\ b.at \in Nat
    BY <2>2, <2>4
  <2>6. WaitFor(S, n, clockNow) = {b.at + Window - clockNow}
    <3>1. NthNewest(S, n) = Max(T)
      BY DEF NthNewest
    <3>. HIDE DEF T, OldOnes
    <3>. QED
      BY <1>3, <2>5, <3>1 DEF WaitFor
  <2>7. ASSUME ~(Cardinality(Left) < n) PROVE t < b.at + Window
    <3>1. Left # {}
      BY <2>7, FS_EmptySet
    <3>2. {a.at : a \in Left} \in SUBSET Nat /\ {a.at : a \in Left} # {}
      BY <3>1 DEF Attempt
    <3>3. PICK m \in {a.at : a \in Left} : \A y \in {a.at : a \in Left} : m <= y
      BY <3>2, LeastExists
    <3>4. PICK f \in Left : m = f.at
      BY <3>3
    <3> DEFINE NewerOnes == {c \in S : c.at >= f.at}
    <3>5. Left \subseteq NewerOnes
      BY <3>2, <3>3, <3>4
    <3>6. IsFiniteSet(NewerOnes)
      <4>1. NewerOnes \subseteq S
        OBVIOUS
      <4>. HIDE DEF NewerOnes
      <4>. QED
        BY <4>1, FS_Subset
    <3>7. Cardinality(NewerOnes) \in Nat /\ Cardinality(Left) <= Cardinality(NewerOnes)
      <4>. HIDE DEF NewerOnes, Left
      <4>. QED
        BY <3>5, <3>6, FS_Subset, FS_CardinalityType
    <3>8. f \in OldOnes
      <4>1. f \in S /\ Cardinality(NewerOnes) >= n
        BY <1>1, <2>7, <3>7
      <4>. QED
        BY <4>1
    <3>9. f.at <= b.at /\ f.at \in Nat /\ f.at > t - Window
      <4>1. f.at \in T
        BY <3>8
      <4>2. f.at \in Nat /\ f.at > t - Window
        BY <3>4 DEF Attempt
      <4>. HIDE DEF T
      <4>. QED
        BY <2>4, <2>5, <4>1, <4>2
    <3>. QED
      BY <2>5, <3>9, BudgetAssumption
  <2>8. ASSUME t < b.at + Window PROVE ~(Cardinality(Left) < n)
    <3> DEFINE NewerOnes == {c \in S : c.at >= b.at}
    <3>1. NewerOnes \subseteq Left
      <4>1. SUFFICES ASSUME NEW c \in S, c.at >= b.at PROVE c.at > t - Window
        OBVIOUS
      <4>2. c.at \in Nat
        BY DEF Attempt
      <4>. QED
        BY <2>5, <2>8, <4>1, <4>2, BudgetAssumption
    <3>2. Cardinality(NewerOnes) >= n
      BY <2>5
    <3>3. Cardinality(NewerOnes) \in Nat /\ Cardinality(NewerOnes) <= Cardinality(Left)
      <4>. HIDE DEF NewerOnes, Left
      <4>. QED
        BY <1>1, <3>1, FS_Subset, FS_CardinalityType
    <3>. HIDE DEF NewerOnes, Left
    <3>. QED
      BY <1>1, <3>2, <3>3
  <2>9. (\A w \in WaitFor(S, n, clockNow) : t - clockNow >= w) <=> t >= b.at + Window
    BY <2>5, <2>6, BudgetAssumption
  <2>10. Cardinality(Left) < n <=> \A w \in WaitFor(S, n, clockNow) : t - clockNow >= w
    <3>. HIDE DEF Left
    <3>. QED
      BY <2>5, <2>7, <2>8, <2>9, BudgetAssumption
  <2>. QED
    BY <2>10
<1>. QED
  BY <1>2, <1>3

(* The window has room for the lane, and no cool-down holds it. *)
Room(lane, t) ==
  /\ Cardinality(Recent(t)) < Total
  /\ Cardinality(OfLane(Recent(t), lane)) < Limit[lane]
  /\ cooldownUntil <= t

(* The delay is the least time after which there is room. *)
LEMMA DelayIsLeast ==
  ASSUME TypeOK, KeptRows, NEW lane \in Lane, NEW clockNow \in Nat, clockNow >= lastClock
  PROVE  /\ Delay(lane, clockNow) \in Nat
         /\ \A t \in Nat : t >= clockNow => (Room(lane, t) <=> t - clockNow >= Delay(lane, clockNow))
<1> DEFINE all == WaitFor(Recent(clockNow), Total, clockNow)
           own == WaitFor(OfLane(Recent(clockNow), lane), Limit[lane], clockNow)
           D == {0, cooldownUntil - clockNow} \cup all \cup own
<1>a. /\ cooldownUntil \in Nat /\ Window \in Nat /\ Total \in Nat \ {0}
      /\ Limit[lane] \in Nat \ {0}
  BY BudgetAssumption DEF TypeOK
<1>b. \A a \in OfLane(Recent(clockNow), lane) : a.at > clockNow - Window /\ a.at <= clockNow
  BY RecentRows DEF OfLane
<1>1. all \subseteq Int /\ \A w \in all : w <= Window
  BY <1>a, RecentRows, FullWindowWaits
<1>2. own \subseteq Int /\ \A w \in own : w <= Window
  BY <1>a, <1>b, RecentRows, FullWindowWaits
<1>c. D \subseteq Int /\ 0 \in D /\ \A x \in D : x <= Window + cooldownUntil
  <2>. HIDE DEF all, own
  <2>. QED
    BY <1>1, <1>2, <1>a
<1>3. Max(D) \in D /\ \A y \in D : Max(D) >= y
  <2>1. Window + cooldownUntil \in Int
    BY <1>a
  <2>. HIDE DEF D
  <2>. QED
    BY <1>c, <2>1, MaxOfBounded
<1>4. Delay(lane, clockNow) = Max(D)
  BY DEF Delay
<1>5. Max(D) \in Nat
  <2> DEFINE m == Max(D)
  <2>1. m \in D
    BY <1>3
  <2>2. m \in Int /\ m >= 0
    <3>. HIDE DEF D, m
    <3>1. D \subseteq Int /\ 0 \in D
      BY <1>c
    <3>2. \A y \in D : m >= y
      BY <1>3 DEF m
    <3>. QED
      BY <2>1, <3>1, <3>2
  <2>. QED
    BY <2>2
<1>6. ASSUME NEW t \in Nat, t >= clockNow
      PROVE  Room(lane, t) <=> t - clockNow >= Max(D)
  <2>1. /\ Recent(t) = {a \in Recent(clockNow) : a.at > t - Window}
        /\ OfLane(Recent(t), lane) = {a \in OfLane(Recent(clockNow), lane) : a.at > t - Window}
    <3>1. \A a \in rows : a.at \in Nat
      BY DEF TypeOK, Attempt
    <3>2. \A a \in rows : a.at > t - Window => a.at > clockNow - Window
      BY <1>a, <1>6, <3>1
    <3>. QED
      BY <3>2 DEF Recent, OfLane
  <2>2. Cardinality(Recent(t)) < Total <=> \A w \in all : t - clockNow >= w
    <3>1. /\ Recent(clockNow) \in SUBSET Attempt /\ IsFiniteSet(Recent(clockNow))
          /\ \A a \in Recent(clockNow) : a.at <= clockNow
      BY RecentRows
    <3>2. Cardinality({a \in Recent(clockNow) : a.at > t - Window}) < Total
            <=> \A w \in all : t - clockNow >= w
      BY <1>6, <1>a, <3>1, WaitEnds
    <3>. QED
      BY <2>1, <3>2
  <2>3. Cardinality(OfLane(Recent(t), lane)) < Limit[lane] <=> \A w \in own : t - clockNow >= w
    <3>1. /\ OfLane(Recent(clockNow), lane) \in SUBSET Attempt
          /\ IsFiniteSet(OfLane(Recent(clockNow), lane))
          /\ \A a \in OfLane(Recent(clockNow), lane) : a.at <= clockNow
      BY <1>b, RecentRows
    <3>2. Cardinality({a \in OfLane(Recent(clockNow), lane) : a.at > t - Window}) < Limit[lane]
            <=> \A w \in own : t - clockNow >= w
      BY <1>6, <1>a, <3>1, WaitEnds
    <3>. QED
      BY <2>1, <3>2
  <2>4. Room(lane, t) <=> \A w \in D : t - clockNow >= w
    <3>1. cooldownUntil <= t <=> t - clockNow >= cooldownUntil - clockNow
      BY <1>a
    <3>2. t - clockNow >= 0
      BY <1>6
    <3>. HIDE DEF all, own
    <3>. QED
      BY <2>2, <2>3, <3>1, <3>2 DEF Room
  <2>5. \A w \in D : w \in Int
    BY <1>1, <1>2, <1>a
  <2>. HIDE DEF D
  <2>. QED
    BY <1>3, <1>5, <2>4, <2>5
<1>. QED
  BY <1>4, <1>5, <1>6

(* An attempt that need not wait finds room. *)
LEMMA NoDelayMeansRoom ==
  ASSUME TypeOK, KeptRows, NEW lane \in Lane, NEW clockNow \in Nat, clockNow >= lastClock,
         Delay(lane, clockNow) = 0
  PROVE  Room(lane, clockNow)
  BY DelayIsLeast

(* The delay is exact at every clock, not only at those up to MaxClock. *)
LEMMA DelaysAreExact == TypeOK /\ KeptRows => DelayIsExact
<1>1. SUFFICES ASSUME TypeOK, KeptRows, NEW lane \in Lane, NEW clockNow \in lastClock..MaxClock
      PROVE  /\ Delay(lane, clockNow + Delay(lane, clockNow)) = 0
             /\ \A t \in clockNow..(clockNow + Delay(lane, clockNow) - 1) : Delay(lane, t) > 0
  BY DEF DelayIsExact
<1> DEFINE d == Delay(lane, clockNow)
<1>2. clockNow \in Nat /\ clockNow >= lastClock /\ lastClock \in Nat
  BY <1>1 DEF TypeOK
<1>3. d \in Nat /\ \A t \in Nat : t >= clockNow => (Room(lane, t) <=> t - clockNow >= d)
  BY <1>1, <1>2, DelayIsLeast
<1>4. \A t \in Nat : t >= clockNow => Delay(lane, t) \in Nat /\ (Room(lane, t) <=> Delay(lane, t) = 0)
  <2>1. SUFFICES ASSUME NEW t \in Nat, t >= clockNow
        PROVE  Delay(lane, t) \in Nat /\ (Room(lane, t) <=> Delay(lane, t) = 0)
    OBVIOUS
  <2>2. t >= lastClock
    BY <1>2, <2>1
  <2>3. Delay(lane, t) \in Nat /\ (Room(lane, t) <=> t - t >= Delay(lane, t))
    BY <1>1, <2>2, DelayIsLeast
  <2>. QED
    BY <2>3
<1>5. Delay(lane, clockNow + d) = 0
  <2>1. clockNow + d \in Nat /\ clockNow + d >= clockNow /\ clockNow + d - clockNow >= d
    BY <1>2, <1>3
  <2>. HIDE DEF d
  <2>. QED
    BY <1>3, <1>4, <2>1
<1>6. ASSUME NEW t \in clockNow..(clockNow + d - 1) PROVE Delay(lane, t) > 0
  <2>1. t \in Nat /\ t >= clockNow /\ ~(t - clockNow >= d)
    BY <1>2, <1>3, <1>6
  <2>. QED
    BY <1>3, <1>4, <2>1
<1>. QED
  BY <1>5, <1>6

-----------------------------------------------------------------------------
(* The invariant *)

LEMMA InitHolds == Init => IInv
<1>. SUFFICES ASSUME Init PROVE IInv
  OBVIOUS
<1>1. TypeOK
  BY FS_EmptySet DEF Init, TypeOK
<1>2. KeptRows /\ Recorded
  BY DEF Init, KeptRows, Recorded
<1>3. EveryWindow
  <2>1. \A end : InWindow(admitted, end) = {} /\ \A lane : OfLane(InWindow(admitted, end), lane) = {}
    BY DEF Init, InWindow, OfLane
  <2>. QED
    BY <2>1, FS_EmptySet, BudgetAssumption DEF EveryWindow
<1>. QED
  BY <1>1, <1>2, <1>3 DEF IInv

(* A caller's clock is a natural number whenever its transaction may start. *)
LEMMA NowIsNat ==
  ASSUME TypeOK, NEW p \in Caller, HasReading(p)
  PROVE  Now(p) \in Nat /\ (Used(p) => reading' \in [Caller -> Nat \cup {NoReading}])
  BY DEF TypeOK, HasReading, Now, Used

LEMMA OneMoreFits ==
  ASSUME NEW T, IsFiniteSet(T), NEW S \in SUBSET T, NEW n \in Nat, Cardinality(T) < n, NEW x
  PROVE  Cardinality(S \cup {x}) <= n
<1>1. IsFiniteSet(S) /\ Cardinality(S) <= Cardinality(T)
  BY FS_Subset
<1>2. Cardinality(S) \in Nat /\ Cardinality(T) \in Nat
  BY <1>1, FS_CardinalityType
<1>3. Cardinality(S \cup {x}) = IF x \in S THEN Cardinality(S) ELSE Cardinality(S) + 1
  BY <1>1, FS_AddElement
<1>. QED
  BY <1>1, <1>2, <1>3

(***************************************************************************)
(* Admitting one more attempt at `clockNow`: a window that ends before `clockNow`    *)
(* does not see it, and one that ends later saw only recent rows.          *)
(***************************************************************************)
LEMMA WindowsStayBounded ==
  ASSUME IInv, NEW clockNow \in Nat, clockNow >= lastClock, NEW lane \in Lane,
         Cardinality(Recent(clockNow)) < Total,
         Cardinality(OfLane(Recent(clockNow), lane)) < Limit[lane],
         NEW a, a = [ticket |-> ticket, at |-> clockNow, lane |-> lane],
         admitted' = admitted \cup {a}
  PROVE  EveryWindow'
<1>. USE DEF IInv
<1>a. a \in Attempt /\ a.at = clockNow /\ a.lane = lane /\ a.ticket = ticket
  BY DEF Attempt, TypeOK
<1>1. SUFFICES ASSUME NEW end \in Nat
      PROVE /\ Cardinality(InWindow(admitted', end)) <= Total
            /\ \A l \in Lane : Cardinality(OfLane(InWindow(admitted', end), l)) <= Limit[l]
  BY DEF EveryWindow
<1>2. CASE ~(end - Window < clockNow /\ clockNow <= end)
  <2>1. InWindow(admitted', end) = InWindow(admitted, end)
    BY <1>a, <1>2 DEF InWindow
  <2>. QED
    BY <2>1 DEF EveryWindow
<1>3. CASE end - Window < clockNow /\ clockNow <= end
  <2>1. InWindow(admitted, end) \subseteq Recent(clockNow)
    <3>1. SUFFICES ASSUME NEW x \in admitted, end - Window < x.at PROVE x \in Recent(clockNow)
      BY DEF InWindow
    <3>2. x.at \in Nat /\ lastClock \in Nat /\ x.at > clockNow - Window /\ x.at > lastClock - Window
      BY <1>3, <3>1, BudgetAssumption DEF TypeOK, Attempt
    <3>. QED
      BY <3>1, <3>2 DEF KeptRows, Recent
  <2>2. InWindow(admitted', end) = InWindow(admitted, end) \cup {a}
    BY <1>a, <1>3 DEF InWindow
  <2>3. \A l \in Lane : OfLane(InWindow(admitted, end), l) \subseteq OfLane(Recent(clockNow), l)
    BY <2>1 DEF OfLane
  <2>4. /\ IsFiniteSet(Recent(clockNow)) /\ Cardinality(Recent(clockNow)) \in Nat
        /\ \A l \in Lane : IsFiniteSet(OfLane(Recent(clockNow), l))
    BY RecentRows, FS_CardinalityType
  <2>5. Cardinality(InWindow(admitted', end)) <= Total
    BY <2>1, <2>2, <2>4, OneMoreFits, BudgetAssumption
  <2>6. ASSUME NEW l \in Lane
        PROVE  Cardinality(OfLane(InWindow(admitted', end), l)) <= Limit[l]
    <3> DEFINE old == OfLane(InWindow(admitted, end), l)
    <3>1. CASE l = lane
      <4>1. OfLane(InWindow(admitted', end), l) = old \cup {a}
        BY <1>a, <2>2, <3>1 DEF OfLane
      <4>2. old \subseteq OfLane(Recent(clockNow), l) /\ IsFiniteSet(OfLane(Recent(clockNow), l))
        BY <2>3, <2>4
      <4>3. Limit[l] \in Nat /\ Cardinality(OfLane(Recent(clockNow), l)) < Limit[l]
        BY <3>1, BudgetAssumption
      <4>. HIDE DEF old
      <4>. QED
        BY <4>1, <4>2, <4>3, OneMoreFits
    <3>2. CASE l # lane
      <4>1. OfLane(InWindow(admitted', end), l) = old
        BY <1>a, <2>2, <3>2 DEF OfLane
      <4>. QED
        BY <4>1 DEF EveryWindow
    <3>. QED
      BY <3>1, <3>2
  <2>. QED
    BY <1>3, <2>5, <2>6
<1>. QED
  BY <1>2, <1>3

LEMMA ReserveHolds ==
  ASSUME IInv, NEW p \in Caller, NEW lane \in Lane, Reserve(p, lane)
  PROVE  IInv'
<1> DEFINE clockNow == Now(p)
           a == [ticket |-> ticket, at |-> clockNow, lane |-> lane]
<1>1. /\ clockNow \in Nat /\ lastClock \in Nat /\ clockNow >= lastClock /\ lastClock' = clockNow
      /\ reading' \in [Caller -> Nat \cup {NoReading}]
  BY NowIsNat DEF Reserve, IInv, TypeOK
<1>2. Recent(clockNow) \in SUBSET Attempt /\ IsFiniteSet(Recent(clockNow)) /\ Recent(clockNow) \subseteq rows
  BY <1>1, RecentRows DEF IInv, Recent
<1>3. \A x \in admitted :
        /\ x.at \in Nat /\ x.ticket \in Nat
        /\ x.at > clockNow - Window => x \in Recent(clockNow)
  <2>1. SUFFICES ASSUME NEW x \in admitted
        PROVE  x.at \in Nat /\ x.ticket \in Nat /\ (x.at > clockNow - Window => x \in Recent(clockNow))
    OBVIOUS
  <2>2. x.at \in Nat /\ x.ticket \in Nat
    BY DEF IInv, TypeOK, Attempt
  <2>. QED
    BY <1>1, <2>2, BudgetAssumption DEF IInv, KeptRows, Recent
<1>4. Recorded'
  BY DEF IInv, Recorded, Reserve
<1>5. CASE /\ Delay(lane, clockNow) = 0 /\ rows' = Recent(clockNow) \cup {a}
           /\ admitted' = admitted \cup {a} /\ ticket' = ticket + 1
  <2>1. a \in Attempt /\ a.at = clockNow /\ a.ticket = ticket /\ ticket \in Nat
    BY <1>1 DEF IInv, TypeOK, Attempt
  <2>2. IsFiniteSet(rows') /\ IsFiniteSet(admitted')
    BY <1>2, <1>5, FS_AddElement DEF IInv, TypeOK
  <2>. HIDE DEF a
  <2>3. TypeOK'
    BY <1>1, <1>2, <1>5, <2>1, <2>2 DEF IInv, TypeOK, Reserve
  <2>4. KeptRows'
    <3>1. rows' \subseteq admitted'
      BY <1>2, <1>5 DEF IInv, KeptRows
    <3>2. \A x \in admitted' : x.at <= lastClock' /\ x.ticket < ticket'
      <4>1. \A x \in admitted : x.at <= lastClock /\ x.ticket < ticket
        BY DEF IInv, KeptRows
      <4>. HIDE DEF clockNow
      <4>. QED
        BY <1>1, <1>3, <1>5, <2>1, <4>1
    <3>3. \A x \in admitted' : x.at > lastClock' - Window => x \in rows'
      BY <1>1, <1>3, <1>5
    <3>. QED
      BY <3>1, <3>2, <3>3 DEF KeptRows
  <2>5. EveryWindow'
    <3>1. /\ Cardinality(Recent(clockNow)) < Total
          /\ Cardinality(OfLane(Recent(clockNow), lane)) < Limit[lane]
      BY <1>1, <1>5, NoDelayMeansRoom DEF IInv, Room
    <3>. QED
      BY <1>1, <1>5, <3>1, WindowsStayBounded DEF a
  <2>. QED
    BY <1>4, <2>3, <2>4, <2>5 DEF IInv
<1>6. CASE rows' = Recent(clockNow) /\ UNCHANGED <<admitted, ticket>>
  <2>1. TypeOK'
    BY <1>1, <1>2, <1>6 DEF IInv, TypeOK, Reserve
  <2>2. KeptRows'
    <3>1. rows' \subseteq admitted'
      BY <1>2, <1>6 DEF IInv, KeptRows
    <3>2. \A x \in admitted' : x.at <= lastClock' /\ x.ticket < ticket'
      <4>1. \A x \in admitted : x.at <= lastClock /\ x.ticket < ticket
        BY DEF IInv, KeptRows
      <4>. HIDE DEF clockNow
      <4>. QED
        BY <1>1, <1>3, <1>6, <4>1
    <3>3. \A x \in admitted' : x.at > lastClock' - Window => x \in rows'
      BY <1>1, <1>3, <1>6
    <3>. QED
      BY <3>1, <3>2, <3>3 DEF KeptRows
  <2>3. EveryWindow'
    BY <1>6 DEF IInv, EveryWindow
  <2>. QED
    BY <1>4, <2>1, <2>2, <2>3 DEF IInv
<1>. QED
  BY <1>5, <1>6 DEF Reserve

LEMMA MaxOfTwo ==
  ASSUME NEW x \in Nat, NEW y \in Nat
  PROVE  Max({x, y}) \in Nat /\ Max({x, y}) >= x /\ Max({x, y}) >= y
<1>1. {x, y} \in SUBSET Int /\ {x, y} # {} /\ \A z \in {x, y} : z <= x + y
  OBVIOUS
<1>2. x + y \in Int
  OBVIOUS
<1>3. Max({x, y}) \in {x, y} /\ \A z \in {x, y} : Max({x, y}) >= z
  BY <1>1, <1>2, MaxOfBounded
<1>. QED
  BY <1>3

LEMMA CooldownRecorded ==
  ASSUME IInv, NEW p \in Caller, NEW pause \in Pause, Cooldown(p, pause)
  PROVE  IInv'
<1>1. /\ Now(p) \in Nat /\ lastClock \in Nat /\ Now(p) >= lastClock
      /\ Now(p) + pause \in Nat /\ cooldownUntil \in Nat
      /\ reading' \in [Caller -> Nat \cup {NoReading}]
  BY NowIsNat, BudgetAssumption DEF Cooldown, IInv, TypeOK
<1>2. /\ cooldownUntil' \in Nat /\ cooldownUntil' >= cooldownUntil
      /\ cooldownUntil' >= Now(p) + pause
  BY <1>1, MaxOfTwo DEF Cooldown
<1>3. TypeOK'
  BY <1>1, <1>2 DEF IInv, TypeOK, Cooldown
<1>4. KeptRows'
  <2>1. \A x \in admitted : x.at \in Nat
    BY DEF IInv, TypeOK, Attempt
  <2>. QED
    BY <1>1, <2>1, BudgetAssumption DEF IInv, KeptRows, Cooldown
<1>5. Recorded'
  <2>1. \A end \in cooldowns : end \in Nat /\ end <= cooldownUntil
    BY DEF IInv, TypeOK, Recorded
  <2>. QED
    BY <1>1, <1>2, <2>1 DEF Recorded, Cooldown
<1>6. EveryWindow'
  BY DEF IInv, EveryWindow, Cooldown
<1>. QED
  BY <1>3, <1>4, <1>5, <1>6 DEF IInv

LEMMA StepHolds == IInv /\ [Next]_vars => IInv'
<1>. SUFFICES ASSUME IInv, [Next]_vars PROVE IInv'
  OBVIOUS
<1>1. CASE \E p \in Caller : Read(p)
  BY <1>1 DEF Read, IInv, TypeOK, KeptRows, Recorded, EveryWindow
<1>2. CASE \E p \in Caller : Unavailable(p)
  BY <1>2 DEF Unavailable, Used, IInv, TypeOK, KeptRows, Recorded, EveryWindow
<1>3. CASE \E p \in Caller, lane \in Lane : Reserve(p, lane)
  BY <1>3, ReserveHolds
<1>4. CASE \E p \in Caller, pause \in Pause : Cooldown(p, pause)
  BY <1>4, CooldownRecorded
<1>5. CASE ClockChanges
  BY <1>5 DEF ClockChanges, IInv, TypeOK, KeptRows, Recorded, EveryWindow
<1>6. CASE UNCHANGED vars
  BY <1>6 DEF vars, IInv, TypeOK, KeptRows, Recorded, EveryWindow
<1>. QED
  BY <1>1, <1>2, <1>3, <1>4, <1>5, <1>6 DEF Next

LEMMA InvariantHolds == Spec => []IInv
  BY InitHolds, StepHolds, PTL DEF Spec

-----------------------------------------------------------------------------
(* Theorems *)

(* The budget's variables keep their types. *)
THEOREM TypeCorrect == Spec => []TypeOK
  BY InvariantHolds, PTL DEF IInv

(* No window of Window ticks ever holds more attempts than the total, or    *)
(* more of a lane than its limit, for any number of processes, whatever     *)
(* they read from the clock and however often it is set back.               *)
THEOREM BudgetHolds == Spec => []RollingWindow
<1>1. IInv => RollingWindow
  BY DEF IInv, EveryWindow, RollingWindow, TypeOK, Attempt
<1>. QED
  BY <1>1, InvariantHolds, PTL

LEMMA StepRespectsCooldowns ==
  ASSUME IInv, [Next]_vars, NEW a \in admitted' \ admitted, NEW end \in cooldowns
  PROVE  a.at >= end
<1>1. PICK p \in Caller, lane \in Lane : Reserve(p, lane)
  BY DEF Next, vars, Read, Unavailable, Cooldown, ClockChanges
<1>2. Now(p) \in Nat /\ Now(p) >= lastClock /\ Delay(lane, Now(p)) = 0 /\ a.at = Now(p)
  BY <1>1, NowIsNat DEF Reserve, IInv
<1>3. cooldownUntil <= Now(p)
  BY <1>2, NoDelayMeansRoom DEF IInv, Room
<1>4. end \in Nat /\ cooldownUntil \in Nat /\ end <= cooldownUntil
  BY DEF IInv, TypeOK, Recorded
<1>. QED
  BY <1>2, <1>3, <1>4

(* Nothing is admitted before the end of any cool-down recorded before.     *)
THEOREM CooldownIsKept == Spec => CooldownHolds
<1>1. IInv /\ [Next]_vars =>
        [\A a \in admitted' \ admitted, end \in cooldowns : a.at >= end]_vars
  BY StepRespectsCooldowns
<1>. QED
  BY <1>1, InvariantHolds, PTL DEF Spec, CooldownHolds

(* Whoever is refused is told exactly how long to wait: with no other       *)
(* transaction in between it would be admitted then, and not before.        *)
THEOREM DelayStaysExact == Spec => DelayHolds
<1>1. IInv => TypeOK /\ DelayIsExact
  BY DelaysAreExact DEF IInv
<1>. QED
  BY <1>1, InvariantHolds, PTL DEF DelayHolds

-----------------------------------------------------------------------------
(***************************************************************************)
(* AuditPublication: one execution at a time advances the index            *)
(* (OnePublishes), from reports that never change once they are moved      *)
(* (ReportsHeld).                                                          *)
(***************************************************************************)

\* An execution that has the lock.
Publishing == {"evaluate", "move", "index"}

AnExecution ==
  [step : {"none", "locking", "ended"} \cup Publishing, target : Targets \cup {Waiting.target},
   started : Nat, execution : Executions]

AuditTyped ==
  /\ auditClock \in Nat
  /\ audit \in [AuditRuns -> AnExecution]
  /\ \A r \in AuditRuns : audit[r].step # "none" => audit[r].target \in Targets
  /\ index \in [Targets -> [run : AuditRuns, completed : AuditRuns \cup {NoRun}] \cup {NoRun}]

OnePublishes == \A r \in AuditRuns : audit[r].step \in Publishing => owner = r

\* A report says what its execution was, and stays.
ReportsHeld ==
  /\ DOMAIN movedRuns \subseteq AuditRuns
  /\ \A r \in DOMAIN movedRuns :
       /\ audit[r].step \in {"index", "ended"}
       /\ movedRuns[r].target = audit[r].target
       /\ movedRuns[r].started = audit[r].started
       /\ movedRuns[r].execution = audit[r].execution
  /\ \A r \in AuditRuns : audit[r].step = "index" => r \in DOMAIN movedRuns

\* A run that reached the index is there, or another one of its target is.
IndexableHeld ==
  \A r \in indexable : r \in DOMAIN movedRuns /\ index[audit[r].target] # NoRun

AuditInv == AuditTyped /\ OnePublishes /\ ReportsHeld /\ IndexableHeld /\ IndexIsTrue

LEMMA AuditInitHolds == AuditInit => AuditInv
<1> SUFFICES ASSUME AuditInit PROVE AuditInv
  OBVIOUS
<1>1. /\ Waiting.step = "none"
      /\ Waiting \in AnExecution
  BY DEF Waiting, AnExecution, Executions
<1>2. AuditTyped
  BY <1>1 DEF AuditInit, AuditTyped
<1>3. DOMAIN movedRuns = {} /\ \A r \in AuditRuns : audit[r].step = "none"
  BY <1>1 DEF AuditInit
<1>4. QED
  BY <1>2, <1>3 DEF AuditInv, AuditInit, OnePublishes, ReportsHeld, IndexableHeld, IndexIsTrue,
                    Publishing

\* Only the step and, before the report, the result of a run change.
LEMMA StepKeeps ==
  ASSUME AuditInv, NEW r \in AuditRuns,
         audit'[r] \in AnExecution, audit' = [audit EXCEPT ![r] = audit'[r]],
         audit'[r].step # "none" => audit'[r].target \in Targets,
         audit'[r].step \in Publishing => owner' = r,
         \A q \in AuditRuns : q # r /\ audit[q].step \in Publishing => owner' = owner,
         r \in DOMAIN movedRuns =>
           /\ audit'[r].step \in {"index", "ended"} /\ audit'[r].target = audit[r].target
           /\ audit'[r].started = audit[r].started /\ audit'[r].execution = audit[r].execution,
         audit'[r].step = "index" => r \in DOMAIN movedRuns,
         UNCHANGED <<auditClock, movedRuns, index, indexable>>
  PROVE  AuditInv'
<1>1. \A q \in AuditRuns : q # r => audit'[q] = audit[q]
  BY DEF AuditInv, AuditTyped
<1>2. AuditTyped'
  BY <1>1 DEF AuditInv, AuditTyped
<1>3. OnePublishes'
  BY <1>1 DEF AuditInv, OnePublishes
<1>4. ReportsHeld'
  BY <1>1 DEF AuditInv, ReportsHeld
<1>5. \A q \in DOMAIN movedRuns :
        /\ q \in AuditRuns /\ audit'[q].target = audit[q].target
        /\ audit'[q].started = audit[q].started
  BY <1>1 DEF AuditInv, ReportsHeld
<1>6. IndexableHeld'
  BY <1>5 DEF AuditInv, IndexableHeld
<1>7. IndexIsTrue'
  <2>1. \A q, s \in DOMAIN movedRuns : Earlier(q, s)' = Earlier(q, s)
    BY <1>5 DEF Earlier
  <2>2. SUFFICES ASSUME NEW t \in Targets, index[t] # NoRun,
                        index[t].run \in DOMAIN movedRuns
                 PROVE  \A q \in {p \in indexable : audit'[p].target = t} :
                          Earlier(q, index[t].run)'
    BY DEF AuditInv, IndexIsTrue
  <2>3. \A q \in indexable : q \in DOMAIN movedRuns
    BY DEF AuditInv, IndexableHeld
  <2>4. \A q \in {p \in indexable : audit[p].target = t} : Earlier(q, index[t].run)
    BY <2>2 DEF AuditInv, IndexIsTrue
  <2>5. QED
    BY <1>5, <2>1, <2>2, <2>3, <2>4
<1>8. QED
  BY <1>2, <1>3, <1>4, <1>6, <1>7 DEF AuditInv

LEMMA StartAuditKeeps ==
  ASSUME AuditInv, NEW r \in AuditRuns, NEW t \in Targets, StartAudit(r, t)
  PROVE  AuditInv'
<1>1. audit'[r] = [step |-> "locking", target |-> t, started |-> auditClock, execution |-> "failed"]
  BY DEF AuditInv, AuditTyped, StartAudit, Waiting
<1>2. audit' = [audit EXCEPT ![r] = audit'[r]]
  BY <1>1 DEF AuditInv, AuditTyped, StartAudit
<1>3. r \notin DOMAIN movedRuns
  BY DEF AuditInv, ReportsHeld, StartAudit
<1>4. audit'[r] \in AnExecution
  BY <1>1 DEF AuditInv, AuditTyped, AnExecution, Executions
<1>5. /\ audit'[r].step = "locking" /\ audit'[r].target = t
      /\ "locking" \notin Publishing
  BY <1>1 DEF Publishing
<1>6. UNCHANGED <<auditClock, owner, movedRuns, index, indexable>>
  BY DEF StartAudit
<1>7. QED
  BY <1>2, <1>3, <1>4, <1>5, <1>6, StepKeeps

LEMMA LockAuditKeeps ==
  ASSUME AuditInv, NEW r \in AuditRuns, LockAudit(r)
  PROVE  AuditInv'
<1>1. audit'[r] = [audit[r] EXCEPT !.step = "evaluate"]
  BY DEF AuditInv, AuditTyped, LockAudit
<1>2. audit' = [audit EXCEPT ![r] = audit'[r]]
  BY <1>1 DEF AuditInv, AuditTyped, LockAudit
<1>3. /\ r \notin DOMAIN movedRuns
      /\ \A q \in AuditRuns : audit[q].step \notin Publishing
  BY AuditAssumption DEF AuditInv, ReportsHeld, OnePublishes, LockAudit
<1>4. /\ audit'[r] \in AnExecution /\ audit'[r].step = "evaluate"
      /\ audit'[r].target \in Targets
  BY <1>1 DEF AuditInv, AuditTyped, AnExecution, Publishing, LockAudit
<1>5. QED
  BY <1>2, <1>3, <1>4, StepKeeps DEF LockAudit

LEMMA LockUnavailableKeeps ==
  ASSUME AuditInv, NEW r \in AuditRuns, LockUnavailable(r)
  PROVE  AuditInv'
<1>1. audit'[r] = [audit[r] EXCEPT !.step = "ended"]
  BY DEF AuditInv, AuditTyped, LockUnavailable
<1>2. audit' = [audit EXCEPT ![r] = audit'[r]]
  BY <1>1 DEF AuditInv, AuditTyped, LockUnavailable
<1>3. r \notin DOMAIN movedRuns
  BY DEF AuditInv, ReportsHeld, LockUnavailable
<1>4. /\ audit'[r] \in AnExecution /\ audit'[r].step = "ended"
      /\ audit'[r].target \in Targets
  BY <1>1 DEF AuditInv, AuditTyped, AnExecution, LockUnavailable
<1>5. QED
  BY <1>2, <1>3, <1>4, StepKeeps DEF LockUnavailable, Publishing

LEMMA EvaluateRunKeeps ==
  ASSUME AuditInv, NEW r \in AuditRuns, NEW execution \in Executions, EvaluateRun(r, execution)
  PROVE  AuditInv'
<1>1. audit'[r] = [audit[r] EXCEPT !.step = "move", !.execution = execution]
  BY DEF AuditInv, AuditTyped, EvaluateRun
<1>2. audit' = [audit EXCEPT ![r] = audit'[r]]
  BY <1>1 DEF AuditInv, AuditTyped, EvaluateRun
<1>3. r \notin DOMAIN movedRuns /\ owner = r
  BY DEF AuditInv, ReportsHeld, OnePublishes, EvaluateRun, Publishing
<1>4. /\ audit'[r] \in AnExecution /\ audit'[r].step = "move"
      /\ audit'[r].target \in Targets
  BY <1>1 DEF AuditInv, AuditTyped, AnExecution, Publishing, EvaluateRun
<1>5. QED
  BY <1>2, <1>3, <1>4, StepKeeps DEF EvaluateRun

\* The report of a run that was not moved yet is nobody's in the index.
LEMMA MoveRunKeeps ==
  ASSUME AuditInv, NEW r \in AuditRuns, MoveRun(r)
  PROVE  AuditInv'
<1>1. /\ \A q \in AuditRuns : q # r => audit'[q] = audit[q]
      /\ audit'[r] = [audit[r] EXCEPT !.step = "index"]
  BY DEF AuditInv, AuditTyped, MoveRun
<1>2. \A q \in AuditRuns :
        /\ audit'[q].target = audit[q].target /\ audit'[q].started = audit[q].started
        /\ audit'[q].execution = audit[q].execution
  BY <1>1 DEF AuditInv, AuditTyped, AnExecution
<1>3. r \notin DOMAIN movedRuns /\ audit[r].step = "move" /\ audit'[r].step = "index"
  BY <1>1 DEF AuditInv, AuditTyped, AnExecution, ReportsHeld, MoveRun
<1>4. /\ DOMAIN movedRuns' = DOMAIN movedRuns \cup {r}
      /\ movedRuns'[r] = audit[r]
      /\ \A q \in DOMAIN movedRuns : movedRuns'[q] = movedRuns[q]
      /\ UNCHANGED <<auditClock, owner, index, indexable>>
  BY <1>3 DEF MoveRun
<1>5. AuditTyped'
  <2>1. audit'[r] \in AnExecution /\ audit' \in [AuditRuns -> AnExecution]
    BY <1>1 DEF AuditInv, AuditTyped, AnExecution, Publishing, MoveRun
  <2>2. QED
    BY <1>1, <1>2, <1>3, <1>4, <2>1 DEF AuditInv, AuditTyped
<1>6. OnePublishes'
  BY <1>1, <1>3, <1>4 DEF AuditInv, OnePublishes, Publishing
<1>7. ReportsHeld'
  <2>1. DOMAIN movedRuns' \subseteq AuditRuns
    BY <1>4 DEF AuditInv, ReportsHeld
  <2>2. ASSUME NEW q \in DOMAIN movedRuns'
        PROVE  /\ audit'[q].step \in {"index", "ended"}
               /\ movedRuns'[q].target = audit'[q].target
               /\ movedRuns'[q].started = audit'[q].started
               /\ movedRuns'[q].execution = audit'[q].execution
    <3>1. CASE q = r
      BY <1>2, <1>3, <1>4, <3>1
    <3>2. CASE q # r
      BY <1>1, <1>4, <2>1, <3>2 DEF AuditInv, ReportsHeld
    <3>3. QED
      BY <3>1, <3>2
  <2>3. \A q \in AuditRuns : audit'[q].step = "index" => q \in DOMAIN movedRuns'
    BY <1>1, <1>4 DEF AuditInv, ReportsHeld
  <2>4. QED
    BY <2>1, <2>2, <2>3 DEF ReportsHeld
<1>8. IndexableHeld'
  BY <1>2, <1>4 DEF AuditInv, IndexableHeld, ReportsHeld
<1>9. IndexIsTrue'
  <2>1. \A q, s \in AuditRuns : Earlier(q, s)' = Earlier(q, s)
    BY <1>2 DEF Earlier
  <2>2. \A q \in indexable : q \in AuditRuns
    BY DEF AuditInv, IndexableHeld, ReportsHeld
  <2>3. ASSUME NEW t \in Targets, index[t] # NoRun
        PROVE  /\ index[t].run \in DOMAIN movedRuns'
               /\ movedRuns'[index[t].run] = movedRuns[index[t].run]
               /\ index[t].run \in AuditRuns
               /\ index[t].completed # NoRun =>
                    /\ index[t].completed \in DOMAIN movedRuns'
                    /\ movedRuns'[index[t].completed] = movedRuns[index[t].completed]
    BY <1>4, <2>3 DEF AuditInv, IndexIsTrue, ReportsHeld
  <2>4. ASSUME NEW t \in Targets, index[t] # NoRun
        PROVE  \A q \in {p \in indexable : audit'[p].target = t} : Earlier(q, index[t].run)'
    BY <1>2, <1>4, <2>1, <2>2, <2>3, <2>4 DEF AuditInv, IndexIsTrue
  <2>5. QED
    BY <1>4, <2>3, <2>4 DEF AuditInv, IndexIsTrue
<1>10. QED
  BY <1>5, <1>6, <1>7, <1>8, <1>9 DEF AuditInv

LEMMA EarlierIsTransitive ==
  ASSUME AuditInv, NEW p \in AuditRuns, NEW q \in AuditRuns, NEW r \in AuditRuns,
         Earlier(p, q), Earlier(q, r)
  PROVE  Earlier(p, r)
<1>1. /\ p \in Nat /\ q \in Nat /\ r \in Nat
      /\ audit[p].started \in Nat /\ audit[q].started \in Nat /\ audit[r].started \in Nat
  BY AuditAssumption DEF AuditInv, AuditTyped, AnExecution
<1>2. QED
  BY <1>1 DEF Earlier

\* What _publish_index makes of the index, for a run whose report was moved.
LEMMA NewIndexIsTrue ==
  ASSUME AuditInv, NEW r \in AuditRuns, audit[r].step = "index", NEW t \in Targets,
         NEW entry, entry = NewIndex(r)[t]
  PROVE  /\ entry \in [run : AuditRuns, completed : AuditRuns \cup {NoRun}] \cup {NoRun}
         /\ index[t] # NoRun => entry # NoRun
         /\ index[t] # NoRun /\ index[t].completed # NoRun => entry.completed # NoRun
         /\ t = audit[r].target => entry # NoRun /\ Earlier(r, entry.run)
         /\ entry # NoRun =>
              /\ entry.run \in DOMAIN movedRuns /\ movedRuns[entry.run].target = t
              /\ \A q \in {p \in indexable : audit[p].target = t} : Earlier(q, entry.run)
              /\ entry.completed # NoRun =>
                   /\ entry.completed \in DOMAIN movedRuns
                   /\ movedRuns[entry.completed].target = t
                   /\ movedRuns[entry.completed].execution = "completed"
              /\ movedRuns[entry.run].execution = "completed" => entry.completed = entry.run
<1>1. /\ r \in DOMAIN movedRuns /\ movedRuns[r].target = audit[r].target
      /\ movedRuns[r].started = audit[r].started
      /\ movedRuns[r].execution = audit[r].execution
      /\ audit[r].target \in Targets
      /\ r \in Nat /\ audit[r].started \in Nat /\ r # NoRun
  BY AuditAssumption DEF AuditInv, AuditTyped, AnExecution, ReportsHeld
<1>2. index \in [Targets -> [run : AuditRuns, completed : AuditRuns \cup {NoRun}] \cup {NoRun}]
  BY DEF AuditInv, AuditTyped
<1>3. index[t] # NoRun =>
        /\ index[t].run \in DOMAIN movedRuns /\ movedRuns[index[t].run].target = t
        /\ \A q \in {p \in indexable : audit[p].target = t} : Earlier(q, index[t].run)
        /\ index[t].completed # NoRun =>
             /\ index[t].completed \in DOMAIN movedRuns
             /\ movedRuns[index[t].completed].target = t
             /\ movedRuns[index[t].completed].execution = "completed"
        /\ movedRuns[index[t].run].execution = "completed" => index[t].completed = index[t].run
  BY DEF AuditInv, IndexIsTrue
<1>4. index[t] # NoRun =>
        /\ index[t].run \in AuditRuns /\ index[t].run \in Nat /\ index[t].run # NoRun
        /\ movedRuns[index[t].run].started = audit[index[t].run].started
        /\ audit[index[t].run].started \in Nat
  BY <1>2, <1>3, AuditAssumption DEF AuditInv, AuditTyped, AnExecution, ReportsHeld
<1>5. Earlier(r, r)
  BY <1>1 DEF Earlier
<1>6. CASE audit[r].target = t /\ Replaces(r, PriorRun(t))
  <2>1. entry = [run |-> r, completed |-> LastCompleted(r)]
    BY <1>2, <1>6 DEF NewIndex
  <2>2. LastCompleted(r) \in AuditRuns \cup {NoRun}
    BY <1>2, <1>6 DEF LastCompleted
  <2>3. entry \in [run : AuditRuns, completed : AuditRuns \cup {NoRun}]
    BY <2>1, <2>2
  <2>4. entry # NoRun
    BY <2>3, AuditAssumption
  <2>5. index[t] # NoRun => Earlier(index[t].run, r)
    BY <1>1, <1>4, <1>6 DEF Replaces, PriorRun, Earlier
  <2>6. ASSUME NEW q \in indexable, audit[q].target = t
        PROVE  Earlier(q, r)
    <3>1. q \in AuditRuns /\ index[t] # NoRun
      BY <2>6 DEF AuditInv, IndexableHeld, ReportsHeld
    <3>2. QED
      BY <1>3, <1>4, <2>5, <2>6, <3>1, EarlierIsTransitive
  <2>7. /\ LastCompleted(r) # NoRun =>
             /\ LastCompleted(r) \in DOMAIN movedRuns
             /\ movedRuns[LastCompleted(r)].target = t
             /\ movedRuns[LastCompleted(r)].execution = "completed"
        /\ movedRuns[r].execution = "completed" => LastCompleted(r) = r
        /\ index[t] # NoRun /\ index[t].completed # NoRun => LastCompleted(r) # NoRun
    BY <1>1, <1>3, <1>6 DEF LastCompleted
  <2>8. QED
    BY <1>1, <1>5, <1>6, <2>1, <2>3, <2>4, <2>6, <2>7
<1>7. CASE audit[r].target = t /\ ~Replaces(r, PriorRun(t))
  <2>1. entry = index[t]
    BY <1>2, <1>7 DEF NewIndex
  <2>2. index[t] # NoRun /\ Earlier(r, index[t].run)
    BY <1>1, <1>4, <1>7 DEF Replaces, PriorRun, Earlier
  <2>3. QED
    BY <1>2, <1>3, <2>1, <2>2
<1>8. CASE audit[r].target # t
  <2>1. entry = index[t]
    BY <1>2, <1>8 DEF NewIndex
  <2>2. QED
    BY <1>2, <1>3, <1>8, <2>1
<1>9. QED
  BY <1>6, <1>7, <1>8

LEMMA IndexStepKeeps ==
  ASSUME AuditInv, NEW r \in AuditRuns, audit[r].step \in Publishing,
         audit' = [audit EXCEPT ![r].step = "ended"],
         \/ index' = index /\ indexable' = indexable
         \/ /\ audit[r].step = "index" /\ index' = NewIndex(r)
            /\ indexable' \subseteq indexable \cup {r},
         UNCHANGED <<auditClock, movedRuns>>
  PROVE  AuditInv'
<1>1. /\ \A q \in AuditRuns : q # r => audit'[q] = audit[q]
      /\ audit'[r] = [audit[r] EXCEPT !.step = "ended"]
  BY DEF AuditInv, AuditTyped
<1>2. \A q \in AuditRuns :
        /\ audit'[q].target = audit[q].target /\ audit'[q].started = audit[q].started
        /\ audit'[q].execution = audit[q].execution
  BY <1>1 DEF AuditInv, AuditTyped, AnExecution
<1>3. /\ audit'[r].step = "ended" /\ audit'[r] \in AnExecution /\ audit[r].target \in Targets
      /\ audit' \in [AuditRuns -> AnExecution]
  BY <1>1 DEF AuditInv, AuditTyped, AnExecution, Publishing
<1>4. DOMAIN index' = Targets /\ index' = [t \in Targets |-> index'[t]]
  BY DEF AuditInv, AuditTyped, NewIndex
<1>5. ASSUME NEW t \in Targets
      PROVE  /\ index'[t] \in [run : AuditRuns, completed : AuditRuns \cup {NoRun}] \cup {NoRun}
             /\ index[t] # NoRun => index'[t] # NoRun
             /\ r \in indexable' /\ t = audit[r].target => index'[t] # NoRun
             /\ index'[t] # NoRun =>
                  /\ index'[t].run \in DOMAIN movedRuns /\ movedRuns[index'[t].run].target = t
                  /\ \A q \in {p \in indexable' : audit[p].target = t} : Earlier(q, index'[t].run)
                  /\ index'[t].completed # NoRun =>
                       /\ index'[t].completed \in DOMAIN movedRuns
                       /\ movedRuns[index'[t].completed].target = t
                       /\ movedRuns[index'[t].completed].execution = "completed"
                  /\ movedRuns[index'[t].run].execution = "completed" =>
                       index'[t].completed = index'[t].run
  <2>1. CASE index' = index /\ indexable' = indexable
    BY <2>1 DEF AuditInv, AuditTyped, IndexableHeld, IndexIsTrue
  <2>2. CASE audit[r].step = "index" /\ index' = NewIndex(r)
             /\ indexable' \subseteq indexable \cup {r}
    <3> DEFINE entry == index'[t]
    <3>1. entry = NewIndex(r)[t]
      BY <2>2
    <3> HIDE DEF entry
    <3>2. /\ entry \in [run : AuditRuns, completed : AuditRuns \cup {NoRun}] \cup {NoRun}
          /\ index[t] # NoRun => entry # NoRun
          /\ t = audit[r].target => entry # NoRun /\ Earlier(r, entry.run)
          /\ entry # NoRun =>
               /\ entry.run \in DOMAIN movedRuns /\ movedRuns[entry.run].target = t
               /\ \A q \in {p \in indexable : audit[p].target = t} : Earlier(q, entry.run)
               /\ entry.completed # NoRun =>
                    /\ entry.completed \in DOMAIN movedRuns
                    /\ movedRuns[entry.completed].target = t
                    /\ movedRuns[entry.completed].execution = "completed"
               /\ movedRuns[entry.run].execution = "completed" => entry.completed = entry.run
      BY <2>2, <3>1, NewIndexIsTrue
    <3>3. \A q \in {p \in indexable' : audit[p].target = t} :
            q \in {p \in indexable : audit[p].target = t} \/ (q = r /\ t = audit[r].target)
      BY <2>2
    <3>4. QED
      BY <3>2, <3>3 DEF entry
  <2>3. QED
    BY <2>1, <2>2
<1>6. AuditTyped'
  <2>1. index' \in [Targets -> [run : AuditRuns, completed : AuditRuns \cup {NoRun}] \cup {NoRun}]
    BY <1>4, <1>5
  <2>2. QED
    BY <1>1, <1>2, <1>3, <2>1 DEF AuditInv, AuditTyped
<1>7. OnePublishes'
  <2>1. \A q \in AuditRuns : q # r => audit[q].step \notin Publishing
    BY DEF AuditInv, OnePublishes
  <2>2. QED
    BY <1>1, <1>3, <2>1 DEF OnePublishes, Publishing
<1>8. ReportsHeld'
  BY <1>1, <1>2, <1>3 DEF AuditInv, ReportsHeld
<1>9. IndexableHeld'
  <2>1. ASSUME NEW q \in indexable' PROVE q \in DOMAIN movedRuns /\ index'[audit'[q].target] # NoRun
    <3>1. CASE q \in indexable
      <4>1. /\ q \in DOMAIN movedRuns /\ q \in AuditRuns /\ index[audit[q].target] # NoRun
            /\ audit[q].target \in Targets
        BY <3>1 DEF AuditInv, AuditTyped, IndexableHeld, ReportsHeld
      <4>2. QED
        BY <1>2, <1>5, <4>1
    <3>2. CASE q \notin indexable
      <4>1. q = r /\ audit[r].step = "index"
        BY <2>1, <3>2
      <4>2. QED
        BY <1>2, <1>3, <1>5, <2>1, <4>1 DEF AuditInv, ReportsHeld
    <3>3. QED
      BY <3>1, <3>2
  <2>2. QED
    BY <2>1 DEF IndexableHeld
<1>10. IndexIsTrue'
  <2>1. \A q, s \in AuditRuns : Earlier(q, s)' = Earlier(q, s)
    BY <1>2 DEF Earlier
  <2>2. indexable' \subseteq AuditRuns /\ DOMAIN movedRuns \subseteq AuditRuns
    BY DEF AuditInv, IndexableHeld, ReportsHeld
  <2>3. ASSUME NEW t \in Targets, index'[t] # NoRun
        PROVE  \A q \in {p \in indexable' : audit'[p].target = t} : Earlier(q, index[t].run)'
    BY <1>2, <1>5, <2>1, <2>2, <2>3
  <2>4. QED
    BY <1>5, <2>3 DEF IndexIsTrue
<1>11. QED
  BY <1>6, <1>7, <1>8, <1>9, <1>10 DEF AuditInv

LEMMA AuditNextKeeps ==
  ASSUME AuditInv, [AuditNext]_auditVars
  PROVE  AuditInv'
<1>1. CASE AuditClock \/ UNCHANGED auditVars
  <2>1. auditClock' \in Nat /\ UNCHANGED <<audit, owner, movedRuns, index, indexable>>
    BY <1>1 DEF AuditInv, AuditTyped, AuditClock, auditVars
  <2>2. QED
    BY <2>1 DEF AuditInv, AuditTyped, OnePublishes, ReportsHeld, IndexableHeld, IndexIsTrue, Earlier
<1>2. ASSUME NEW r \in AuditRuns, PublishIndex(r) \/ AuditFails(r) PROVE AuditInv'
  BY <1>2, IndexStepKeeps DEF PublishIndex, AuditFails, Publishing
<1>3. QED
  BY <1>1, <1>2, StartAuditKeeps, LockAuditKeeps, LockUnavailableKeeps, EvaluateRunKeeps,
     MoveRunKeeps DEF AuditNext

\* The index tells the truth about the runs: for any executions, whichever order they take the
\* lock in and whatever fails.
THEOREM IndexStaysTrue == AuditSpec => []IndexIsTrue
<1>1. AuditInv => IndexIsTrue
  BY DEF AuditInv
<1>2. QED
  BY <1>1, AuditInitHolds, AuditNextKeeps, PTL DEF AuditSpec

LEMMA AuditStepKeepsNames ==
  ASSUME AuditInv, [AuditNext]_auditVars, NEW t \in Targets,
         index[t] # NoRun, index[t].completed # NoRun
  PROVE  index'[t] # NoRun /\ index'[t].completed # NoRun
<1>1. CASE UNCHANGED index
  BY <1>1
<1>2. ASSUME NEW r \in AuditRuns, audit[r].step = "index", index' = NewIndex(r)
      PROVE  index'[t] # NoRun /\ index'[t].completed # NoRun
  BY <1>2, NewIndexIsTrue
<1>3. UNCHANGED index \/ \E r \in AuditRuns : audit[r].step = "index" /\ index' = NewIndex(r)
  BY DEF AuditNext, auditVars, AuditClock, StartAudit, LockAudit, LockUnavailable, EvaluateRun,
         MoveRun, PublishIndex, AuditFails
<1>. QED
  BY <1>1, <1>2, <1>3

\* An index that named a completed run of a target always names one.
THEOREM CompletedStaysNamed == AuditSpec => CompletedIsKept
<1> DEFINE KeptNames ==
      \A t \in Targets : index[t] # NoRun /\ index[t].completed # NoRun =>
        index'[t] # NoRun /\ index'[t].completed # NoRun
<1>1. AuditInv /\ [AuditNext]_auditVars => [KeptNames]_auditVars

  BY AuditStepKeepsNames
<1>2. QED
  BY <1>1, AuditInitHolds, AuditNextKeeps, PTL DEF AuditSpec, CompletedIsKept

-----------------------------------------------------------------------------
(***************************************************************************)
(* CaptureFinalizer: there is one worker, of the run under way or of a run *)
(* that was killed, and its phase is not in the checkpoint (OneWorker), so *)
(* nothing the checkpoint names is ever written again; what was computed   *)
(* was read from the bound input or a later one (ReadSinceBound), so a run *)
(* that finds its input unchanged at its end has read nothing else.        *)
(***************************************************************************)

Stages == {"started", "read", "done", "failed"}

ARun ==
  [pc : {"idle", "bind", "phases", "running"}, files : Nat \cup {Unset},
   phases : [Phases -> [of : Nat, copy : Nat] \cup {Unset}], phase : Phases \cup {Unset}]

AWorker ==
  [run : Runs, name : Phases, seen : Nat \cup {Unset}, stage : Stages, copy : Nat]

CaptureTyped ==
  /\ source \in Nat /\ copies \in Nat
  /\ manifest \in Nat \cup {Unset}
  /\ runs \in [Runs -> ARun]
  /\ workers \subseteq AWorker
  /\ checkpoint \in [Phases -> [of : Nat, copy : Nat] \cup {Unset}]
  /\ outputs \in [Phases -> [of : Nat, copy : Nat] \cup {Unset}]

\* A run that is under way is the only one, and what it knows is the checkpoint.
OneRun ==
  /\ \A r, s \in Runs : runs[r].pc # "idle" /\ runs[s].pc # "idle" => r = s
  /\ \A r \in Runs : runs[r].pc # "idle" => runs[r].phases = checkpoint
  /\ \A r \in Runs : runs[r].pc \in {"phases", "running"} =>
       runs[r].files = manifest /\ manifest # Unset

\* A worker is the only one; it works for the run under way, or its run was killed.
OneWorker ==
  /\ \A v, w \in workers : v = w
  /\ \A w \in workers :
       /\ \A r \in Runs : runs[r].pc # "idle" =>
            r = w.run /\ runs[r].pc = "running" /\ runs[r].phase = w.name
       /\ WorkerAlive(w) \/ runs[w.run].pc = "running"
       /\ checkpoint[w.name] = Unset
       /\ manifest # Unset
       /\ w.stage = "read" => w.seen # Unset /\ manifest <= w.seen /\ w.seen <= source

\* What was computed was read from the bound input, or from a later one.
ReadSinceBound ==
  \A n \in Phases : outputs[n] # Unset =>
    manifest # Unset /\ manifest <= outputs[n].of /\ outputs[n].of <= source

BoundBefore == manifest # Unset => manifest <= source

\* What a complete summary names is in the checkpoint.
SummaryIsKept ==
  summary # Unset /\ summary.status = "COMPLETE" =>
    /\ manifest # Unset
    /\ \A n \in Phases : summary.phases[n] # Unset => checkpoint[n] = summary.phases[n]

CaptureInv ==
  /\ CaptureTyped /\ OneRun /\ OneWorker /\ ReadSinceBound /\ BoundBefore /\ CheckpointIsTrue
  /\ CompleteIsBound /\ SummaryIsKept

LEMMA FinalInitHolds == FinalInit => CaptureInv
<1> SUFFICES ASSUME FinalInit PROVE CaptureInv
  OBVIOUS
<1>1. \A r \in Runs : runs[r].pc = "idle"
  BY DEF FinalInit, IdleRun
<1>2. \A n \in Phases : checkpoint[n] = Unset /\ outputs[n] = Unset
  BY DEF FinalInit, NoPhases
<1>3. CaptureTyped
  BY DEF CaptureTyped, FinalInit, ARun, IdleRun, NoPhases
<1>4. QED
  BY <1>1, <1>2, <1>3 DEF CaptureInv, OneRun, OneWorker, ReadSinceBound, BoundBefore,
     CheckpointIsTrue, CompleteIsBound, SummaryIsKept, FinalInit

\* The phase that comes next is not in the checkpoint.
LEMMA NextIsUnsaved ==
  ASSUME NEW r \in Runs, NextPhase(r) # Unset
  PROVE  NextPhase(r) \in Phases /\ runs[r].phases[NextPhase(r)] = Unset
BY DEF NextPhase, SavedPhases, Phases

\* A run that ends, whatever it leaves of its worker.
LEMMA LeavingKeeps ==
  ASSUME CaptureInv, NEW r \in Runs, runs[r].pc # "idle",
         runs' = [runs EXCEPT ![r] = IdleRun],
         workers' \subseteq workers, \A w \in workers' : WorkerAlive(w),
         UNCHANGED <<source, copies, manifest, checkpoint, outputs>>,
         \/ UNCHANGED summary
         \/ summary'.status = "INCOMPLETE"
  PROVE  CaptureInv'
<1>1. \A s \in Runs : runs'[s].pc = "idle"
  BY DEF CaptureInv, CaptureTyped, OneRun, IdleRun
<1>2. CaptureTyped'
  BY DEF CaptureInv, CaptureTyped, ARun, IdleRun, NoPhases
<1>3. OneRun'
  BY <1>1 DEF OneRun
<1>4. OneWorker'
  BY <1>1 DEF CaptureInv, OneWorker, WorkerAlive
<1>5. ReadSinceBound' /\ BoundBefore' /\ CheckpointIsTrue'
  BY DEF CaptureInv, ReadSinceBound, BoundBefore, CheckpointIsTrue
<1>6. CompleteIsBound' /\ SummaryIsKept'
  BY DEF CaptureInv, CompleteIsBound, SummaryIsKept
<1>7. QED
  BY <1>2, <1>3, <1>4, <1>5, <1>6 DEF CaptureInv

LEMMA StartRunKeeps ==
  ASSUME CaptureInv, NEW r \in Runs, StartRun(r)
  PROVE  CaptureInv'
<1>1. /\ \A s \in Runs : s # r => runs'[s] = runs[s] /\ runs[s].pc = "idle"
      /\ runs'[r] = [IdleRun EXCEPT !.pc = "bind", !.phases = checkpoint]
  BY DEF CaptureInv, CaptureTyped, StartRun, CaptureLocked
<1>2. runs'[r].pc = "bind" /\ runs'[r].phases = checkpoint /\ runs'[r] \in ARun
  BY <1>1 DEF CaptureInv, CaptureTyped, ARun, IdleRun, NoPhases
<1>3. workers = {}
  BY DEF CaptureInv, OneWorker, StartRun, CaptureLocked, CaptureTyped, AWorker
<1>4. CaptureTyped'
  BY <1>2 DEF CaptureInv, CaptureTyped, StartRun, ARun, IdleRun, NoPhases
<1>5. OneRun'
  BY <1>1, <1>2 DEF OneRun, StartRun
<1>6. OneWorker'
  BY <1>3 DEF OneWorker, StartRun
<1>7. /\ ReadSinceBound' /\ BoundBefore' /\ CheckpointIsTrue' /\ CompleteIsBound'
      /\ SummaryIsKept'
  BY DEF CaptureInv, ReadSinceBound, BoundBefore, CheckpointIsTrue, CompleteIsBound,
         SummaryIsKept, StartRun
<1>8. QED
  BY <1>4, <1>5, <1>6, <1>7 DEF CaptureInv

LEMMA BindInputKeeps ==
  ASSUME CaptureInv, NEW r \in Runs, BindInput(r)
  PROVE  CaptureInv'
<1>1. workers = {} /\ \A s \in Runs : s # r => runs[s].pc = "idle"
  BY DEF CaptureInv, OneWorker, OneRun, BindInput
<1>2. CASE manifest \notin {Unset, source} /\ RefuseRun(r) /\ UNCHANGED manifest
  BY <1>1, <1>2, LeavingKeeps DEF BindInput, RefuseRun
<1>3. CASE manifest \in {Unset, source} /\ manifest' = source
  <2>1. /\ UNCHANGED <<source, workers, copies, checkpoint, outputs, summary>>
        /\ manifest # Unset => manifest' = manifest
        /\ manifest' \in Nat /\ manifest' # Unset /\ source \in Nat
    BY <1>3, CaptureAssumption DEF BindInput, RefuseRun, CaptureInv, CaptureTyped
  <2>2. /\ \A s \in Runs : s # r => runs'[s] = runs[s]
        /\ runs'[r] = IdleRun \/ runs'[r] = [runs[r] EXCEPT !.pc = "phases", !.files = source]
    BY <1>3 DEF BindInput, RefuseRun, CaptureInv, CaptureTyped
  <2>3. runs'[r].pc # "idle" =>
          runs'[r].pc = "phases" /\ runs'[r].files = source /\ runs'[r].phases = runs[r].phases
    <3>1. runs[r] \in ARun
      BY DEF CaptureInv, CaptureTyped
    <3>2. CASE runs'[r] = IdleRun
      BY <3>2 DEF IdleRun
    <3>3. CASE runs'[r] = [runs[r] EXCEPT !.pc = "phases", !.files = source]
      BY <3>1, <3>3 DEF ARun
    <3>4. QED
      BY <2>2, <3>2, <3>3
  <2>4. CaptureTyped'
    <3>1. IdleRun \in ARun
      BY DEF ARun, IdleRun, NoPhases
    <3>2. runs[r] \in ARun
      BY DEF CaptureInv, CaptureTyped
    <3>3. [runs[r] EXCEPT !.pc = "phases", !.files = source] \in ARun
      BY <2>1, <3>2 DEF ARun
    <3>4. \A s \in Runs : runs'[s] \in ARun
      BY <2>2, <3>1, <3>3 DEF CaptureInv, CaptureTyped
    <3>5. runs' = [s \in Runs |-> runs'[s]]
      BY <1>3 DEF BindInput, RefuseRun, CaptureInv, CaptureTyped
    <3>6. QED
      BY <2>1, <3>4, <3>5 DEF CaptureInv, CaptureTyped
  <2>5. OneRun'
    BY <1>1, <1>3, <2>1, <2>2, <2>3 DEF CaptureInv, OneRun, BindInput
  <2>6. OneWorker'
    BY <1>1, <2>1 DEF OneWorker
  <2>7. BoundBefore'
    BY <1>3, <2>1 DEF BoundBefore
  <2>8. ReadSinceBound' /\ CheckpointIsTrue'
    BY <2>1 DEF CaptureInv, ReadSinceBound, CheckpointIsTrue
  <2>9. CompleteIsBound' /\ SummaryIsKept'
    BY <2>1 DEF CaptureInv, CompleteIsBound, SummaryIsKept, ReadSinceBound
  <2>10. QED
    BY <2>4, <2>5, <2>6, <2>7, <2>8, <2>9 DEF CaptureInv
<1>4. QED
  BY <1>2, <1>3 DEF BindInput

LEMMA BeginPhaseKeeps ==
  ASSUME CaptureInv, NEW r \in Runs, BeginPhase(r)
  PROVE  CaptureInv'
<1> DEFINE w == [run |-> r, name |-> NextPhase(r), seen |-> Unset, stage |-> "started",
                 copy |-> copies]
<1>1. NextPhase(r) \in Phases /\ checkpoint[NextPhase(r)] = Unset
  BY NextIsUnsaved DEF BeginPhase, CaptureInv, OneRun
<1>2. checkpoint' = checkpoint
  BY DEF BeginPhase, CaptureInv, OneRun
<1>3. workers = {} /\ workers' = {w} /\ \A s \in Runs : s # r => runs[s].pc = "idle"
  BY DEF CaptureInv, OneWorker, OneRun, BeginPhase
<1>4. w \in AWorker /\ copies' \in Nat
  BY <1>1 DEF CaptureInv, CaptureTyped, AWorker, Stages, BeginPhase
<1>5. /\ \A s \in Runs : s # r => runs'[s] = runs[s]
      /\ runs'[r] = [runs[r] EXCEPT !.pc = "running", !.phase = NextPhase(r)]
  BY DEF CaptureInv, CaptureTyped, BeginPhase
<1>6. /\ runs'[r].pc = "running" /\ runs'[r].phase = NextPhase(r)
      /\ runs'[r].phases = runs[r].phases /\ runs'[r].files = runs[r].files
      /\ runs' \in [Runs -> ARun]
  <2>1. runs[r] \in ARun /\ runs'[r] \in ARun
    BY <1>1, <1>5, ZenonT(30) DEF CaptureInv, CaptureTyped, ARun
  <2>2. \A s \in Runs : runs'[s] \in ARun
    BY <1>5, <2>1 DEF CaptureInv, CaptureTyped
  <2>3. runs' \in [Runs -> ARun]
    BY <2>2 DEF CaptureInv, CaptureTyped, BeginPhase
  <2>4. QED
    BY <1>5, <2>1, <2>3 DEF ARun
<1>7. CaptureTyped'
  BY <1>2, <1>3, <1>4, <1>6 DEF CaptureInv, CaptureTyped, BeginPhase
<1>8. OneRun'
  BY <1>2, <1>3, <1>5, <1>6 DEF CaptureInv, OneRun, BeginPhase
<1>9. OneWorker'
  BY <1>1, <1>2, <1>3, <1>5, <1>6 DEF CaptureInv, OneWorker, OneRun, WorkerAlive, BeginPhase
<1>10. /\ ReadSinceBound' /\ BoundBefore' /\ CheckpointIsTrue' /\ CompleteIsBound'
       /\ SummaryIsKept'
  BY <1>2 DEF CaptureInv, ReadSinceBound, BoundBefore, CheckpointIsTrue, CompleteIsBound,
              SummaryIsKept, BeginPhase
<1>11. QED
  BY <1>7, <1>8, <1>9, <1>10 DEF CaptureInv

LEMMA WorkerReadsKeeps ==
  ASSUME CaptureInv, NEW w \in workers, WorkerReads(w)
  PROVE  CaptureInv'
<1> DEFINE v == [w EXCEPT !.stage = "read", !.seen = source]
<1>1. workers = {w} /\ workers' = {v} /\ w \in AWorker
  BY DEF CaptureInv, CaptureTyped, OneWorker, WorkerReads
<1>2. /\ v \in AWorker /\ v.stage = "read" /\ v.seen = source /\ v.run = w.run
      /\ v.name = w.name
  BY <1>1 DEF CaptureInv, CaptureTyped, AWorker, Stages
<1> HIDE DEF v
<1>3. UNCHANGED <<source, runs, copies, manifest, checkpoint, outputs, summary>>
  BY DEF WorkerReads
<1>4. source \in Nat /\ source # Unset
  BY CaptureAssumption DEF CaptureInv, CaptureTyped
<1>5. OneWorker'
  BY <1>1, <1>2, <1>3, <1>4 DEF CaptureInv, OneWorker, BoundBefore, WorkerAlive
<1>6. CaptureTyped' /\ OneRun'
  BY <1>1, <1>2, <1>3 DEF CaptureInv, CaptureTyped, OneRun
<1>7. /\ ReadSinceBound' /\ BoundBefore' /\ CheckpointIsTrue' /\ CompleteIsBound'
      /\ SummaryIsKept'
  BY <1>3 DEF CaptureInv, ReadSinceBound, BoundBefore, CheckpointIsTrue, CompleteIsBound,
              SummaryIsKept
<1>8. QED
  BY <1>5, <1>6, <1>7 DEF CaptureInv

\* A worker that exits is reaped by its run, or gone.
LEMMA ExitingKeeps ==
  ASSUME CaptureInv, NEW w \in workers, NEW stage \in {"done", "failed"}, WorkerExits(w, stage),
         UNCHANGED <<source, runs, copies, manifest, checkpoint>>
  PROVE  /\ workers' \subseteq AWorker
         /\ OneWorker' /\ OneRun'
<1> DEFINE v == [w EXCEPT !.stage = stage]
<1>1. workers = {w} /\ w \in AWorker
  BY DEF CaptureInv, CaptureTyped, OneWorker
<1>2. /\ v \in AWorker /\ v.stage = stage /\ v.run = w.run /\ v.name = w.name
  BY <1>1 DEF AWorker, Stages
<1>3. \/ workers' = {}
      \/ workers' = {v} /\ runs[w.run].pc = "running"
  <2>1. workers \ {w} = {}
    BY <1>1
  <2>2. CASE HasParent(w)
    BY <2>1, <2>2 DEF WorkerExits, HasParent
  <2>3. CASE ~HasParent(w)
    BY <2>1, <2>3 DEF WorkerExits
  <2>4. QED
    BY <2>2, <2>3
<1> HIDE DEF v
<1>4. OneWorker'
  BY <1>1, <1>2, <1>3 DEF CaptureInv, OneWorker
<1>5. QED
  BY <1>2, <1>3, <1>4 DEF CaptureInv, OneRun

LEMMA WorkerFailsKeeps ==
  ASSUME CaptureInv, NEW w \in workers, WorkerFails(w)
  PROVE  CaptureInv'
<1>1. UNCHANGED <<source, runs, copies, manifest, checkpoint, outputs, summary>>
  BY DEF WorkerFails
<1>2. workers' \subseteq AWorker /\ OneWorker' /\ OneRun'
  BY <1>1, ExitingKeeps DEF WorkerFails
<1>3. QED
  BY <1>1, <1>2 DEF CaptureInv, CaptureTyped, ReadSinceBound, BoundBefore, CheckpointIsTrue,
                    CompleteIsBound, SummaryIsKept

LEMMA WorkerWritesKeeps ==
  ASSUME CaptureInv, NEW w \in workers, WorkerWrites(w)
  PROVE  CaptureInv'
<1> DEFINE output == [of |-> w.seen, copy |-> IF w.name = "evaluate" THEN w.copy ELSE 0]
<1>1. UNCHANGED <<source, runs, copies, manifest, checkpoint, summary>>
  BY DEF WorkerWrites
<1>2. workers' \subseteq AWorker /\ OneWorker' /\ OneRun'
  BY <1>1, ExitingKeeps DEF WorkerWrites
<1>3. /\ w \in AWorker /\ checkpoint[w.name] = Unset /\ manifest # Unset
      /\ w.seen \in Nat /\ manifest <= w.seen /\ w.seen <= source
  BY DEF WorkerWrites, CaptureInv, CaptureTyped, OneWorker, AWorker
<1>4. output \in [of : Nat, copy : Nat] /\ output.of = w.seen /\ w.name \in Phases
  BY <1>3 DEF AWorker
<1>5. outputs' = [outputs EXCEPT ![w.name] = output]
  BY DEF WorkerWrites
<1> HIDE DEF output
<1>6. \A n \in Phases : outputs'[n] = IF n = w.name THEN output ELSE outputs[n]
  BY <1>4, <1>5 DEF CaptureInv, CaptureTyped
<1>7. CaptureTyped'
  BY <1>1, <1>2, <1>4, <1>5 DEF CaptureInv, CaptureTyped
<1>8. ReadSinceBound' /\ BoundBefore'
  BY <1>1, <1>3, <1>4, <1>6 DEF CaptureInv, ReadSinceBound, BoundBefore
<1>9. CheckpointIsTrue'
  BY <1>1, <1>3, <1>6 DEF CaptureInv, CheckpointIsTrue
<1>10. CompleteIsBound' /\ SummaryIsKept'
  BY <1>1, <1>3, <1>6 DEF CaptureInv, CompleteIsBound, SummaryIsKept
<1>11. QED
  BY <1>2, <1>7, <1>8, <1>9, <1>10 DEF CaptureInv

LEMMA EndPhaseKeeps ==
  ASSUME CaptureInv, NEW r \in Runs, EndPhase(r)
  PROVE  CaptureInv'
<1>1. PICK w \in workers :
        /\ w.run = r /\ ~WorkerAlive(w)
        /\ workers' = workers \ {w}
        /\ \/ /\ w.stage = "done"
              /\ LET phases == [runs[r].phases EXCEPT ![runs[r].phase] = outputs[runs[r].phase]]
                 IN  /\ runs' = [runs EXCEPT ![r].pc = "phases", ![r].phase = Unset,
                                             ![r].phases = phases]
                     /\ checkpoint' = phases
              /\ UNCHANGED summary
           \/ /\ w.stage = "failed"
              /\ RefuseRun(r) /\ UNCHANGED checkpoint
  BY DEF EndPhase
<1>2. workers' = {}
  BY <1>1 DEF CaptureInv, OneWorker
<1>3. UNCHANGED <<source, copies, manifest, outputs>> /\ runs[r].pc = "running"
  BY DEF EndPhase
<1>4. CASE w.stage = "failed" /\ RefuseRun(r) /\ UNCHANGED checkpoint
  BY <1>2, <1>3, <1>4, LeavingKeeps DEF RefuseRun
<1>5. CASE /\ w.stage = "done"
           /\ runs' = [runs EXCEPT ![r].pc = "phases", ![r].phase = Unset,
                                   ![r].phases = checkpoint']
           /\ checkpoint' = [runs[r].phases EXCEPT ![runs[r].phase] = outputs[runs[r].phase]]
           /\ UNCHANGED summary
  <2>1. /\ runs[r].phase = w.name /\ w.name \in Phases /\ checkpoint[w.name] = Unset
        /\ runs[r].phases = checkpoint /\ \A s \in Runs : s # r => runs[s].pc = "idle"
    BY <1>3 DEF CaptureInv, CaptureTyped, OneWorker, OneRun, AWorker
  <2>2. \A n \in Phases : checkpoint'[n] = IF n = w.name THEN outputs[n] ELSE checkpoint[n]
    BY <1>5, <2>1 DEF CaptureInv, CaptureTyped
  <2>3. checkpoint' \in [Phases -> [of : Nat, copy : Nat] \cup {Unset}]
    BY <1>5, <2>1 DEF CaptureInv, CaptureTyped
  <2>4. /\ \A s \in Runs : s # r => runs'[s] = runs[s]
        /\ runs'[r] = [runs[r] EXCEPT !.pc = "phases", !.phase = Unset, !.phases = checkpoint']
    BY <1>5 DEF CaptureInv, CaptureTyped
  <2>5. /\ runs'[r].pc = "phases" /\ runs'[r].phases = checkpoint'
        /\ runs'[r].files = runs[r].files /\ runs' \in [Runs -> ARun]
    <3>1. runs[r] \in ARun /\ runs'[r] \in ARun
      BY <2>3, <2>4 DEF CaptureInv, CaptureTyped, ARun
    <3>2. runs' \in [Runs -> ARun]
      BY <1>5, <2>4, <3>1 DEF CaptureInv, CaptureTyped
    <3>3. QED
      BY <2>4, <3>1, <3>2 DEF ARun
  <2>6. CaptureTyped'
    BY <1>2, <1>3, <2>3, <2>5 DEF CaptureInv, CaptureTyped
  <2>7. OneRun'
    <3>1. runs[r].files = manifest /\ manifest # Unset
      BY <1>3 DEF CaptureInv, OneRun
    <3>2. QED
      BY <1>3, <2>1, <2>4, <2>5, <3>1 DEF OneRun
  <2>8. OneWorker'
    BY <1>2 DEF OneWorker
  <2>9. ReadSinceBound' /\ BoundBefore'
    BY <1>3 DEF CaptureInv, ReadSinceBound, BoundBefore
  <2>10. CheckpointIsTrue'
    BY <1>3, <2>2 DEF CaptureInv, CheckpointIsTrue
  <2>11. CompleteIsBound' /\ SummaryIsKept'
    BY <1>3, <1>5, <2>1, <2>2 DEF CaptureInv, CompleteIsBound, SummaryIsKept
  <2>12. QED
    BY <2>6, <2>7, <2>8, <2>9, <2>10, <2>11 DEF CaptureInv
<1>6. QED
  BY <1>1, <1>4, <1>5

LEMMA CompleteRunKeeps ==
  ASSUME CaptureInv, NEW r \in Runs, CompleteRun(r)
  PROVE  CaptureInv'
<1>1. workers = {}
  BY DEF CaptureInv, OneWorker, CompleteRun
<1>2. CASE source # runs[r].files /\ RefuseRun(r)
  BY <1>1, <1>2, LeavingKeeps DEF CompleteRun, RefuseRun
<1>3. CASE source = runs[r].files
           /\ summary' = [status |-> "COMPLETE", of |-> runs[r].files, phases |-> runs[r].phases]
           /\ runs' = [runs EXCEPT ![r] = IdleRun]
  <2>1. /\ UNCHANGED <<source, workers, copies, manifest, checkpoint, outputs>>
        /\ runs[r].files = manifest /\ manifest = source /\ manifest # Unset
        /\ runs[r].phases = checkpoint
    BY <1>3 DEF CompleteRun, CaptureInv, OneRun
  <2>2. summary'.of = manifest /\ summary'.phases = checkpoint
    BY <1>3, <2>1
  <2>3. \A n \in Phases : outputs[n] # Unset => outputs[n].of = manifest
    <3>1. ASSUME NEW n \in Phases, outputs[n] # Unset
          PROVE  outputs[n].of = manifest
      <4>1. manifest <= outputs[n].of /\ outputs[n].of <= manifest
        BY <2>1, <3>1 DEF CaptureInv, ReadSinceBound
      <4>2. outputs[n].of \in Nat /\ manifest \in Nat
        BY <2>1, <3>1 DEF CaptureInv, CaptureTyped
      <4>3. QED
        BY <4>1, <4>2
    <3>2. QED
      BY <3>1
  <2>4. CompleteIsBound' /\ SummaryIsKept'
    BY <2>1, <2>2, <2>3 DEF CaptureInv, CheckpointIsTrue, CompleteIsBound, SummaryIsKept
  <2>5. \A s \in Runs : runs'[s].pc = "idle"
    BY <1>3 DEF CompleteRun, CaptureInv, CaptureTyped, OneRun, IdleRun
  <2>6. CaptureTyped'
    BY <1>3, <2>1 DEF CaptureInv, CaptureTyped, ARun, IdleRun, NoPhases
  <2>7. OneRun' /\ OneWorker'
    BY <1>1, <2>1, <2>5 DEF OneRun, OneWorker
  <2>8. ReadSinceBound' /\ BoundBefore' /\ CheckpointIsTrue'
    BY <2>1 DEF CaptureInv, ReadSinceBound, BoundBefore, CheckpointIsTrue
  <2>9. QED
    BY <2>4, <2>6, <2>7, <2>8 DEF CaptureInv
<1>4. QED
  BY <1>2, <1>3 DEF CompleteRun

LEMMA EditInputKeeps ==
  ASSUME CaptureInv, EditInput
  PROVE  CaptureInv'
<1>1. /\ source \in Nat /\ source' = source + 1
      /\ UNCHANGED <<runs, workers, copies, manifest, checkpoint, outputs, summary>>
  BY DEF CaptureInv, CaptureTyped, EditInput
<1>2. \A x \in Nat : x <= source => x <= source'
  BY <1>1
<1>3. CaptureTyped' /\ OneRun' /\ CheckpointIsTrue' /\ CompleteIsBound' /\ SummaryIsKept'
  BY <1>1 DEF CaptureInv, CaptureTyped, OneRun, CheckpointIsTrue, CompleteIsBound, SummaryIsKept
<1>4. OneWorker'
  <2>1. \A w \in workers : w.seen # Unset => w.seen \in Nat
    BY DEF CaptureInv, CaptureTyped, AWorker
  <2>2. QED
    BY <1>1, <1>2, <2>1 DEF CaptureInv, OneWorker, WorkerAlive
<1>5. ReadSinceBound' /\ BoundBefore'
  <2>1. /\ \A n \in Phases : outputs[n] # Unset => outputs[n].of \in Nat
        /\ manifest # Unset => manifest \in Nat
    BY DEF CaptureInv, CaptureTyped
  <2>2. QED
    BY <1>1, <1>2, <2>1 DEF CaptureInv, ReadSinceBound, BoundBefore
<1>6. QED
  BY <1>3, <1>4, <1>5 DEF CaptureInv

LEMMA FinalNextKeeps ==
  ASSUME CaptureInv, [FinalNext]_finalVars
  PROVE  CaptureInv'
<1>1. ASSUME NEW r \in Runs, StopRun(r) PROVE CaptureInv'
  <2>1. workers' = {}
    BY <1>1 DEF CaptureInv, OneWorker, StopRun
  <2>2. summary'.status = "INCOMPLETE"
    BY <1>1 DEF StopRun, LeaveIncomplete
  <2>3. QED
    BY <1>1, <2>1, <2>2, LeavingKeeps DEF StopRun, LeaveIncomplete
<1>2. ASSUME NEW r \in Runs, KillRun(r) PROVE CaptureInv'
  <2>1. \A w \in workers' : w \in workers /\ WorkerAlive(w)
    BY <1>2 DEF CaptureInv, OneWorker, KillRun
  <2>2. QED
    BY <1>2, <2>1, LeavingKeeps DEF KillRun
<1>3. CASE UNCHANGED finalVars
  BY <1>3 DEF finalVars, CaptureInv, CaptureTyped, OneRun, OneWorker, WorkerAlive, ReadSinceBound,
     BoundBefore, CheckpointIsTrue, CompleteIsBound, SummaryIsKept
<1>4. QED
  BY <1>1, <1>2, <1>3, StartRunKeeps, BindInputKeeps, BeginPhaseKeeps, EndPhaseKeeps,
     CompleteRunKeeps, WorkerReadsKeeps, WorkerWritesKeeps, WorkerFailsKeeps, EditInputKeeps
     DEF FinalNext

LEMMA CaptureIsHeld ==
  ASSUME CaptureInv
  PROVE  CapturesHold
<1>1. OneWriter
  BY DEF CaptureInv, OneWorker, OneWriter
<1>. QED
  BY <1>1 DEF CapturesHold, CaptureInv

\* Whatever is killed, timed out, retried or edited: no two processes write the outputs of a
\* capture, the checkpoint names files that are there, and a complete summary rests on phases
\* that read the bound input.
THEOREM CapturesStayHeld == FinalSpec => []CapturesHold
<1>. QED
  BY CaptureIsHeld, FinalInitHolds, FinalNextKeeps, PTL DEF FinalSpec

-----------------------------------------------------------------------------
(***************************************************************************)
(* GapAudit: the scope is spanned by a chain of contracts exactly when no  *)
(* interval is bare of one, and the counts of a report cover the scope; so *)
(* an audit never refuses what an earlier one wrote.  What a ledger took   *)
(* over from the one before it is in it (Carries), so a complete one leaves*)
(* nothing open of any earlier one.                                        *)
(***************************************************************************)

(* What a contract of a catalog is, in numbers. *)
LEMMA CatalogsAreTyped ==
  ASSUME NEW C \in Catalogs
  PROVE  /\ IsFiniteSet(C)
         /\ \A r \in C : r \in ContractRange /\ r.from \in 0..Until /\ r.to \in 1..Forever /\ r.from < r.to
         /\ \A r, s \in C : r.id = s.id => r = s
<1>1. C \subseteq ContractRange /\ IsFiniteSet(C)
      /\ (\A r \in C : r.from < r.to) /\ (\A r, s \in C : r.id = s.id => r = s)
  BY GapAssumption
<1>2. \A r \in C : r.from \in 0..Until /\ r.to \in 1..Forever
  BY <1>1 DEF ContractRange
<1>. QED
  BY <1>1, <1>2

LEMMA HalvesExist ==
  \A n \in Nat : \E i \in Nat : n = 2 * i \/ n = 2 * i + 1
<1> DEFINE Bad == {n \in Nat : ~\E i \in Nat : n = 2 * i \/ n = 2 * i + 1}
<1>1. SUFFICES ASSUME Bad # {} PROVE FALSE
  OBVIOUS
<1>2. PICK n \in Bad : \A m \in Bad : n <= m
  BY <1>1, LeastExists
<1>3. n # 0
  <2>1. 0 \in Nat /\ 0 = 2 * 0
    OBVIOUS
  <2>. QED
    BY <1>2, <2>1
<1>4. n - 1 \in Nat /\ n - 1 \notin Bad
  BY <1>2, <1>3
<1>5. PICK i \in Nat : n - 1 = 2 * i \/ n - 1 = 2 * i + 1
  BY <1>4
<1>6. n = 2 * i + 1 \/ n = 2 * (i + 1)
  BY <1>2, <1>5
<1>7. i + 1 \in Nat
  OBVIOUS
<1>. QED
  BY <1>2, <1>6, <1>7

LEMMA ParityIsBit ==
  ASSUME NEW n \in Nat
  PROVE  n % 2 \in {0, 1} /\ n - (n % 2) \in Nat
<1>1. PICK i \in Nat : n = 2 * i \/ n = 2 * i + 1
  BY HalvesExist
<1>2. n % 2 = n - 2 * i
  BY <1>1
<1>. QED
  BY <1>1, <1>2

LEMMA ScopeIsTyped ==
  /\ ScopeLength \in Nat \ {0} /\ Until \in Nat /\ Forever \in Nat /\ Until = 2 * ScopeLength
  /\ MaxGaps \in Nat
  /\ \A b \in ScopeMinute : b \in Nat /\ b % 2 = 0 /\ b + 2 <= Until
  /\ \A n \in Nat : n < Until => n - (n % 2) \in ScopeMinute
  /\ \A n \in Nat : n % 2 = 0 /\ n < Until => n \in ScopeMinute
  /\ IsFiniteSet(ScopeMinute) /\ Cardinality(ScopeMinute) = ScopeLength
<1>1. ScopeLength \in Nat \ {0} /\ MaxGaps \in Nat
  BY GapAssumption
<1>2. Until \in Nat /\ Forever \in Nat /\ Until = 2 * ScopeLength
  BY <1>1 DEF Until, Forever
<1>3. \A b \in ScopeMinute : b \in Nat /\ b % 2 = 0 /\ b + 2 <= Until
  BY <1>1, <1>2 DEF ScopeMinute
<1>4. \A n \in Nat : n < Until => n - (n % 2) \in ScopeMinute
  <2>1. SUFFICES ASSUME NEW n \in Nat, n < Until PROVE \E i \in 0..ScopeLength - 1 : n - (n % 2) = 2 * i
    BY DEF ScopeMinute
  <2>2. PICK i \in Nat : n = 2 * i \/ n = 2 * i + 1
    BY HalvesExist
  <2>3. n % 2 = n - 2 * i
    BY <2>2
  <2>4. i \in 0..ScopeLength - 1
    BY <1>1, <1>2, <2>1, <2>2
  <2>. QED
    BY <2>3, <2>4
<1>5. \A n \in Nat : n % 2 = 0 /\ n < Until => n \in ScopeMinute
  <2>1. SUFFICES ASSUME NEW n \in Nat, n % 2 = 0, n < Until PROVE n \in ScopeMinute
    OBVIOUS
  <2>2. n - (n % 2) = n
    BY <2>1
  <2>. QED
    BY <1>4, <2>1, <2>2
<1>6. IsFiniteSet(ScopeMinute) /\ Cardinality(ScopeMinute) = ScopeLength
  <2> DEFINE T == 0..ScopeLength - 1
             f == [i \in T |-> 2 * i]
  <2>1. IsFiniteSet(T) /\ Cardinality(T) = ScopeLength
    <3>1. 0 \in Int /\ ScopeLength - 1 \in Int
      BY <1>1
    <3>. QED
      BY <1>1, <3>1, FS_Interval
  <2>2. f \in Bijection(T, ScopeMinute)
    <3>1. f \in [T -> ScopeMinute]
      BY DEF ScopeMinute
    <3>2. \A i, j \in T : f[i] = f[j] => i = j
      BY <1>1
    <3>3. \A x \in ScopeMinute : \E i \in T : f[i] = x
      BY DEF ScopeMinute
    <3>. HIDE DEF f, T
    <3>. QED
      BY <3>1, <3>2, <3>3 DEF Bijection, Injection, Surjection, IsInjective
  <2>. HIDE DEF T, f
  <2>3. ExistsBijection(T, ScopeMinute)
    BY <2>2 DEF ExistsBijection
  <2>. QED
    BY <2>1, <2>3, FS_Bijection
<1>. QED
  BY <1>1, <1>2, <1>3, <1>4, <1>5, <1>6

(* An interval without a contract around a bare minute is in the ledger. *)
LEMMA BareMinuteIsReported ==
  ASSUME NEW R, NEW b \in ScopeMinute, OverlapsAt(R, b) = {}
  PROVE  UnavailableIn(R) # {}
<1> DEFINE Bare(x) == x \in ScopeMinute /\ OverlapsAt(R, x) = {}
           Low == {n \in Nat : \A x \in ScopeMinute : 2 * n <= x /\ x <= b => Bare(x)}
           High == {n \in Nat : n <= ScopeLength /\ b < 2 * n /\ \A x \in ScopeMinute : b <= x /\ x < 2 * n => Bare(x)}
<1>1. PICK k \in 0..ScopeLength - 1 : b = 2 * k
  BY DEF ScopeMinute
<1>2. ScopeLength \in Nat \ {0} /\ k \in Nat
  BY ScopeIsTyped
<1>3. \A x \in ScopeMinute : x \in Nat /\ \E i \in 0..ScopeLength - 1 : x = 2 * i
  BY <1>2 DEF ScopeMinute
<1>4. \A i \in Int : 2 * i \in ScopeMinute <=> i \in 0..ScopeLength - 1
  BY <1>2 DEF ScopeMinute
<1>5. k \in Low
  BY <1>1, <1>2, <1>3
<1>6. k + 1 \in High
  <2>1. \A x \in ScopeMinute : b <= x /\ x < 2 * (k + 1) => x = b
    BY <1>1, <1>2, <1>3
  <2>. QED
    BY <1>1, <1>2, <2>1
<1>7. PICK low \in Low : \A n \in Low : low <= n
  <2>1. Low \in SUBSET Nat /\ Low # {}
    BY <1>5
  <2>. HIDE DEF Low
  <2>. QED
    BY <2>1, LeastExists
<1>8. PICK high \in High : \A n \in High : n <= high
  <2>1. High \in SUBSET Int /\ High # {} /\ ScopeLength \in Int /\ \A n \in High : n <= ScopeLength
    <3>1. \A n \in High : n \in Nat /\ n <= ScopeLength
      OBVIOUS
    <3>2. High # {}
      BY <1>6
    <3>. HIDE DEF High
    <3>3. High \in SUBSET Int /\ ScopeLength \in Int
      BY <1>2, <3>1
    <3>. QED
      BY <3>1, <3>2, <3>3
  <2>. HIDE DEF High
  <2>2. Max(High) \in High /\ \A n \in High : Max(High) >= n
    BY ONLY <2>1, MaxOfBounded, Zenon
  <2>3. \A n \in High : n \in Int
    BY <2>1
  <2>4. \A n \in High : n <= Max(High)
    BY <2>2, <2>3
  <2>. QED
    BY <2>2, <2>4
<1>9. low \in Nat /\ low <= k /\ high \in Nat /\ k < high /\ high <= ScopeLength
  BY <1>1, <1>2, <1>5, <1>7, <1>8
<1>10. ~Bare(2 * low - 2)
  <2>1. SUFFICES ASSUME Bare(2 * low - 2) PROVE FALSE
    OBVIOUS
  <2>2. low - 1 \in Nat
    BY <1>3, <1>9, <2>1
  <2>3. low - 1 \in Low
    <3>1. SUFFICES ASSUME NEW x \in ScopeMinute, 2 * (low - 1) <= x, x <= b PROVE Bare(x)
      BY <2>2
    <3>2. 2 * low <= x \/ x = 2 * low - 2
      BY <1>3, <1>9, <3>1
    <3>. QED
      BY <1>7, <2>1, <3>1, <3>2
  <2>. QED
    BY <1>7, <1>9, <2>3
<1>11. ~Bare(2 * high)
  <2>1. SUFFICES ASSUME Bare(2 * high) PROVE FALSE
    OBVIOUS
  <2>2. high + 1 \in Nat /\ high + 1 <= ScopeLength
    BY <1>2, <1>4, <1>9, <2>1
  <2>3. high + 1 \in High
    <3>1. ASSUME NEW x \in ScopeMinute, b <= x, x < 2 * (high + 1) PROVE Bare(x)
      <4>1. x < 2 * high \/ x = 2 * high
        BY <1>3, <1>9, <3>1
      <4>. QED
        BY <1>8, <2>1, <3>1, <4>1
    <3>2. b < 2 * (high + 1)
      BY <1>1, <1>2, <1>9
    <3>. QED
      BY <2>2, <3>1, <3>2
  <2>. QED
    BY <1>8, <1>9, <2>3
<1> DEFINE gap == [since |-> 2 * low, until |-> 2 * high]
<1>12. gap \in UnavailableRange
  <2>1. 2 * low \in ScopeMinute
    BY <1>2, <1>4, <1>9
  <2>2. 2 * (high - 1) \in ScopeMinute /\ 2 * high = 2 * (high - 1) + 2
    <3>1. high - 1 \in Int /\ high - 1 \in 0..ScopeLength - 1
      BY <1>2, <1>9
    <3>2. 2 * high = 2 * (high - 1) + 2
      BY <1>9
    <3>. QED
      BY <1>4, <3>1, <3>2
  <2>. QED
    BY <2>1, <2>2 DEF UnavailableRange
<1>13. \A x \in ScopeMinute : gap.since <= x /\ x < gap.until => Bare(x)
  <2>1. SUFFICES ASSUME NEW x \in ScopeMinute, 2 * low <= x, x < 2 * high PROVE Bare(x)
    OBVIOUS
  <2>2. x <= b \/ b <= x
    BY <1>1, <1>2, <1>3
  <2>. QED
    BY <1>7, <1>8, <2>1, <2>2
<1>14. gap.since < gap.until
  BY <1>9
<1>15. gap \in UnavailableIn(R)
  BY <1>10, <1>11, <1>12, <1>13, <1>14 DEF UnavailableIn
<1>. QED
  BY <1>15

LEMMA MinOfTwo ==
  ASSUME NEW a \in Nat, NEW b \in Nat
  PROVE  Min({a, b}) = IF a <= b THEN a ELSE b
<1> DEFINE m == IF a <= b THEN a ELSE b
<1>1. m \in {a, b} /\ \A y \in {a, b} : m <= y
  OBVIOUS
<1>2. Min({a, b}) \in {a, b} /\ \A y \in {a, b} : Min({a, b}) <= y
  BY <1>1 DEF Min
<1>. QED
  BY <1>2

(* Where every minute has its contract, the contracts follow one another over the scope. *)
LEMMA ExpectedScopeIsSpanned ==
  ASSUME NEW C \in Catalogs, NEW R \in SUBSET C, \A b \in ScopeMinute : Expected(R, b)
  PROVE  SpansScope(R)
<1> DEFINE S == {r \in R : r.from < Until}
           n == Cardinality(S)
           o == ByStart(S)
<1>1. \A r \in S : r \in R /\ r.from \in Nat /\ r.to \in Nat /\ r.from < r.to /\ r.from < Until
  BY CatalogsAreTyped, ScopeIsTyped
<1>2. IsFiniteSet(S)
  BY CatalogsAreTyped, FS_Subset
<1>3. \A b \in ScopeMinute : \E q \in S : Covers(q, b) /\ \A r \in R : Overlaps(r, b) => r = q
  <2>1. SUFFICES ASSUME NEW b \in ScopeMinute
                 PROVE  \E q \in S : Covers(q, b) /\ \A r \in R : Overlaps(r, b) => r = q
    OBVIOUS
  <2>2. PICK q \in R : OverlapsAt(R, b) = {q} /\ Covers(q, b)
    BY DEF Expected
  <2>3. q.from \in Nat
    BY CatalogsAreTyped, ScopeIsTyped
  <2>4. q \in S
    BY <2>2, <2>3, ScopeIsTyped DEF Covers
  <2>. QED
    BY <2>2, <2>4 DEF OverlapsAt
<1>4. \A r \in S : r.from % 2 = 0 /\ r.from \in ScopeMinute /\ Overlaps(r, r.from)
  <2>1. SUFFICES ASSUME NEW r \in S
                 PROVE  r.from % 2 = 0 /\ r.from \in ScopeMinute /\ Overlaps(r, r.from)
    OBVIOUS
  <2> DEFINE b == r.from - (r.from % 2)
  <2>2. b \in ScopeMinute
    BY <1>1, ScopeIsTyped
  <2>3. r.from % 2 \in {0, 1} /\ b \in Nat
    BY <1>1, ParityIsBit
  <2>4. Overlaps(r, b)
    BY <1>1, <2>3 DEF Overlaps
  <2>5. PICK q \in S : Covers(q, b) /\ \A x \in R : Overlaps(x, b) => x = q
    BY <1>3, <2>2
  <2>6. q = r /\ r.from <= b
    BY <1>1, <2>4, <2>5 DEF Covers
  <2>7. r.from % 2 = 0 /\ b = r.from
    BY <1>1, <2>3, <2>6
  <2>. QED
    BY <2>2, <2>4, <2>7
<1>5. \A r, q \in S : r.from = q.from => r = q
  BY <1>1, <1>3, <1>4
<1>6. \A r, q \in S : r.from < q.from => r.to <= q.from
  <2>1. SUFFICES ASSUME NEW r \in S, NEW q \in S, r.from < q.from, q.from < r.to PROVE FALSE
    BY <1>1
  <2>2. Overlaps(r, q.from)
    BY <1>1, <2>1 DEF Overlaps
  <2>3. r = q
    BY <1>1, <1>3, <1>4, <2>2
  <2>. QED
    BY <1>1, <2>1, <2>3
<1>7. \A r \in S : r.to < Until => \E q \in S : q.from = r.to
  <2>1. SUFFICES ASSUME NEW r \in S, r.to < Until PROVE \E q \in S : q.from = r.to
    OBVIOUS
  <2> DEFINE b == r.to - (r.to % 2)
  <2>2. b \in ScopeMinute
    BY <1>1, <2>1, ScopeIsTyped
  <2>3. r.to % 2 \in {0, 1} /\ b \in Nat
    BY <1>1, ParityIsBit
  <2>4. PICK q \in S : Covers(q, b) /\ \A x \in R : Overlaps(x, b) => x = q
    BY <1>3, <2>2
  <2>5. r.to % 2 = 0 /\ b = r.to
    <3>1. SUFFICES ASSUME r.to % 2 = 1 PROVE FALSE
      BY <1>1, <2>3
    <3>2. Overlaps(r, b)
      BY <1>1, <2>3, <3>1 DEF Overlaps
    <3>3. q = r
      BY <1>1, <2>4, <3>2
    <3>. QED
      BY <1>1, <2>3, <2>4, <3>1, <3>3 DEF Covers
  <2>. HIDE DEF b
  <2>6. q.from <= r.to /\ r.to < q.to
    BY <1>1, <2>3, <2>4, <2>5 DEF Covers
  <2>7. r.from < q.from
    <3>1. r.from # q.from
      <4>1. SUFFICES ASSUME r.from = q.from PROVE FALSE
        OBVIOUS
      <4>2. r = q
        BY <1>5, <4>1
      <4>. QED
        BY <1>1, <2>6, <4>2
    <3>2. ~(q.from < r.from)
      <4>1. SUFFICES ASSUME q.from < r.from PROVE FALSE
        OBVIOUS
      <4>2. q.to <= r.from
        BY <1>6, <4>1
      <4>. QED
        BY <1>1, <2>6, <4>2
    <3>. QED
      BY <1>1, <3>1, <3>2
  <2>8. r.to <= q.from
    BY <1>6, <2>7
  <2>. QED
    BY <1>1, <2>6, <2>8
<1>8. PICK first \in S : first.from = 0
  <2>1. 0 \in ScopeMinute
    BY ScopeIsTyped
  <2>2. PICK q \in S : Covers(q, 0)
    BY <1>3, <2>1
  <2>. QED
    BY <1>1, <2>2 DEF Covers
<1>. HIDE DEF S
<1>9. /\ n \in Nat /\ o \in [1..n -> S]
      /\ \A i, j \in 1..n : i < j => o[i] # o[j] /\ o[i].from <= o[j].from
  <2> DEFINE rank == [r \in S |-> r.from]
  <2>1. /\ \A r \in S : rank[r] \in Nat
        /\ \A r, q \in S : rank[r] = rank[q] => r = q
    BY <1>1, <1>5
  <2>. HIDE DEF rank
  <2>2. PICK s \in [1..Cardinality(S) -> S] : \A i, j \in 1..Cardinality(S) : i < j => rank[s[i]] < rank[s[j]]
    BY ONLY <1>2, <2>1, RankedOrderExists, Zenon
  <2>3. n \in Nat
    BY <1>2, FS_CardinalityType
  <2>4. \A i, j \in DOMAIN s : i < j => s[i] # s[j] /\ s[i].from <= s[j].from
    <3>1. SUFFICES ASSUME NEW i \in 1..n, NEW j \in 1..n, i < j
                   PROVE  s[i] # s[j] /\ s[i].from <= s[j].from
      BY <2>2
    <3>2. s[i] \in S /\ s[j] \in S /\ rank[s[i]] < rank[s[j]]
      BY <2>2, <3>1
    <3>3. s[i].from < s[j].from
      BY <3>2 DEF rank
    <3>. QED
      BY <1>1, <3>2, <3>3
  <2> DEFINE StartsInOrder(t) == \A i, j \in DOMAIN t : i < j => t[i] # t[j] /\ t[i].from <= t[j].from
  <2>5. StartsInOrder(s) /\ ByStart(S) = CHOOSE t \in [1..Cardinality(S) -> S] : StartsInOrder(t)
    BY <2>4 DEF ByStart
  <2>. HIDE DEF StartsInOrder
  <2>6. ByStart(S) \in [1..Cardinality(S) -> S] /\ StartsInOrder(ByStart(S))
    BY <2>2, <2>5, Zenon
  <2>. QED
    BY <2>3, <2>6 DEF StartsInOrder
<1>10. \A r \in S : \E i \in 1..n : o[i] = r
  BY ONLY <1>2, <1>9, ListReachesAll, ZenonT(30)
<1>. HIDE DEF n, o
<1>11. \A i, j \in 1..n : i < j => o[i].from < o[j].from
  <2>1. SUFFICES ASSUME NEW i \in 1..n, NEW j \in 1..n, i < j PROVE o[i].from < o[j].from
    OBVIOUS
  <2>2. o[i] \in S /\ o[j] \in S /\ o[i].from <= o[j].from /\ o[i].from # o[j].from
    BY <1>5, <1>9, <2>1
  <2>. QED
    BY <1>1, <2>2
<1>12. n \in Nat \ {0} /\ \A i \in 1..n : /\ o[i] \in S /\ o[i].from \in Nat /\ o[i].to \in Nat
                                           /\ o[i].from < o[i].to /\ o[i].from < Until
  BY <1>1, <1>8, <1>9, <1>10
<1>13. o[1].from = 0
  <2>1. PICK i \in 1..n : o[i] = first
    BY <1>8, <1>10
  <2>. QED
    BY <1>8, <1>11, <1>12, <2>1
<1>14. \A i \in 1..n : o[i].to < Until => i < n /\ o[i + 1].from = o[i].to
  <2>1. SUFFICES ASSUME NEW i \in 1..n, o[i].to < Until PROVE i < n /\ o[i + 1].from = o[i].to
    OBVIOUS
  <2>2. PICK q \in S : q.from = o[i].to
    BY <1>7, <1>12, <2>1
  <2>3. PICK k \in 1..n : o[k] = q
    BY <1>10
  <2>4. i < k
    <3>1. o[i].from < o[k].from
      BY <1>12, <2>2, <2>3
    <3>2. ~(k < i) /\ k # i
      BY <1>11, <1>12, <3>1
    <3>. QED
      BY <3>2
  <2>5. i + 1 \in 1..n /\ i < i + 1
    BY <1>12, <2>4
  <2>6. o[i].to <= o[i + 1].from
    BY <1>6, <1>11, <1>12, <2>5
  <2>7. o[i + 1].from <= q.from
    <3>1. i + 1 < k \/ i + 1 = k
      BY <2>4
    <3>. QED
      BY <1>11, <1>12, <2>3, <2>5, <3>1
  <2>. QED
    BY <1>12, <2>2, <2>5, <2>6, <2>7
<1>15. \A i \in 1..n : i # 1 => o[i].from = o[i - 1].to
  <2>1. SUFFICES ASSUME NEW i \in 1..n, i # 1 PROVE o[i].from = o[i - 1].to
    OBVIOUS
  <2>2. i - 1 \in 1..n /\ i - 1 < i /\ (i - 1) + 1 = i
    BY <1>12, <2>1
  <2>3. o[i - 1].to <= o[i].from
    BY <1>6, <1>11, <1>12, <2>2
  <2>4. o[i - 1].to < Until
    BY <1>12, <2>2, <2>3, ScopeIsTyped
  <2>. QED
    BY <1>14, <2>2, <2>4
<1> DEFINE end(i) == IF i = 0 THEN 0 ELSE Min({Until, o[i].to})
<1>16. end(0) = 0 /\ \A i \in 1..n : end(i) = IF Until <= o[i].to THEN Until ELSE o[i].to
  <2>1. \A i \in 1..n : Min({Until, o[i].to}) = IF Until <= o[i].to THEN Until ELSE o[i].to
    BY <1>12, ScopeIsTyped, MinOfTwo
  <2>. QED
    BY <2>1
<1>. HIDE DEF end
<1>17. \A i \in 1..n : o[i].from = end(i - 1)
  <2>1. SUFFICES ASSUME NEW i \in 1..n PROVE o[i].from = end(i - 1)
    OBVIOUS
  <2>2. CASE i = 1
    BY <1>13, <1>16, <2>2
  <2>3. CASE i # 1
    <3>1. i - 1 \in 1..n /\ i - 1 # 0
      BY <1>12, <2>3
    <3>2. o[i - 1].to < Until
      BY <1>12, <1>15, <2>3, <3>1
    <3>3. end(i - 1) = o[i - 1].to
      BY <1>12, <1>16, <3>1, <3>2, ScopeIsTyped
    <3>. QED
      BY <1>15, <2>3, <3>3
  <2>. QED
    BY <2>2, <2>3
<1>18. \A i \in 1..n : end(i) % 2 = 0
  <2>1. SUFFICES ASSUME NEW i \in 1..n PROVE end(i) % 2 = 0
    OBVIOUS
  <2>2. CASE Until <= o[i].to
    <3>1. end(i) = Until /\ Until % 2 = 0
      BY <1>16, <2>2, ScopeIsTyped
    <3>. QED
      BY <3>1
  <2>3. CASE ~(Until <= o[i].to)
    <3>1. o[i].to < Until /\ end(i) = o[i].to
      BY <1>12, <1>16, <2>3, ScopeIsTyped
    <3>2. i + 1 \in 1..n /\ o[i + 1].from = o[i].to
      BY <1>12, <1>14, <3>1
    <3>3. o[i + 1].from % 2 = 0
      BY <1>4, <1>12, <3>2
    <3>. QED
      BY <3>1, <3>2, <3>3
  <2>. QED
    BY <2>2, <2>3
<1>19. end(n) = Until
  <2>1. n \in 1..n /\ ~(n < n)
    BY <1>12
  <2>2. ~(o[n].to < Until)
    BY <1>14, <2>1
  <2>3. Until <= o[n].to
    BY <1>12, <2>1, <2>2, ScopeIsTyped
  <2>. QED
    BY <1>16, <2>1, <2>3
<1>20. DOMAIN o = 1..n
  BY <1>9
<1>21. /\ \A i \in DOMAIN o : o[i].from = end(i - 1) /\ end(i) % 2 = 0
       /\ end(n) = Until
  BY <1>17, <1>18, <1>19, <1>20
<1>. QED
  BY <1>21 DEF SpansScope, end, n, o, S

(* The contract of a minute that has one. *)
LEMMA ContractIsTheOne ==
  ASSUME NEW R, NEW b \in ScopeMinute, Expected(R, b)
  PROVE  /\ ContractAt(R, b) \in R /\ Covers(ContractAt(R, b), b)
         /\ OverlapsAt(R, b) = {ContractAt(R, b)}
<1>1. PICK r \in R : OverlapsAt(R, b) = {r} /\ Covers(r, b)
  BY DEF Expected
<1>2. \A q \in R : Overlaps(q, b) <=> q = r
  BY <1>1 DEF OverlapsAt
<1>3. ContractAt(R, b) = r
  BY <1>2 DEF ContractAt
<1>. QED
  BY <1>1, <1>3

LEMMA MissingAreCounted ==
  ASSUME NEW R
  PROVE  LET expected == {b \in ScopeMinute : Expected(R, b)}
             present == {b \in expected : Present(R, b)}
         IN  /\ Cardinality(expected) \in Nat /\ Cardinality(expected) <= ScopeLength
             /\ Cardinality(present) \in Nat /\ Cardinality(present) <= Cardinality(expected)
             /\ Cardinality(expected) - Cardinality(present) = Cardinality(MissingKeys(R))
<1> DEFINE expected == {b \in ScopeMinute : Expected(R, b)}
           present == {b \in expected : Present(R, b)}
           lacking == expected \ present
           key(b) == [id |-> ContractAt(R, b).id, hash |-> ContractAt(R, b).hash, bucket |-> b]
           f == [b \in lacking |-> key(b)]
<1>1. IsFiniteSet(expected) /\ Cardinality(expected) \in Nat /\ Cardinality(expected) <= ScopeLength
  <2>1. expected \in SUBSET ScopeMinute
    OBVIOUS
  <2>. HIDE DEF expected
  <2>. QED
    BY <2>1, ScopeIsTyped, FS_Subset, FS_CardinalityType
<1>2. /\ IsFiniteSet(present) /\ Cardinality(present) \in Nat /\ Cardinality(present) <= Cardinality(expected)
      /\ expected \cap present = present
  <2>1. present \in SUBSET expected
    OBVIOUS
  <2>. HIDE DEF expected, present
  <2>. QED
    BY <1>1, <2>1, FS_Subset, FS_CardinalityType
<1>3. IsFiniteSet(lacking) /\ Cardinality(lacking) = Cardinality(expected) - Cardinality(present)
  <2>. HIDE DEF expected, present
  <2>. QED
    BY <1>1, <1>2, FS_Difference
<1>4. MissingKeys(R) = {key(b) : b \in lacking}
  BY DEF MissingKeys
<1>5. f \in Bijection(lacking, MissingKeys(R))
  <2>1. f \in [lacking -> MissingKeys(R)] /\ \A x \in MissingKeys(R) : \E b \in lacking : f[b] = x
    <3>. HIDE DEF lacking, key
    <3>. QED
      BY <1>4
  <2>2. \A a, b \in lacking : f[a] = f[b] => a = b
    <3>1. \A b \in lacking : f[b].bucket = b
      <4>. HIDE DEF lacking
      <4>. QED
        OBVIOUS
    <3>. HIDE DEF lacking, f
    <3>. QED
      BY <3>1
  <2>. HIDE DEF f, lacking
  <2>. QED
    BY <2>1, <2>2 DEF Bijection, Injection, Surjection, IsInjective
<1>6. Cardinality(MissingKeys(R)) = Cardinality(lacking)
  <2>. HIDE DEF f, lacking
  <2>1. ExistsBijection(lacking, MissingKeys(R))
    BY <1>5 DEF ExistsBijection
  <2>. QED
    BY <1>3, <2>1, FS_Bijection
<1>. QED
  BY <1>1, <1>2, <1>3, <1>6

(* Without an open boundary or interval every minute has its contract. *)
LEMMA NothingOpenIsExpected ==
  ASSUME NEW R, Boundaries(R) = {}, UnavailableIn(R) = {}
  PROVE  \A b \in ScopeMinute : Expected(R, b)
<1>1. \A b \in ScopeMinute : OverlapsAt(R, b) # {}
  BY BareMinuteIsReported
<1>. QED
  BY <1>1 DEF Boundaries

LEMMA MergedKeepsFound ==
  ASSUME NEW found, NEW previous, MergedBoundaries(found, previous) = {}
  PROVE  found = {} /\ (previous # NoLedger => previous.boundaries = {})
<1> DEFINE all == found \cup previous.boundaries
<1>1. CASE previous = NoLedger
  BY <1>1 DEF MergedBoundaries
<1>2. CASE previous # NoLedger
  <2>1. SUFFICES ASSUME NEW x \in all PROVE FALSE
    BY <1>2
  <2>2. x.bucket \in {y.bucket : y \in all}
    BY <2>1
  <2>3. MergedBoundaries(found, previous) # {}
    BY <1>2, <2>2 DEF MergedBoundaries
  <2>. QED
    BY <2>3
<1>. QED
  BY <1>1, <1>2

(* What a status says of the contracts that were read. *)
LEMMA StatusSays ==
  ASSUME NEW C \in Catalogs, NEW R \in SUBSET C, NEW k
  PROVE  /\ Status(R, k) \in {"missing", "recovered"} =>
              \E r \in R : r.id = k.id /\ r.hash = k.hash /\ Covers(r, k.bucket)
         /\ Status(R, k) = "boundary_unresolved" => \E r \in R : r.id = k.id /\ r.hash = k.hash
         /\ Status(R, k) = "definition_changed" => \E r \in R : r.id = k.id /\ r.hash # k.hash
         /\ Status(R, k) = "recovered" => <<k.id, k.bucket>> \in candles
         /\ Status(R, k) \in {"version_unavailable", "definition_changed", "boundary_unresolved", "recovered", "missing"}
<1> DEFINE named == {r \in R : r.id = k.id}
           r0 == CHOOSE x \in named : TRUE
<1>1. CASE named = {}
  BY <1>1 DEF Status
<1>2. CASE named # {}
  <2>1. r0 \in named
    BY <1>2
  <2>2. r0 \in R /\ r0.id = k.id
    BY <2>1
  <2>3. Status(R, k) = IF r0.hash # k.hash THEN "definition_changed"
                       ELSE IF ~Covers(r0, k.bucket) THEN "boundary_unresolved"
                       ELSE IF <<k.id, k.bucket>> \in candles THEN "recovered" ELSE "missing"
    BY <1>2 DEF Status
  <2>. HIDE DEF r0
  <2>. QED
    BY <2>2, <2>3
<1>. QED
  BY <1>1, <1>2

LEMMA MissingIsTracked ==
  ASSUME NEW C \in Catalogs, NEW R \in SUBSET C, NEW k \in MissingKeys(R)
  PROVE  Status(R, k) = "missing"
<1>1. PICK b \in ScopeMinute : /\ Expected(R, b) /\ ~Present(R, b)
                                /\ k = [id |-> ContractAt(R, b).id, hash |-> ContractAt(R, b).hash, bucket |-> b]
  BY DEF MissingKeys
<1> DEFINE r == ContractAt(R, b)
<1>2. r \in R /\ Covers(r, b) /\ k.id = r.id /\ k.hash = r.hash /\ k.bucket = b /\ <<k.id, k.bucket>> \notin candles
  BY <1>1, ContractIsTheOne DEF Present
<1>. HIDE DEF r
<1>3. {x \in R : x.id = k.id} = {r}
  BY <1>2, CatalogsAreTyped
<1>. QED
  BY <1>2, <1>3 DEF Status

LEMMA ReportIsConsistent ==
  ASSUME catalog \in Catalogs, NEW previous, Size(Report(previous)) <= MaxGaps
  PROVE  Consistent(Report(previous))
<1> DEFINE R == Ranges(previous)
           expected == {b \in ScopeMinute : Expected(R, b)}
           present == {b \in expected : Present(R, b)}
           report == Report(previous)
<1>1. R \in SUBSET catalog
  BY DEF Ranges
<1>2. /\ report.ranges = R /\ report.expected = Cardinality(expected)
      /\ report.present = Cardinality(present) /\ report.missing = MissingKeys(R)
      /\ report.boundaries = MergedBoundaries(Boundaries(R), previous)
      /\ report.unavailable = {} => UnavailableIn(R) = {}
      /\ report.tracked = {[key |-> k, status |-> Status(R, k)] : k \in TrackedKeys(MissingKeys(R), previous)}
  BY DEF Report
<1>. HIDE DEF R, report
<1>3. /\ report.present <= report.expected /\ report.expected <= ScopeLength
      /\ report.expected - report.present = Cardinality(report.missing)
  BY <1>2, MissingAreCounted
<1>4. ASSUME report.boundaries = {}, report.unavailable = {}
      PROVE  report.expected = ScopeLength /\ SpansScope(report.ranges)
  <2>1. Boundaries(R) = {} /\ UnavailableIn(R) = {}
    BY <1>2, <1>4, MergedKeepsFound
  <2>2. \A b \in ScopeMinute : Expected(R, b)
    BY ONLY <2>1, NothingOpenIsExpected, Zenon
  <2>3. SpansScope(R)
    BY <1>1, <2>2, ExpectedScopeIsSpanned
  <2>4. expected = ScopeMinute
    BY <2>2
  <2>. QED
    BY <1>2, <2>3, <2>4, ScopeIsTyped
<1>5. \A k \in report.missing : [key |-> k, status |-> "missing"] \in report.tracked
  <2>1. SUFFICES ASSUME NEW k \in MissingKeys(R) PROVE [key |-> k, status |-> "missing"] \in report.tracked
    BY <1>2
  <2>2. Status(R, k) = "missing"
    BY <1>1, MissingIsTracked
  <2>3. k \in TrackedKeys(MissingKeys(R), previous)
    BY DEF TrackedKeys
  <2>. QED
    BY <1>2, <2>2, <2>3
<1>6. \A j, k \in report.tracked : j.key = k.key => j = k
  BY <1>2
<1>7. \A k \in report.tracked : k.status \in {"missing", "recovered"} =>
         \E r \in report.ranges : r.id = k.key.id /\ r.hash = k.key.hash /\ Covers(r, k.key.bucket)
  <2>1. SUFFICES ASSUME NEW k \in TrackedKeys(MissingKeys(R), previous), Status(R, k) \in {"missing", "recovered"}
                 PROVE  \E r \in R : r.id = k.id /\ r.hash = k.hash /\ Covers(r, k.bucket)
    BY <1>2
  <2>. QED
    BY <1>1, <2>1, StatusSays
<1>8. Size(report) <= MaxGaps
  BY DEF report
<1>. QED
  BY <1>3, <1>4, <1>5, <1>6, <1>7, <1>8 DEF Consistent, report

-----------------------------------------------------------------------------
(* What a report says of itself, and what it took over from the one before it. *)
Judged(report) ==
  /\ \A r, q \in report.ranges : r.id = q.id => r = q
  /\ \A k \in report.missing : [key |-> k, status |-> "missing"] \in report.tracked
  /\ \A j, k \in report.tracked : j.key = k.key => j = k
  /\ \A k \in report.tracked :
       /\ k.status \in {"missing", "boundary_unresolved", "recovered"} =>
            \E r \in report.ranges : r.id = k.key.id /\ r.hash = k.key.hash
       /\ k.status = "definition_changed" =>
            \E r \in report.ranges : r.id = k.key.id /\ r.hash # k.key.hash

Carries(report, previous) ==
  previous # NoLedger =>
    /\ report.boundaries = {} => previous.boundaries = {}
    /\ report.unavailable = {} => previous.unavailable = {}
    /\ \A k \in previous.missing \cup {t.key : t \in previous.tracked} :
         \E t \in report.tracked : t.key = k

EarlierReport(all, p) == IF p = 0 THEN NoLedger ELSE all[p].report

GapInv ==
  /\ catalog \in Catalogs
  /\ ledgers \in Seq([report : HistoryAudit, previous : Nat])
  /\ \A i \in 1..Len(ledgers) :
       /\ Judged(ledgers[i].report)
       /\ ledgers[i].previous \in 0..(i - 1)
       /\ Carries(ledgers[i].report, EarlierReport(ledgers, ledgers[i].previous))

LEMMA PreviousIsTyped ==
  ASSUME GapInv, NEW p \in 0..Len(ledgers)
  PROVE  /\ PreviousReport(p) \in HistoryAudit \cup {NoLedger}
         /\ p # 0 => PreviousReport(p) \in HistoryAudit /\ PreviousReport(p) # NoLedger
                      /\ PreviousReport(p) = ledgers[p].report
<1> DEFINE Ledger == [report : HistoryAudit, previous : Nat]
<1>0. \A l \in Ledger : l.report \in HistoryAudit
  OBVIOUS
<1>1. \A i \in 1..Len(ledgers) : ledgers[i].report \in HistoryAudit
  <2>1. ledgers \in Seq(Ledger)
    BY DEF GapInv
  <2>. HIDE DEF Ledger
  <2>2. \A i \in 1..Len(ledgers) : ledgers[i] \in Ledger
    BY <2>1
  <2>. QED
    BY <1>0, <2>2
<1>2. p # 0 => p \in 1..Len(ledgers)
  BY DEF GapInv
<1>. QED
  BY <1>1, <1>2, NoLedgerIsNone DEF PreviousReport

LEMMA ReportIsTyped ==
  ASSUME catalog \in Catalogs, NEW previous \in HistoryAudit \cup {NoLedger}
  PROVE  /\ Report(previous) \in HistoryAudit
         /\ Judged(Report(previous))
         /\ Carries(Report(previous), previous)
<1> DEFINE R == Ranges(previous)
           expected == {b \in ScopeMinute : Expected(R, b)}
           present == {b \in expected : Present(R, b)}
           keys == TrackedKeys(MissingKeys(R), previous)
           report == Report(previous)
<1>1. R \in SUBSET catalog /\ R \in SUBSET ContractRange
  BY CatalogsAreTyped DEF Ranges
<1>2. /\ report = [ranges |-> R, expected |-> Cardinality(expected), present |-> Cardinality(present),
                   missing |-> MissingKeys(R), boundaries |-> MergedBoundaries(Boundaries(R), previous),
                   unavailable |-> UnavailableIn(R) \cup
                                     (IF previous = NoLedger THEN {} ELSE previous.unavailable),
                   tracked |-> {[key |-> k, status |-> Status(R, k)] : k \in keys}]
  BY DEF Report
<1>3. /\ Cardinality(expected) \in Nat /\ Cardinality(present) \in Nat
  BY MissingAreCounted
<1>. HIDE DEF R, report, expected, present, keys
<1>4. MissingKeys(R) \in SUBSET CandleKey
  <2>1. SUFFICES ASSUME NEW b \in ScopeMinute, Expected(R, b)
                 PROVE  [id |-> ContractAt(R, b).id, hash |-> ContractAt(R, b).hash, bucket |-> b] \in CandleKey
    BY DEF MissingKeys
  <2>2. ContractAt(R, b) \in ContractRange
    BY <1>1, <2>1, ContractIsTheOne
  <2>. QED
    BY <2>2 DEF ContractRange, CandleKey
<1>5. Boundaries(R) \in SUBSET OpenBoundary
  <2>1. \A b \in ScopeMinute : OverlapsAt(R, b) \in SUBSET ContractRange
    BY <1>1 DEF OverlapsAt
  <2>. QED
    BY <2>1 DEF Boundaries, OpenBoundary
<1>6. MergedBoundaries(Boundaries(R), previous) \in SUBSET OpenBoundary
  <2>1. CASE previous = NoLedger
    BY <1>5, <2>1 DEF MergedBoundaries
  <2>2. CASE previous # NoLedger
    <3> DEFINE all == Boundaries(R) \cup previous.boundaries
               merged(b) == UNION {x.contracts : x \in {y \in all : y.bucket = b}}
    <3>1. all \in SUBSET OpenBoundary
      BY <1>5, <2>2 DEF HistoryAudit
    <3>2. \A x \in all : x.bucket \in ScopeMinute /\ x.contracts \in SUBSET ContractRange
      BY <3>1 DEF OpenBoundary
    <3>3. MergedBoundaries(Boundaries(R), previous) =
            {[bucket |-> b, contracts |-> merged(b)] : b \in {x.bucket : x \in all}}
      BY <2>2 DEF MergedBoundaries
    <3>4. \A b : merged(b) \in SUBSET ContractRange
      BY <3>2
    <3>. HIDE DEF all, merged
    <3>5. \A b \in {x.bucket : x \in all} : [bucket |-> b, contracts |-> merged(b)] \in OpenBoundary
      BY <3>2, <3>4 DEF OpenBoundary
    <3>. QED
      BY <3>3, <3>5
  <2>. QED
    BY <2>1, <2>2
<1>7. keys \in SUBSET CandleKey
  BY <1>4 DEF keys, TrackedKeys, HistoryAudit, TrackedGap
<1>8. UnavailableIn(R) \cup (IF previous = NoLedger THEN {} ELSE previous.unavailable) \in SUBSET UnavailableRange
  BY DEF UnavailableIn, HistoryAudit
<1>9. {[key |-> k, status |-> Status(R, k)] : k \in keys} \in SUBSET TrackedGap
  <2>1. \A k \in keys : Status(R, k) \in {"version_unavailable", "definition_changed", "boundary_unresolved", "recovered", "missing"}
    BY <1>1, StatusSays
  <2>. QED
    BY <1>7, <2>1 DEF TrackedGap
<1>10. report \in HistoryAudit
  <2>1. R \in SUBSET ContractRange
    BY <1>1
  <2>. QED
    BY ONLY <1>2, <1>3, <1>4, <1>6, <1>8, <1>9, <2>1 DEF HistoryAudit
<1>11. /\ report.ranges = R /\ report.missing = MissingKeys(R)
       /\ report.boundaries = MergedBoundaries(Boundaries(R), previous)
       /\ report.unavailable = UnavailableIn(R) \cup (IF previous = NoLedger THEN {} ELSE previous.unavailable)
       /\ report.tracked = {[key |-> k, status |-> Status(R, k)] : k \in keys}
  BY ONLY <1>2
<1>12. Judged(report)
  <2>1. \A r, q \in report.ranges : r.id = q.id => r = q
    BY <1>1, <1>11, CatalogsAreTyped
  <2>2. \A k \in report.missing : [key |-> k, status |-> "missing"] \in report.tracked
    <3>1. SUFFICES ASSUME NEW k \in MissingKeys(R) PROVE [key |-> k, status |-> "missing"] \in report.tracked
      BY <1>11
    <3>2. Status(R, k) = "missing"
      BY <1>1, MissingIsTracked
    <3>3. k \in keys
      BY DEF TrackedKeys, keys
    <3>. QED
      BY <1>11, <3>2, <3>3
  <2>3. \A j, k \in report.tracked : j.key = k.key => j = k
    BY <1>11
  <2>4. \A t \in report.tracked :
       /\ t.status \in {"missing", "boundary_unresolved", "recovered"} =>
            \E r \in report.ranges : r.id = t.key.id /\ r.hash = t.key.hash
       /\ t.status = "definition_changed" =>
            \E r \in report.ranges : r.id = t.key.id /\ r.hash # t.key.hash
    <3>1. SUFFICES ASSUME NEW k \in keys
                   PROVE  /\ Status(R, k) \in {"missing", "boundary_unresolved", "recovered"} =>
                               \E r \in R : r.id = k.id /\ r.hash = k.hash
                          /\ Status(R, k) = "definition_changed" =>
                               \E r \in R : r.id = k.id /\ r.hash # k.hash
      BY <1>11
    <3>. QED
      BY <1>1, StatusSays
  <2>. QED
    BY <2>1, <2>2, <2>3, <2>4 DEF Judged
<1>13. Carries(report, previous)
  <2>1. SUFFICES ASSUME previous # NoLedger
                 PROVE  /\ report.boundaries = {} => previous.boundaries = {}
                        /\ report.unavailable = {} => previous.unavailable = {}
                        /\ \A k \in previous.missing \cup {t.key : t \in previous.tracked} :
                             \E t \in report.tracked : t.key = k
    BY DEF Carries
  <2>2. report.boundaries = {} => previous.boundaries = {}
    BY <1>11, <2>1, MergedKeepsFound
  <2>3. report.unavailable = {} => previous.unavailable = {}
    BY <1>11, <2>1
  <2>4. previous.missing \cup {t.key : t \in previous.tracked} \subseteq keys
    BY <2>1 DEF keys, TrackedKeys
  <2>5. \A k \in keys : \E t \in report.tracked : t.key = k
    <3>1. SUFFICES ASSUME NEW k \in keys PROVE \E t \in report.tracked : t.key = k
      OBVIOUS
    <3>2. [key |-> k, status |-> Status(R, k)] \in report.tracked
      BY <1>11
    <3>. QED
      BY <3>2
  <2>6. \A k \in previous.missing \cup {t.key : t \in previous.tracked} : k \in keys
    BY <2>4
  <2>7. \A k \in previous.missing \cup {t.key : t \in previous.tracked} : \E t \in report.tracked : t.key = k
    BY ONLY <2>5, <2>6
  <2>. QED
    BY ONLY <2>2, <2>3, <2>7
<1>. QED
  BY <1>10, <1>12, <1>13 DEF report

LEMMA GapInit_GapInv ==
  ASSUME GapInit
  PROVE  GapInv
BY DEF GapInit, GapInv

LEMMA Audit_GapInv ==
  ASSUME GapInv, NEW p \in 0..Len(ledgers), Audit(p)
  PROVE  GapInv'
<1> DEFINE previous == PreviousReport(p)
           report == Report(previous)
           Ledger == [report : HistoryAudit, previous : Nat]
           n == Len(ledgers)
           new == [report |-> report, previous |-> p]
<1>1. catalog \in Catalogs /\ ledgers \in Seq(Ledger) /\ n \in Nat
  BY DEF GapInv
<1>2. previous \in HistoryAudit \cup {NoLedger}
  BY PreviousIsTyped
<1>3. report \in HistoryAudit /\ Judged(report) /\ Carries(report, previous)
  BY ONLY <1>1, <1>2, ReportIsTyped, Zenon
<1>4. ledgers' = Append(ledgers, new) /\ catalog' = catalog
  BY DEF Audit
<1>5. new \in Ledger /\ new.report = report /\ new.previous = p
  BY <1>1, <1>3
<1>. HIDE DEF previous, report, Ledger, new, n
<1>6. ledgers' \in Seq(Ledger) /\ Len(ledgers') = n + 1
  BY <1>1, <1>4, <1>5 DEF n
<1>7. \A i \in 1..n : ledgers'[i] = ledgers[i]
  BY <1>1, <1>4, <1>5 DEF n
<1>8. ledgers'[n + 1] = new
  BY <1>1, <1>4, <1>5 DEF n
<1>9. \A q \in 0..n : EarlierReport(ledgers', q) = EarlierReport(ledgers, q)
  BY <1>1, <1>7 DEF EarlierReport
<1>91. previous = EarlierReport(ledgers, p)
  BY DEF previous, PreviousReport, EarlierReport
<1>10. \A i \in 1..(n + 1) : /\ Judged(ledgers'[i].report)
                             /\ ledgers'[i].previous \in 0..(i - 1)
                             /\ Carries(ledgers'[i].report, EarlierReport(ledgers', ledgers'[i].previous))
  <2>1. SUFFICES ASSUME NEW i \in 1..(n + 1)
                 PROVE  /\ Judged(ledgers'[i].report)
                        /\ ledgers'[i].previous \in 0..(i - 1)
                        /\ Carries(ledgers'[i].report, EarlierReport(ledgers', ledgers'[i].previous))
    OBVIOUS
  <2>2. CASE i = n + 1
    <3>1. p \in 0..n /\ p \in 0..(i - 1)
      BY <1>1, <2>2 DEF n
    <3>. QED
      BY <1>3, <1>5, <1>8, <1>9, <1>91, <2>2, <3>1
  <2>3. CASE i # n + 1
    <3>1. i \in 1..n
      BY <1>1, <2>3
    <3>2. /\ Judged(ledgers[i].report)
          /\ ledgers[i].previous \in 0..(i - 1)
          /\ Carries(ledgers[i].report, EarlierReport(ledgers, ledgers[i].previous))
      BY <3>1 DEF GapInv, n
    <3>3. ledgers[i].previous \in 0..n
      BY <1>1, <3>1, <3>2
    <3>. QED
      BY <1>7, <1>9, <3>1, <3>2, <3>3
  <2>. QED
    BY <2>2, <2>3
<1>. QED
  BY <1>1, <1>4, <1>6, <1>10 DEF GapInv, Ledger

LEMMA GapNext_GapInv ==
  ASSUME GapInv, [GapNext]_gapVars
  PROVE  GapInv'
<1>1. CASE UNCHANGED gapVars
  BY <1>1 DEF gapVars, GapInv
<1>2. ASSUME NEW r \in catalog, NEW b \in ScopeMinute, CandleStored(r, b) PROVE GapInv'
  BY <1>2 DEF CandleStored, GapInv
<1>3. ASSUME NEW b \in ScopeMinute, CandlesDeleted(b) PROVE GapInv'
  BY <1>3 DEF CandlesDeleted, GapInv
<1>4. ASSUME NEW another \in Catalogs, CatalogReplaced(another) PROVE GapInv'
  BY <1>4 DEF CatalogReplaced, GapInv
<1>5. ASSUME NEW p \in 0..Len(ledgers), Audit(p) PROVE GapInv'
  BY <1>5, Audit_GapInv
<1>. QED
  BY <1>1, <1>2, <1>3, <1>4, <1>5 DEF GapNext

LEMMA GapInv_LedgerIsAccepted ==
  ASSUME GapInv
  PROVE  LedgerIsAccepted
<1>1. catalog \in Catalogs
  BY DEF GapInv
<1>2. \A previous : Size(Report(previous)) <= MaxGaps => Consistent(Report(previous))
  BY <1>1, ReportIsConsistent
<1>. QED
  BY ONLY <1>2 DEF LedgerIsAccepted

LEMMA GapInv_ComparedByContract ==
  ASSUME GapInv
  PROVE  ComparedByContract
<1>1. SUFFICES ASSUME NEW i \in DOMAIN ledgers, NEW b \in i..Len(ledgers),
                      NEW k \in Unresolved(ledgers[i].report)
               PROVE  LET baseline == ledgers[b].report
                          verdict == Comparison(k, baseline)
                          same == \E r \in baseline.ranges : r.id = k.id /\ r.hash = k.hash
                      IN  /\ verdict \in {"still_missing", "boundary_unresolved"} => same
                          /\ verdict = "identity_changed" => ~same
                          /\ k \in baseline.missing => verdict = "still_missing"
  BY DEF ComparedByContract
<1> DEFINE baseline == ledgers[b].report
           entries == {t \in baseline.tracked : InBaseline(k, t.key)}
           chosen == CHOOSE t \in entries : TRUE
           same == \E r \in baseline.ranges : r.id = k.id /\ r.hash = k.hash
           current == CurrentStatus(k, baseline)
           differs == \E r \in baseline.ranges : r.id = k.id /\ r.hash # k.hash
<1>2. b \in 1..Len(ledgers)
  BY DEF GapInv
<1>3. Judged(baseline)
  BY <1>2 DEF GapInv
<1>4. Comparison(k, baseline) =
        IF current = "missing" THEN "still_missing"
        ELSE IF current = "boundary_unresolved" THEN "boundary_unresolved"
        ELSE IF current = "definition_changed" \/ differs THEN "identity_changed"
        ELSE IF current = "recovered" THEN "unknown"
        ELSE "missing_from_new_baseline"
  BY DEF Comparison
<1>5. entries = {} => current = "none"
  BY DEF CurrentStatus
<1>6. entries # {} => chosen \in entries /\ current = chosen.status
  BY DEF CurrentStatus
<1>7. \A t \in entries : t \in baseline.tracked /\ t.key = k
  BY DEF InBaseline
<1>8. \A r, q \in baseline.ranges : r.id = q.id => r = q
  BY <1>3 DEF Judged
<1>9. differs => ~same
  BY <1>8
<1>. HIDE DEF baseline, chosen, current
<1>10. current \in {"missing", "boundary_unresolved"} => same
  BY <1>3, <1>5, <1>6, <1>7 DEF Judged
<1>11. current = "definition_changed" => differs
  BY <1>3, <1>5, <1>6, <1>7 DEF Judged
<1>12. k \in baseline.missing => current = "missing"
  <2>1. SUFFICES ASSUME k \in baseline.missing PROVE current = "missing"
    OBVIOUS
  <2>2. [key |-> k, status |-> "missing"] \in entries
    BY <1>3, <2>1 DEF Judged, InBaseline
  <2>3. chosen \in baseline.tracked /\ chosen.key = k /\ current = chosen.status
    BY <1>6, <1>7, <2>2
  <2>4. chosen = [key |-> k, status |-> "missing"]
    BY <1>3, <1>7, <2>2, <2>3 DEF Judged
  <2>. QED
    BY <2>3, <2>4
<1>. HIDE DEF same, differs, entries
<1>13. /\ Comparison(k, baseline) \in {"still_missing", "boundary_unresolved"} => same
       /\ Comparison(k, baseline) = "identity_changed" => ~same
       /\ k \in baseline.missing => Comparison(k, baseline) = "still_missing"
  BY <1>4, <1>9, <1>10, <1>11, <1>12
<1>. QED
  BY <1>13 DEF baseline, same

LEMMA GapInv_CompleteIsTrue ==
  ASSUME GapInv, [GapNext]_gapVars, NEW p \in 0..Len(ledgers),
         Len(ledgers') > Len(ledgers), Last(ledgers').previous = p,
         CompleteReport(Last(ledgers').report)
  PROVE  Whole /\ NothingOpen(p)
<1> DEFINE previous == PreviousReport(p)
           report == Report(previous)
           R == Ranges(previous)
           n == Len(ledgers)
<1>1. n \in Nat /\ ledgers \in Seq([report : HistoryAudit, previous : Nat])
  BY DEF GapInv
<1>2. PICK q \in 0..n : Audit(q)
  <2>1. ledgers' # ledgers
    BY <1>1
  <2>2. ~(UNCHANGED gapVars)
    BY <2>1 DEF gapVars
  <2>3. \A r, b : ~CandleStored(r, b) /\ ~CandlesDeleted(b) /\ ~CatalogReplaced(r)
    BY <2>1 DEF CandleStored, CandlesDeleted, CatalogReplaced
  <2>. QED
    BY <2>2, <2>3 DEF GapNext
<1>3. q = p /\ CompleteReport(report)
  <2> DEFINE new == [report |-> Report(PreviousReport(q)), previous |-> q]
             Ledger == [report : HistoryAudit, previous : Nat]
  <2>1. ledgers' = Append(ledgers, new) /\ catalog \in Catalogs
    BY <1>2 DEF Audit, GapInv
  <2>2. PreviousReport(q) \in HistoryAudit \cup {NoLedger}
    BY PreviousIsTyped
  <2>3. Report(PreviousReport(q)) \in HistoryAudit
    BY ONLY <2>1, <2>2, ReportIsTyped, Zenon
  <2>4. new \in Ledger /\ new.report = Report(PreviousReport(q)) /\ new.previous = q
    BY <1>1, <2>3
  <2>. HIDE DEF new
  <2>5. Last(ledgers') = new
    BY <1>1, <2>1, <2>4 DEF Last
  <2>. QED
    BY <2>4, <2>5
<1>4. /\ R \in SUBSET catalog /\ catalog \in Catalogs
      /\ report.missing = MissingKeys(R) /\ report.boundaries = MergedBoundaries(Boundaries(R), previous)
      /\ UnavailableIn(R) \subseteq report.unavailable
      /\ report.tracked = {[key |-> k, status |-> Status(R, k)] : k \in TrackedKeys(MissingKeys(R), previous)}
  BY DEF Report, Ranges, GapInv
<1>5. /\ report.missing = {} /\ report.boundaries = {} /\ report.unavailable = {}
      /\ \A k \in report.tracked : k.status = "recovered"
  BY <1>3 DEF CompleteReport
<1>6. Whole
  <2>1. Boundaries(R) = {} /\ UnavailableIn(R) = {}
    BY <1>4, <1>5, MergedKeepsFound
  <2>2. \A b \in ScopeMinute : Expected(R, b)
    BY ONLY <2>1, NothingOpenIsExpected, Zenon
  <2>3. SUFFICES ASSUME NEW b \in ScopeMinute
                 PROVE  \E r \in catalog : OverlapsAt(catalog, b) = {r} /\ Covers(r, b) /\ <<r.id, b>> \in candles
    BY DEF Whole
  <2>4. Present(R, b)
    <3>1. MissingKeys(R) = {} /\ Expected(R, b)
      BY <1>4, <1>5, <2>2
    <3>. HIDE DEF R
    <3>. QED
      BY <3>1 DEF MissingKeys
  <2> DEFINE r == ContractAt(R, b)
  <2>5. r \in R /\ Covers(r, b) /\ OverlapsAt(R, b) = {r} /\ <<r.id, b>> \in candles
    BY <2>2, <2>4, ContractIsTheOne DEF Present
  <2>. HIDE DEF r
  <2>6. \A x \in catalog : Overlaps(x, b) => x \in R
    <3>1. SUFFICES ASSUME NEW x \in catalog, Overlaps(x, b) PROVE x \in R
      OBVIOUS
    <3>2. x.from \in 0..Until /\ x.to \in 1..Forever /\ b \in Nat /\ b + 2 <= Until /\ Until \in Nat /\ Forever \in Nat
      BY <1>4, CatalogsAreTyped, ScopeIsTyped
    <3>3. x.from < Until /\ x.to > 0
      BY <3>1, <3>2 DEF Overlaps
    <3>. QED
      BY <3>3 DEF Ranges
  <2>7. OverlapsAt(catalog, b) = OverlapsAt(R, b)
    BY <1>4, <2>6 DEF OverlapsAt
  <2>. QED
    BY <1>4, <2>5, <2>7
<1>. HIDE DEF report, R
<1> DEFINE Told(j) ==
             LET old == ledgers[j].report IN
             /\ old.boundaries = {} /\ old.unavailable = {}
             /\ \A k \in old.missing \cup {t.key : t \in old.tracked} : \E t \in report.tracked : t.key = k
           S == {j \in 0..n : j = 0 \/ Told(j)}
<1>7. p \in S
  <2>1. CASE p = 0
    BY <1>1, <2>1
  <2>2. CASE p # 0
    <3>1. previous = ledgers[p].report /\ previous # NoLedger /\ previous \in HistoryAudit
      BY <2>2, PreviousIsTyped
    <3>2. Carries(report, previous)
      BY <1>4, <3>1, ReportIsTyped DEF report
    <3>. HIDE DEF previous
    <3>3. Told(p)
      BY <1>5, <3>1, <3>2 DEF Carries
    <3>. HIDE DEF Told
    <3>. QED
      BY <1>1, <3>3
  <2>. QED
    BY <2>1, <2>2
<1>. HIDE DEF Told
<1>8. \A j \in S \ {0} : ledgers[j].previous \in S
  <2>1. SUFFICES ASSUME NEW j \in 1..n, Told(j) PROVE ledgers[j].previous \in S
    <3>1. \A j \in S \ {0} : j \in 1..n /\ Told(j)
      BY <1>1
    <3>. QED
      BY <3>1
  <2> DEFINE i == ledgers[j].previous
  <2>2. i \in 0..(j - 1) /\ Carries(ledgers[j].report, EarlierReport(ledgers, i))
    BY DEF GapInv
  <2>. HIDE DEF i
  <2>3. i \in 0..n
    BY <1>1, <2>2
  <2>4. CASE i = 0
    BY <1>1, <2>4 DEF i
  <2>5. CASE i # 0
    <3>1. EarlierReport(ledgers, i) = ledgers[i].report /\ ledgers[i].report # NoLedger
      BY <2>3, <2>5, PreviousIsTyped DEF EarlierReport
    <3>2. /\ ledgers[j].report.boundaries = {} => ledgers[i].report.boundaries = {}
          /\ ledgers[j].report.unavailable = {} => ledgers[i].report.unavailable = {}
          /\ \A k \in ledgers[i].report.missing \cup {t.key : t \in ledgers[i].report.tracked} :
               \E t \in ledgers[j].report.tracked : t.key = k
      BY <2>2, <3>1 DEF Carries
    <3>3. \A k \in ledgers[i].report.missing \cup {t.key : t \in ledgers[i].report.tracked} :
            k \in ledgers[j].report.missing \cup {t.key : t \in ledgers[j].report.tracked}
      BY <3>2
    <3>4. Told(i)
      BY <2>1, <3>2, <3>3 DEF Told
    <3>. QED
      BY <2>3, <3>4 DEF i
  <2>. QED
    BY <2>4, <2>5
<1>9. \A i \in Chain(p) : i \in 1..n /\ Told(i)
  <2>1. SUFFICES ASSUME NEW i \in Chain(p) PROVE i \in 1..n /\ Told(i)
    OBVIOUS
  <2>2. S \in SUBSET (0..Len(ledgers))
    OBVIOUS
  <2>. HIDE DEF S
  <2>3. i \in DOMAIN ledgers /\ i \in S
    BY <1>7, <1>8, <2>2 DEF Chain
  <2>4. i \in 1..n
    BY <1>1, <2>3
  <2>. QED
    BY <1>1, <2>3, <2>4 DEF S
<1>10. NothingOpen(p)
  <2>1. SUFFICES ASSUME NEW i \in Chain(p)
                 PROVE  /\ ledgers[i].report.boundaries = {} /\ ledgers[i].report.unavailable = {}
                        /\ \A k \in ledgers[i].report.missing :
                             <<k.id, k.bucket>> \in candles /\ \E r \in catalog : r.id = k.id /\ r.hash = k.hash
    BY DEF NothingOpen
  <2>2. ledgers[i].report.boundaries = {} /\ ledgers[i].report.unavailable = {}
        /\ \A k \in ledgers[i].report.missing : \E t \in report.tracked : t.key = k
    BY <1>9 DEF Told
  <2>3. ASSUME NEW k \in ledgers[i].report.missing
        PROVE  <<k.id, k.bucket>> \in candles /\ \E r \in catalog : r.id = k.id /\ r.hash = k.hash
    <3>1. PICK t \in report.tracked : t.key = k
      BY <2>2
    <3>2. Status(R, k) = "recovered"
      BY <1>4, <1>5, <3>1
    <3>. QED
      BY <1>4, <3>2, StatusSays
  <2>. QED
    BY <2>2, <2>3
<1>. QED
  BY <1>6, <1>10

-----------------------------------------------------------------------------
(***************************************************************************)
(* SnapshotAudit: what a side's rows, minutes and findings say is given by *)
(* the records read of it, minute by minute (RowIsGiven, FindingIsGiven).  *)
(***************************************************************************)

Once(record) == <<record>>
Spoiled == <<BadRecord, BadRecord>>

(* What a side's rows, minutes and findings say of the records that were read. *)
RowIsGiven(g, row, seen) ==
  \/ g = <<>> /\ row = NoValue /\ ~seen
  \/ g \in {Once(BadRecord), Spoiled} /\ row = NoValue /\ seen
  \/ row \in Candle /\ g = Once(row) /\ seen

FindingIsGiven(g, finding) ==
  finding <=> \/ g[Unreadable] # <<>>
              \/ \E m \in Expected1m : g[m] \in {Once(BadRecord), Spoiled}

SnapInv ==
  /\ compareVolume \in BOOLEAN
  /\ fileRead \in Side \cup {"none"}
  /\ usableRows \in [Side -> [Expected1m -> Candle \cup {NoValue}]]
  /\ minutesSeen \in [Side -> SUBSET Expected1m]
  /\ findings \in [Side -> BOOLEAN]
  /\ given \in [Side -> [Expected1m \cup {Unreadable} -> Seq(Candle \cup {BadRecord})]]
  /\ \A s \in Side : \A m \in Expected1m :
       RowIsGiven(given[s][m], usableRows[s][m], m \in minutesSeen[s])
  /\ \A s \in Side : FindingIsGiven(given[s], findings[s])
  /\ outcome # "none" => fileRead = "none"
  /\ MatchIsExact

LEMMA RecordsAreTyped ==
  /\ Unreadable \notin Expected1m /\ WindowCount \in Nat /\ ReturnMinutes \in Nat
  /\ WindowCount \in Expected1m /\ WindowCount - ReturnMinutes \in Expected1m
  /\ \A m \in Expected1m : m \in Nat
  /\ NoValue \notin Candle /\ BadRecord \notin Candle /\ NoValue \notin Values
  /\ \A c \in Candle : c.price \in Nat /\ c.price \in Values /\ c.volume \in Values \cup {NoValue}
  /\ "left" # "none" /\ "right" # "none"
<1>1. WindowCount \in Nat /\ ReturnMinutes \in 1..WindowCount - 1 /\ Values \subseteq Nat \ {0}
  BY SnapshotAssumption
<1>2. /\ Unreadable \notin Expected1m /\ ReturnMinutes \in Nat
      /\ WindowCount \in Expected1m /\ WindowCount - ReturnMinutes \in Expected1m
      /\ \A m \in Expected1m : m \in Nat
  BY <1>1 DEF Unreadable, Expected1m
<1>3. \A c \in Candle : c.price \in Nat /\ c.price \in Values /\ c.volume \in Values \cup {NoValue}
  BY <1>1 DEF Candle
<1>4. NoValue \notin Candle /\ BadRecord \notin Candle /\ NoValue \notin Values
  BY NoRecordIsNone
<1>. QED
  BY <1>1, <1>2, <1>3, <1>4

LEMMA ListsDiffer ==
  ASSUME NEW a, NEW b
  PROVE  /\ Once(a) # <<>> /\ Once(a) # Spoiled /\ Spoiled # <<>>
         /\ Once(a) = Once(b) => a = b
         /\ Once(a)[1] = a
         /\ Len(Once(a)) = 1 /\ Len(Spoiled) # 1 /\ Len(<<>>) # 1
<1>1. Len(Once(a)) = 1 /\ Len(Once(b)) = 1 /\ Once(a)[1] = a /\ Once(b)[1] = b
  BY DEF Once
<1>2. Len(Spoiled) = 2 /\ Len(<<>>) = 0
  BY DEF Spoiled
<1>. QED
  BY <1>1, <1>2

LEMMA Init_SnapInv ==
  ASSUME SnapshotInit
  PROVE  SnapInv
<1>1. <<>> \in Seq(Candle \cup {BadRecord})
  OBVIOUS
<1>2. \A s \in Side : \A m \in Expected1m : RowIsGiven(given[s][m], usableRows[s][m], m \in minutesSeen[s])
  BY DEF SnapshotInit, RowIsGiven
<1>3. \A s \in Side : FindingIsGiven(given[s], findings[s])
  BY ListsDiffer DEF SnapshotInit, FindingIsGiven
<1>. QED
  BY <1>1, <1>2, <1>3 DEF SnapshotInit, SnapInv, MatchIsExact, Side

LEMMA ReadRecord_SnapInv ==
  ASSUME SnapInv, NEW bucket \in Expected1m \cup {Unreadable}, NEW record \in Candle \cup {BadRecord},
         bucket = Unreadable => record = BadRecord, ReadRecord(bucket, record)
  PROVE  SnapInv'
<1> DEFINE side == fileRead
           old == given[side][bucket]
           new == IF old = <<>> THEN Once(record) ELSE Spoiled
<1>1. side \in Side /\ outcome = "none" /\ fileRead' = fileRead /\ outcome' = outcome /\ compareVolume' = compareVolume
  BY RecordsAreTyped DEF ReadRecord, SnapInv, Side
<1>2. given' = [given EXCEPT ![side] = [given[side] EXCEPT ![bucket] = new]]
  BY DEF ReadRecord, Once, Spoiled, SnapInv
<1>3. new \in Seq(Candle \cup {BadRecord})
  <2> DEFINE Records == Candle \cup {BadRecord}
  <2>1. record \in Records /\ BadRecord \in Records
    OBVIOUS
  <2>. HIDE DEF Records
  <2>2. Once(record) \in Seq(Records) /\ Spoiled \in Seq(Records)
    BY <2>1 DEF Once, Spoiled
  <2>3. new \in Seq(Records)
    BY <2>2
  <2>. QED
    BY <2>3 DEF Records
<1>4. usableRows' = IF bucket = Unreadable THEN usableRows
                    ELSE [usableRows EXCEPT ![side] = [usableRows[side] EXCEPT ![bucket] = KeptRow(side, bucket, record)]]
  BY DEF ReadRecord
<1>5. minutesSeen' = [minutesSeen EXCEPT ![side] = minutesSeen[side] \cup ({bucket} \ {Unreadable})]
  BY DEF ReadRecord
<1> DEFINE told == \/ findings[side] \/ bucket = Unreadable
                   \/ record = BadRecord \/ bucket \in minutesSeen[side]
<1>6. findings' = [findings EXCEPT ![side] = told]
  BY DEF ReadRecord, Unusable
<1>7. KeptRow(side, bucket, record) = IF record = BadRecord \/ bucket \in minutesSeen[side] THEN NoValue ELSE record
  BY DEF KeptRow, Unusable
<1>. HIDE DEF new, told
<1>8. /\ given' \in [Side -> [Expected1m \cup {Unreadable} -> Seq(Candle \cup {BadRecord})]]
      /\ given'[side][bucket] = new
      /\ \A m \in Expected1m \cup {Unreadable} : m # bucket => given'[side][m] = given[side][m]
      /\ \A s \in Side : s # side => given'[s] = given[s]
  BY <1>1, <1>2, <1>3 DEF SnapInv
<1>9. /\ usableRows' \in [Side -> [Expected1m -> Candle \cup {NoValue}]]
      /\ bucket # Unreadable => usableRows'[side][bucket] = KeptRow(side, bucket, record)
      /\ \A m \in Expected1m : m # bucket => usableRows'[side][m] = usableRows[side][m]
      /\ \A s \in Side : s # side => usableRows'[s] = usableRows[s]
  <2>1. CASE bucket = Unreadable
    BY <1>1, <1>4, <2>1 DEF SnapInv
  <2>2. CASE bucket # Unreadable
    <3>1. bucket \in Expected1m /\ KeptRow(side, bucket, record) \in Candle \cup {NoValue}
      BY <1>7, <2>2
    <3>. HIDE DEF side
    <3>. QED
      BY <1>1, <1>4, <2>2, <3>1 DEF SnapInv, side
  <2>. QED
    BY <2>1, <2>2
<1>10. /\ minutesSeen' \in [Side -> SUBSET Expected1m]
       /\ \A m \in Expected1m : m \in minutesSeen'[side] <=> m = bucket \/ m \in minutesSeen[side]
       /\ \A s \in Side : s # side => minutesSeen'[s] = minutesSeen[s]
  BY <1>1, <1>5, RecordsAreTyped DEF SnapInv
<1>11. told \in BOOLEAN
  BY <1>1 DEF told, SnapInv
<1>12. /\ findings' \in [Side -> BOOLEAN] /\ findings'[side] = told
       /\ \A s \in Side : s # side => findings'[s] = findings[s]
  BY <1>1, <1>6, <1>11 DEF SnapInv
<1>13. ASSUME NEW s \in Side, NEW m \in Expected1m
       PROVE  RowIsGiven(given'[s][m], usableRows'[s][m], m \in minutesSeen'[s])
  <2>1. RowIsGiven(given[s][m], usableRows[s][m], m \in minutesSeen[s])
    BY DEF SnapInv
  <2>2. CASE s # side \/ m # bucket
    <3>1. /\ given'[s][m] = given[s][m] /\ usableRows'[s][m] = usableRows[s][m]
          /\ m \in minutesSeen'[s] <=> m \in minutesSeen[s]
      BY <1>8, <1>9, <1>10, <2>2
    <3>. QED
      BY <2>1, <3>1 DEF RowIsGiven
  <2>3. CASE s = side /\ m = bucket
    <3>1. /\ given'[s][m] = new /\ m \in minutesSeen'[s] /\ bucket # Unreadable
          /\ usableRows'[s][m] = KeptRow(side, bucket, record)
      BY <1>8, <1>9, <1>10, <2>3, RecordsAreTyped
    <3>2. old = <<>> <=> bucket \notin minutesSeen[side]
      BY <2>1, <2>3, ListsDiffer DEF RowIsGiven
    <3>3. CASE old = <<>>
      <4>1. new = Once(record) /\ (usableRows'[s][m] = IF record = BadRecord THEN NoValue ELSE record)
        BY <1>7, <3>1, <3>2, <3>3 DEF new
      <4>. QED
        BY <3>1, <4>1 DEF RowIsGiven
    <3>4. CASE old # <<>>
      <4>1. new = Spoiled /\ usableRows'[s][m] = NoValue
        BY <1>7, <3>1, <3>2, <3>4 DEF new
      <4>. QED
        BY <3>1, <4>1 DEF RowIsGiven
    <3>. QED
      BY <3>3, <3>4
  <2>. QED
    BY <2>2, <2>3
<1>14. ASSUME NEW s \in Side
       PROVE  FindingIsGiven(given'[s], findings'[s])
  <2>1. FindingIsGiven(given[s], findings[s])
    BY DEF SnapInv
  <2>2. CASE s # side
    BY <1>8, <1>12, <2>1, <2>2 DEF FindingIsGiven
  <2>3. CASE s = side
    <3>1. ASSUME bucket = Unreadable PROVE FindingIsGiven(given'[s], findings'[s])
      <4>1. new # <<>> /\ given'[s][Unreadable] = new /\ findings'[s] = TRUE
        BY <1>8, <1>12, <2>3, <3>1, ListsDiffer DEF new, told
      <4>. QED
        BY <4>1 DEF FindingIsGiven
    <3>2. ASSUME bucket # Unreadable PROVE FindingIsGiven(given'[s], findings'[s])
      <4>1. bucket \in Expected1m /\ given'[s][Unreadable] = given[s][Unreadable]
            /\ given'[s][bucket] = new
            /\ \A m \in Expected1m : m # bucket => given'[s][m] = given[s][m]
        BY <1>8, <2>3, <3>2
      <4>2. RowIsGiven(old, usableRows[side][bucket], bucket \in minutesSeen[side])
        BY <1>1, <4>1 DEF SnapInv
      <4>3. old = <<>> <=> bucket \notin minutesSeen[side]
        BY <4>2, ListsDiffer DEF RowIsGiven
      <4>4. findings'[s] = (findings[side] \/ record = BadRecord \/ old # <<>>)
        BY <1>12, <2>3, <3>2, <4>3 DEF told
      <4>5. new \in {Once(BadRecord), Spoiled} <=> record = BadRecord \/ old # <<>>
        BY ListsDiffer DEF new
      <4>6. old \in {Once(BadRecord), Spoiled} => old # <<>>
        BY ListsDiffer
      <4>. HIDE DEF old, side
      <4>7. findings[side] <=> \/ given[s][Unreadable] # <<>>
                               \/ \E m \in Expected1m : given[s][m] \in {Once(BadRecord), Spoiled}
        BY <2>1, <2>3 DEF FindingIsGiven
      <4>8. (\E m \in Expected1m : given'[s][m] \in {Once(BadRecord), Spoiled})
              <=> \/ \E m \in Expected1m \ {bucket} : given[s][m] \in {Once(BadRecord), Spoiled}
                  \/ new \in {Once(BadRecord), Spoiled}
        BY <4>1
      <4>9. (\E m \in Expected1m : given[s][m] \in {Once(BadRecord), Spoiled})
              <=> \/ \E m \in Expected1m \ {bucket} : given[s][m] \in {Once(BadRecord), Spoiled}
                  \/ old \in {Once(BadRecord), Spoiled}
        BY <2>3, <4>1 DEF old
      <4>10. findings'[s] <=> \/ given'[s][Unreadable] # <<>>
                              \/ \E m \in Expected1m : given'[s][m] \in {Once(BadRecord), Spoiled}
        BY ONLY <4>1, <4>4, <4>5, <4>6, <4>7, <4>8, <4>9
      <4>. QED
        BY <4>10 DEF FindingIsGiven
    <3>. QED
      BY <3>1, <3>2
  <2>. QED
    BY <2>2, <2>3
<1>15. MatchIsExact'
  BY <1>1 DEF MatchIsExact
<1>. QED
  BY <1>1, <1>8, <1>9, <1>10, <1>12, <1>13, <1>14, <1>15 DEF SnapInv

LEMMA AuditSnapshots_SnapInv ==
  ASSUME SnapInv, AuditSnapshots
  PROVE  SnapInv'
<1> DEFINE Whole1(s, m) == usableRows[s][m] \in Candle /\ given[s][m] = Once(usableRows[s][m])
<1>1. /\ fileRead = "none" /\ outcome = "none" /\ UNCHANGED <<compareVolume, fileRead, usableRows, minutesSeen, findings, given>>
  BY DEF AuditSnapshots
<1>2. outcome' = IF Common = {} \/ ReturnPairs = {} THEN "unverified"
       ELSE IF (\E m \in Common : ValueDiffers(m)) \/ (\E m \in ReturnPairs : ReturnDiffers(m))
       THEN "differences"
       ELSE IF Incomplete THEN "incomplete" ELSE "match"
  BY DEF AuditSnapshots
<1>3. \A s \in Side : \A m \in Expected1m :
        /\ Whole1(s, m) <=> usableRows[s][m] # NoValue
        /\ Whole1(s, m) <=> Len(given[s][m]) = 1 /\ given[s][m][1] # BadRecord
        /\ Whole1(s, m) => given[s][m][1] = usableRows[s][m]
  <2>1. SUFFICES ASSUME NEW s \in Side, NEW m \in Expected1m
                 PROVE  /\ Whole1(s, m) <=> usableRows[s][m] # NoValue
                        /\ Whole1(s, m) <=> Len(given[s][m]) = 1 /\ given[s][m][1] # BadRecord
                        /\ Whole1(s, m) => given[s][m][1] = usableRows[s][m]
    OBVIOUS
  <2>2. RowIsGiven(given[s][m], usableRows[s][m], m \in minutesSeen[s])
    BY DEF SnapInv
  <2>3. CASE given[s][m] = <<>> /\ usableRows[s][m] = NoValue
    BY <2>3, ListsDiffer, RecordsAreTyped
  <2>4. CASE given[s][m] \in {Once(BadRecord), Spoiled} /\ usableRows[s][m] = NoValue
    BY <2>4, ListsDiffer, RecordsAreTyped
  <2>5. CASE usableRows[s][m] \in Candle /\ given[s][m] = Once(usableRows[s][m])
    BY <2>5, ListsDiffer, RecordsAreTyped
  <2>. QED
    BY <2>2, <2>3, <2>4, <2>5 DEF RowIsGiven
<1>. HIDE DEF Whole1
<1>4. \A m \in Expected1m : m \in Common <=> Whole1("left", m) /\ Whole1("right", m)
  BY <1>3 DEF Common, Usable, Side
<1>5. \A m \in Expected1m : Whole1("left", m) /\ Whole1("right", m) =>
        (ValueDiffers(m) <=>
           LET l == usableRows["left"][m] r == usableRows["right"][m] IN
           \/ l.price # r.price
           \/ compareVolume /\ NoValue \notin {l.volume, r.volume} /\ l.volume # r.volume)
  BY DEF ValueDiffers
<1> DEFINE Same(m) ==
             LET l == usableRows["left"][m] r == usableRows["right"][m] IN
             /\ Whole1("left", m) /\ Whole1("right", m)
             /\ l.price = r.price
             /\ compareVolume => l.volume = r.volume /\ l.volume # NoValue
           Agreed == /\ \A s \in Side : given[s][Unreadable] = <<>>
                     /\ \A m \in Expected1m : Same(m)
<1>6. FilesAgree <=> Agreed
  <2>1. ASSUME FilesAgree PROVE Agreed
    <3>1. \A m \in Expected1m : Whole1("left", m) /\ Whole1("right", m)
      BY <1>3, <2>1 DEF FilesAgree, Side
    <3>. QED
      BY <1>3, <2>1, <3>1 DEF FilesAgree, Side
  <2>2. ASSUME Agreed PROVE FilesAgree
    <3>1. \A s \in Side : \A m \in Expected1m : Whole1(s, m)
      BY <2>2 DEF Side
    <3>2. \A s \in Side : \A m \in Expected1m : Len(given[s][m]) = 1 /\ given[s][m][1] # BadRecord
                                               /\ given[s][m][1] = usableRows[s][m]
      BY <1>3, <3>1
    <3>. QED
      BY <2>2, <3>2 DEF FilesAgree, Side
  <2>. QED
    BY <2>1, <2>2
<1>7. \A s \in Side : findings[s] <=> \/ given[s][Unreadable] # <<>>
                                      \/ \E m \in Expected1m : given[s][m] \in {Once(BadRecord), Spoiled}
  BY DEF SnapInv, FindingIsGiven
<1>8. ASSUME Agreed PROVE outcome' = "match"
  <2>1. Common = Expected1m
    BY <1>4, <1>8 DEF Common, Usable
  <2>2. WindowCount \in ReturnPairs
    BY <2>1, RecordsAreTyped DEF ReturnPairs
  <2>3. \A m \in Common : ~ValueDiffers(m)
    BY <1>8, <2>1 DEF ValueDiffers
  <2>4. \A m \in ReturnPairs : ~ReturnDiffers(m)
    <3>1. SUFFICES ASSUME NEW m \in ReturnPairs PROVE ~ReturnDiffers(m)
      OBVIOUS
    <3>2. m \in Expected1m /\ m - ReturnMinutes \in Expected1m
      BY <2>1 DEF ReturnPairs
    <3>3. usableRows["left"][m].price = usableRows["right"][m].price
          /\ usableRows["left"][m - ReturnMinutes].price = usableRows["right"][m - ReturnMinutes].price
      BY <1>8, <3>2
    <3>. QED
      BY <3>3 DEF ReturnDiffers
  <2>5. ~Incomplete
    <3>1. \A s \in Side : \A m \in Expected1m : given[s][m] \notin {Once(BadRecord), Spoiled}
      <4>1. \A s \in Side : \A m \in Expected1m : Whole1(s, m)
        BY <1>8 DEF Side
      <4>. QED
        BY <4>1, ListsDiffer, RecordsAreTyped DEF Whole1
    <3>2. \A s \in Side : ~findings[s]
      BY <1>7, <1>8, <3>1
    <3>3. \A m \in Common : compareVolume => usableRows["left"][m].volume # NoValue /\ usableRows["right"][m].volume # NoValue
      BY <1>8, <2>1
    <3>. QED
      BY <2>1, <3>2, <3>3 DEF Incomplete, Side
  <2>. QED
    BY <1>2, <2>1, <2>2, <2>3, <2>4, <2>5, RecordsAreTyped
<1>9. ASSUME outcome' = "match" PROVE Agreed
  <2>1. ~Incomplete /\ \A m \in Common : ~ValueDiffers(m)
    BY <1>2, <1>9
  <2>2. Common = Expected1m /\ \A s \in Side : ~findings[s]
    BY <2>1 DEF Incomplete
  <2>3. ASSUME NEW m \in Expected1m PROVE Same(m)
    <3>1. Whole1("left", m) /\ Whole1("right", m) /\ ~ValueDiffers(m)
      BY <1>4, <2>1, <2>2
    <3>2. compareVolume => usableRows["left"][m].volume # NoValue /\ usableRows["right"][m].volume # NoValue
      BY <2>1, <2>2 DEF Incomplete, Side
    <3>. QED
      BY <3>1, <3>2 DEF ValueDiffers
  <2>. HIDE DEF Same
  <2>. QED
    BY <1>7, <2>2, <2>3
<1>10. MatchIsExact'
  <2>. HIDE DEF Agreed
  <2>1. FilesAgree' <=> FilesAgree
    BY <1>1 DEF FilesAgree
  <2>. QED
    BY <1>6, <1>8, <1>9, <2>1 DEF MatchIsExact
<1>. QED
  BY <1>1, <1>10 DEF SnapInv

LEMMA Next_SnapInv ==
  ASSUME SnapInv, [SnapshotNext]_snapshotVars
  PROVE  SnapInv'
<1>1. CASE UNCHANGED snapshotVars
  BY <1>1 DEF snapshotVars, SnapInv, MatchIsExact, FilesAgree
<1>2. ASSUME NEW m \in Expected1m, NEW c \in Candle \cup Unusable, ReadRecord(m, c) PROVE SnapInv'
  BY <1>2, ReadRecord_SnapInv, RecordsAreTyped DEF Unusable
<1>3. ASSUME NEW c \in Unusable, ReadRecord(Unreadable, c) PROVE SnapInv'
  BY <1>3, ReadRecord_SnapInv DEF Unusable
<1>4. CASE NextFile
  BY <1>4, RecordsAreTyped DEF NextFile, SnapInv, MatchIsExact, FilesAgree, Side
<1>5. CASE AuditSnapshots
  BY <1>5, AuditSnapshots_SnapInv
<1>. QED
  BY <1>1, <1>2, <1>3, <1>4, <1>5 DEF SnapshotNext

-----------------------------------------------------------------------------
(***************************************************************************)
(* The audits side by side: each one's invariant holds, whoever moves.     *)
(***************************************************************************)

\* A judged ledger is accepted by the next audit, and is compared by the contracts of its gaps,
\* over any catalogs, insertions and deletions.
THEOREM LedgersStayAccepted == GapSpec => [](LedgerIsAccepted /\ ComparedByContract)
<1>1. GapInv => LedgerIsAccepted /\ ComparedByContract
  BY GapInv_LedgerIsAccepted, GapInv_ComparedByContract
<1>. QED
  BY <1>1, GapInit_GapInv, GapNext_GapInv, PTL DEF GapSpec

\* Two files are certified as a match exactly when they agree, minute by minute: for any window,
\* any values, and any order in which the records are read.
THEOREM MatchesStayExact == SnapshotSpec => []MatchIsExact
<1>1. SnapInv => MatchIsExact
  BY DEF SnapInv
<1>. QED
  BY <1>1, Init_SnapInv, Next_SnapInv, PTL DEF SnapshotSpec

LEMMA AuditorStepIsTheirs ==
  ASSUME [RecordsNext]_recordsVars
  PROVE  [GapNext]_gapVars /\ [SnapshotNext]_snapshotVars /\ [AuditNext]_auditVars
<1>1. CASE UNCHANGED recordsVars
  BY <1>1 DEF recordsVars
<1>2. CASE recorder = "gaps" /\ GapNext /\ UNCHANGED <<snapshotVars, auditVars>>
  BY <1>2
<1>3. CASE recorder = "snapshot" /\ SnapshotNext /\ UNCHANGED <<gapVars, auditVars>>
  BY <1>3
<1>4. CASE recorder = "audit" /\ AuditNext /\ UNCHANGED <<gapVars, snapshotVars>>
  BY <1>4
<1>5. CASE UNCHANGED <<gapVars, snapshotVars, auditVars>>
  BY <1>5
<1>. QED
  BY <1>1, <1>2, <1>3, <1>4, <1>5, Zenon DEF RecordsNext

LEMMA AuditorsKeep ==
  /\ RecordsInit => GapInv /\ SnapInv /\ AuditInv
  /\ GapInv /\ SnapInv /\ AuditInv /\ [RecordsNext]_recordsVars =>
       GapInv' /\ SnapInv' /\ AuditInv'
<1>1. RecordsInit => GapInit /\ SnapshotInit /\ AuditInit
  BY DEF RecordsInit
<1>. QED
  BY <1>1, GapInit_GapInv, Init_SnapInv, AuditInitHolds, AuditorStepIsTheirs, GapNext_GapInv,
     Next_SnapInv, AuditNextKeeps

\* What an audit says is so: no ledger is refused, each is compared by its own contracts, a match
\* is one minute by minute, and the index tells the truth about the runs.
THEOREM AuditsStaySound == RecordsSpec => []AuditsHold
<1>1. GapInv /\ SnapInv /\ AuditInv => AuditsHold
  BY GapInv_LedgerIsAccepted, GapInv_ComparedByContract DEF SnapInv, AuditInv, AuditsHold
<1>. QED
  BY <1>1, AuditorsKeep, PTL DEF RecordsSpec

\* No ledger is called complete that forgets what an earlier one found, and an index that named
\* a completed audit of a target always names one.
THEOREM AuditsStayTrue == RecordsSpec => AuditsStay
<1> DEFINE TrueLedgers ==
      \A p \in 0..Len(ledgers) :
        Len(ledgers') > Len(ledgers) /\ Last(ledgers').previous = p
          /\ CompleteReport(Last(ledgers').report) => Whole /\ NothingOpen(p)
           KeptNames ==
      \A t \in Targets : index[t] # NoRun /\ index[t].completed # NoRun =>
        index'[t] # NoRun /\ index'[t].completed # NoRun
<1>1. GapInv /\ [GapNext]_gapVars => [TrueLedgers]_gapVars
  BY GapInv_CompleteIsTrue
<1>2. AuditInv /\ [AuditNext]_auditVars => [KeptNames]_auditVars
  BY AuditStepKeepsNames
<1>3. [RecordsNext]_recordsVars => [GapNext]_gapVars /\ [AuditNext]_auditVars
  BY AuditorStepIsTheirs
<1>. QED
  BY <1>1, <1>2, <1>3, AuditorsKeep, PTL DEF RecordsSpec, AuditsStay, CompleteIsTrue, CompletedIsKept

-----------------------------------------------------------------------------
(***************************************************************************)
(* DiscoveryEpisodes: what is kept of an asset is what was observed of it. *)
(* AssetHolds is that for one asset, whatever the cutoff evaluated last:   *)
(* its state recalls the last row that was observed, interrupted exactly   *)
(* when the observation broke there, no match was seen after the open      *)
(* episode was last confirmed, and there is one such episode at most.      *)
(* ShownHolds relates the row on show to the episodes.                     *)
(***************************************************************************)

SeenRow ==
  [identity : Identity, cutoff : Nat \ {0}, version : Nat, state : RowState]

DiscoveryProjection == [cutoff : Nat \ {0}, rows : [Asset -> DiscoveryRow \cup {Absent}]]

DiscoveryTyped ==
  /\ offer \in Generation \cup {Absent}
  /\ publisher \in [doing : {"idle", "saving", "evaluating"}, current : Nat,
                    pending : Generation \cup {Absent}, restarted : BOOLEAN]
  /\ publisher.doing # "idle" => publisher.pending # Absent
  /\ saved \in Nat
  /\ states \in [Asset -> DiscoveryState \cup {Absent}]
  /\ episodes \in [Asset -> SUBSET DiscoveryEpisode]
  /\ projection \in DiscoveryProjection \cup {Absent}
  /\ observed \in [Asset -> SUBSET SeenRow]
  /\ breaks \in [Asset -> SUBSET Nat]

\* The cutoff evaluated last
Reached == IF projection = Absent THEN 0 ELSE projection.cutoff

\* Two observations a minute apart with no break between
Joined(obs, brk, c, before, after) ==
  /\ c - 1 \notin brk
  /\ \E p, q \in obs :
       /\ p.cutoff = c - 1 /\ q.cutoff = c
       /\ p.identity = q.identity /\ p.version = q.version
       /\ p.state = before /\ q.state = after

Minutes(obs, brk) == {c \in Nat : Joined(obs, brk, c, "matched", "matched")}

\* How many of the minutes after f, up to l, are of some set
Lasting(f, l, T) == Cardinality((f + 1 .. l) \cap T)

EpisodeIsTrue(e, obs, brk) ==
  /\ e.duration = Lasting(e.first, e.last, Minutes(obs, brk))
  /\ e.kind = "new" => Joined(obs, brk, e.first, "not_matched", "matched")

StateRecalls(st, obs, brk, at, restarted) ==
  /\ st.cutoff <= at
  /\ \A p \in obs : p.cutoff <= st.cutoff
  /\ \E q \in obs :
       /\ q.cutoff = st.cutoff /\ q.identity = st.identity /\ q.version = st.version
       /\ ~st.interrupted => q.state = st.state
       /\ st.interrupted /\ st.cutoff = at => at \in brk \/ q.state = "unknown"
  /\ ~st.interrupted /\ st.cutoff = at /\ ~restarted => at \notin brk

OpenIsRecalled(e, st, obs) ==
  /\ st # Absent /\ st.episode = Identifier(e)
  /\ \A p \in obs : p.state = "matched" => p.cutoff <= e.last

ObservedOnce(obs, brk, at, restarted) ==
  /\ \A p \in obs : p.cutoff <= at
  /\ \A p, q \in obs : p.cutoff = q.cutoff => p = q
  /\ \A c \in brk : c <= at
  /\ restarted /\ at # 0 => at \in brk

EpisodesHold(st, eps, obs, brk, at) ==
  /\ \A e \in eps : EpisodeIsTrue(e, obs, brk) /\ e.first <= e.last /\ e.last <= at
  /\ \A e \in eps : IsOpen(e) => OpenIsRecalled(e, st, obs)
  /\ \A e, d \in eps : IsOpen(e) /\ IsOpen(d) => e = d

StateHolds(st, obs, brk, at, restarted) ==
  IF st = Absent THEN obs = {} ELSE StateRecalls(st, obs, brk, at, restarted)

AssetHolds(st, eps, obs, brk, at, restarted) ==
  /\ StateHolds(st, obs, brk, at, restarted)
  /\ ObservedOnce(obs, brk, at, restarted)
  /\ EpisodesHold(st, eps, obs, brk, at)

ShownHolds(row, st, eps, at) ==
  /\ (row # Absent /\ row.state = "matched") <=> \E e \in eps : e.state = "active"
  /\ row # Absent /\ row.state = "matched" =>
       st # Absent /\ row.identity = st.identity /\ row.confirmation # Absent
  /\ \A e \in eps : e.state = "active" => e.last = at /\ row.episode = Identifier(e)

AssetsHold ==
  \A a \in Asset :
    /\ AssetHolds(states[a], episodes[a], observed[a], breaks[a], Reached, publisher.restarted)
    /\ projection # Absent =>
         ShownHolds(projection.rows[a], states[a], episodes[a], projection.cutoff)

DiscoveryInv == DiscoveryTyped /\ AssetsHold

(* What is observed or broken from the last cutoff on changes nothing before. *)
LEMMA EarlierIsJoined ==
  ASSUME NEW obs \in SUBSET SeenRow, NEW obs2 \in SUBSET SeenRow,
         NEW brk \in SUBSET Nat, NEW brk2 \in SUBSET Nat, NEW at \in Nat,
         obs \subseteq obs2, \A q \in obs2 \ obs : q.cutoff > at,
         brk \subseteq brk2, \A c \in brk2 \ brk : c >= at,
         NEW c \in Nat, c <= at, NEW before, NEW after
  PROVE  Joined(obs2, brk2, c, before, after) <=> Joined(obs, brk, c, before, after)
<1>1. c - 1 \in brk2 <=> c - 1 \in brk
  BY SMT
<1>2. \A p \in obs2 : p.cutoff = c - 1 \/ p.cutoff = c => p \in obs
  BY DEF SeenRow
<1>. QED
  BY <1>1, <1>2 DEF Joined

LEMMA EpisodeStaysTrue ==
  ASSUME NEW obs \in SUBSET SeenRow, NEW obs2 \in SUBSET SeenRow,
         NEW brk \in SUBSET Nat, NEW brk2 \in SUBSET Nat, NEW at \in Nat,
         obs \subseteq obs2, \A q \in obs2 \ obs : q.cutoff > at,
         brk \subseteq brk2, \A c \in brk2 \ brk : c >= at,
         NEW e \in DiscoveryEpisode, e.first <= e.last, e.last <= at, EpisodeIsTrue(e, obs, brk)
  PROVE  EpisodeIsTrue(e, obs2, brk2)
<1>1. e.first \in Nat /\ e.last \in Nat
  BY DEF DiscoveryEpisode
<1>2. \A c \in e.first + 1 .. e.last : c \in Nat /\ c <= at
  BY <1>1
<1>3. \A c \in e.first + 1 .. e.last :
        Joined(obs2, brk2, c, "matched", "matched") <=> Joined(obs, brk, c, "matched", "matched")
  BY <1>2, EarlierIsJoined
<1>4. (e.first + 1 .. e.last) \cap Minutes(obs2, brk2) = (e.first + 1 .. e.last) \cap Minutes(obs, brk)
  BY <1>2, <1>3 DEF Minutes
<1>5. Joined(obs2, brk2, e.first, "not_matched", "matched")
        <=> Joined(obs, brk, e.first, "not_matched", "matched")
  BY <1>1, EarlierIsJoined
<1>. QED
  BY <1>4, <1>5 DEF EpisodeIsTrue, Lasting

(* Only the new minute may add to what an episode has lasted. *)
LEMMA OneMinuteMore ==
  ASSUME NEW f \in Nat, NEW l \in Nat, NEW c \in Nat, f <= l, l < c, NEW T,
         \A x \in l + 1 .. c - 1 : x \notin T
  PROVE  /\ Lasting(f, l, T) \in Nat
         /\ Lasting(f, c, T) = IF c \in T THEN Lasting(f, l, T) + 1 ELSE Lasting(f, l, T)
<1> DEFINE old == (f + 1 .. l) \cap T
           new == (f + 1 .. c) \cap T
<1>1. IsFiniteSet(f + 1 .. l)
  <2>1. f + 1 \in Int /\ l \in Int
    OBVIOUS
  <2>. QED
    BY <2>1, FS_Interval
<1>2. IsFiniteSet(old)
  BY <1>1, FS_Subset
<1>3. Cardinality(old) \in Nat
  BY <1>2, FS_CardinalityType
<1>4. \A x \in f + 1 .. c : x \in f + 1 .. l \/ x \in l + 1 .. c - 1 \/ x = c
  OBVIOUS
<1>5. \A x \in f + 1 .. l : x \in f + 1 .. c /\ x # c
  OBVIOUS
<1>6. CASE c \in T
  <2>1. c \in f + 1 .. c
    OBVIOUS
  <2>2. new = old \cup {c} /\ c \notin old
    BY <1>4, <1>5, <1>6, <2>1
  <2>. HIDE DEF old, new
  <2>3. Cardinality(new) = Cardinality(old) + 1
    BY <1>2, <2>2, FS_AddElement
  <2>. QED
    BY <1>3, <1>6, <2>3 DEF old, new, Lasting
<1>7. CASE c \notin T
  <2>1. new = old
    BY <1>4, <1>5, <1>7
  <2>. QED
    BY <1>3, <1>7, <2>1 DEF Lasting
<1>. QED
  BY <1>6, <1>7

(* The open episode of an asset is the one its state refers to. *)
LEMMA OpenIsFound ==
  ASSUME NEW a \in Asset, DiscoveryTyped,
         EpisodesHold(states[a], episodes[a], observed[a], breaks[a], Reached)
  PROVE  /\ OpenEpisode(a) # Absent => OpenEpisode(a) \in episodes[a] /\ IsOpen(OpenEpisode(a))
         /\ OpenEpisode(a) # Absent =>
              OpenEpisode(a) \in DiscoveryEpisode
              /\ OpenIsRecalled(OpenEpisode(a), states[a], observed[a])
         /\ \A e \in episodes[a] : IsOpen(e) => e = OpenEpisode(a)
         /\ \A e \in episodes[a] : e \in DiscoveryEpisode /\ e # Absent
<1> DEFINE of == {e \in episodes[a] : /\ states[a] # Absent
                                      /\ Identifier(e) = states[a].episode
                                      /\ IsOpen(e)}
<1>1. \A e \in episodes[a] : e \in DiscoveryEpisode /\ e # Absent
  BY AbsentIsNone DEF DiscoveryTyped
<1>2. OpenEpisode(a) = IF of = {} THEN Absent ELSE CHOOSE e \in of : TRUE
  BY DEF OpenEpisode
<1>3. of # {} => (CHOOSE e \in of : TRUE) \in of
  OBVIOUS
<1>4. OpenEpisode(a) # Absent => OpenEpisode(a) \in of
  BY <1>2, <1>3
<1>5. \A e \in episodes[a] : IsOpen(e) => e \in of /\ OpenIsRecalled(e, states[a], observed[a])
  BY DEF EpisodesHold, OpenIsRecalled
<1>6. \A e, d \in episodes[a] : IsOpen(e) /\ IsOpen(d) => e = d
  BY DEF EpisodesHold
<1>7. \A e \in of : e \in episodes[a] /\ IsOpen(e)
  OBVIOUS
<1>. HIDE DEF of
<1>8. \A e \in episodes[a] : IsOpen(e) => e = OpenEpisode(a)
  <2>1. SUFFICES ASSUME NEW e \in episodes[a], IsOpen(e) PROVE e = OpenEpisode(a)
    OBVIOUS
  <2>2. of # {}
    BY <1>5, <2>1
  <2>3. OpenEpisode(a) \in of
    BY <1>2, <1>3, <2>2
  <2>. QED
    BY <1>6, <1>7, <2>1, <2>3
<1>. QED
  BY <1>1, <1>4, <1>5, <1>7, <1>8
-----------------------------------------------------------------------------
(* Evaluating a new cutoff *)

SeenNow(a, inputs) ==
  IF inputs.rows[a] = Absent THEN observed[a]
  ELSE observed[a] \cup
         {[identity |-> inputs.rows[a].identity, cutoff |-> inputs.cutoff,
           version |-> inputs.version, state |-> inputs.rows[a].state]}

IsLater(inputs) == inputs \in Generation /\ inputs.cutoff > Reached

Was(a, inputs, state) == Contiguous(a, inputs) /\ states[a].state = state

LEMMA LaterIsNumbered ==
  ASSUME DiscoveryTyped, NEW inputs, IsLater(inputs)
  PROVE  /\ inputs.cutoff \in Nat /\ inputs.cutoff # 0 /\ inputs.key \in Nat /\ inputs.version \in Nat
         /\ Reached \in Nat /\ Reached < inputs.cutoff
         /\ \A a \in Asset : inputs.rows[a] # Absent => inputs.rows[a] \in Row
<1>1. MaxOffers \in Nat /\ MaxVersions \in Nat
  BY DiscoveryAssumption
<1>2. /\ inputs.cutoff \in 1 .. 2 * MaxOffers + 1 /\ inputs.key \in 1 .. MaxOffers
      /\ inputs.version \in 1 .. MaxVersions /\ inputs.rows \in [Asset -> Row \cup {Absent}]
  BY DEF IsLater, Generation
<1>3. Reached \in Nat
  BY DEF Reached, DiscoveryTyped, DiscoveryProjection
<1>. QED
  BY <1>1, <1>2, <1>3 DEF IsLater

(* What is seen now is later than all that was seen. *)
LEMMA SeenIsLater ==
  ASSUME DiscoveryInv, NEW a \in Asset, NEW inputs, IsLater(inputs)
  PROVE  /\ observed[a] \in SUBSET SeenRow /\ SeenNow(a, inputs) \in SUBSET SeenRow
         /\ breaks[a] \in SUBSET Nat
         /\ observed[a] \subseteq SeenNow(a, inputs)
         /\ \A q \in SeenNow(a, inputs) \ observed[a] : q.cutoff > Reached
         /\ \A q \in observed[a] : q.cutoff <= Reached /\ q.cutoff < inputs.cutoff
         /\ inputs.rows[a] = Absent => SeenNow(a, inputs) = observed[a]
         /\ ObservedOnce(SeenNow(a, inputs), breaks[a], inputs.cutoff, FALSE)
<1>1. /\ observed[a] \in SUBSET SeenRow /\ breaks[a] \in SUBSET Nat
      /\ ObservedOnce(observed[a], breaks[a], Reached, publisher.restarted)
  BY DEF DiscoveryInv, DiscoveryTyped, AssetsHold, AssetHolds
<1>2. /\ inputs.cutoff \in Nat /\ inputs.cutoff # 0 /\ inputs.version \in Nat
      /\ Reached \in Nat /\ Reached < inputs.cutoff
      /\ inputs.rows[a] # Absent => inputs.rows[a] \in Row
  BY LaterIsNumbered DEF DiscoveryInv
<1> DEFINE new == [identity |-> inputs.rows[a].identity, cutoff |-> inputs.cutoff,
                   version |-> inputs.version, state |-> inputs.rows[a].state]
<1>3. inputs.rows[a] # Absent => new \in SeenRow /\ new.cutoff = inputs.cutoff
  BY <1>2 DEF SeenRow, Row
<1>4. SeenNow(a, inputs) = IF inputs.rows[a] = Absent THEN observed[a] ELSE observed[a] \cup {new}
  BY DEF SeenNow
<1>. HIDE DEF new
<1>5. \A q \in observed[a] : q.cutoff \in Nat /\ q.cutoff <= Reached /\ q.cutoff < inputs.cutoff
  BY <1>1, <1>2 DEF ObservedOnce, SeenRow
<1>6. \A q \in SeenNow(a, inputs) \ observed[a] : q = new /\ inputs.rows[a] # Absent
  BY <1>4
<1>7. ObservedOnce(SeenNow(a, inputs), breaks[a], inputs.cutoff, FALSE)
  <2>1. \A p \in SeenNow(a, inputs) : p.cutoff <= inputs.cutoff
    BY <1>2, <1>3, <1>5, <1>6
  <2>2. \A p, q \in SeenNow(a, inputs) : p.cutoff = q.cutoff => p = q
    BY <1>1, <1>3, <1>5, <1>6 DEF ObservedOnce
  <2>3. \A c \in breaks[a] : c <= inputs.cutoff
    BY <1>1, <1>2 DEF ObservedOnce
  <2>. QED
    BY <2>1, <2>2, <2>3 DEF ObservedOnce
<1>. QED
  BY <1>1, <1>2, <1>3, <1>4, <1>5, <1>6, <1>7

(* What the state recalls of the minute before is what was seen. *)
LEMMA WasIsJoined ==
  ASSUME DiscoveryInv, NEW a \in Asset, NEW inputs, IsLater(inputs), inputs.rows[a] # Absent,
         NEW state \in {"matched", "not_matched"}, Was(a, inputs, state)
  PROVE  Joined(SeenNow(a, inputs), breaks[a], inputs.cutoff, state, inputs.rows[a].state)
         /\ Reached = inputs.cutoff - 1
         /\ \E p \in observed[a] : p.cutoff = inputs.cutoff - 1 /\ p.state = state
<1> DEFINE st == states[a]
           c == inputs.cutoff
           row == inputs.rows[a]
           new == [identity |-> row.identity, cutoff |-> c, version |-> inputs.version, state |-> row.state]
<1>1. /\ st # Absent /\ st.identity = row.identity /\ ~st.interrupted /\ ~publisher.restarted
      /\ st.cutoff + 1 = c /\ st.version = inputs.version /\ st.state = state
  BY DEF Was, Contiguous, SameIdentity
<1>2. c \in Nat /\ Reached \in Nat /\ Reached < c
  BY LaterIsNumbered DEF DiscoveryInv
<1>3. StateRecalls(st, observed[a], breaks[a], Reached, publisher.restarted) /\ st \in DiscoveryState
  BY <1>1 DEF DiscoveryInv, AssetsHold, AssetHolds, StateHolds, DiscoveryTyped
<1>4. st.cutoff = Reached /\ Reached = c - 1
  BY <1>1, <1>2, <1>3 DEF StateRecalls, DiscoveryState
<1>5. c - 1 \notin breaks[a]
  BY <1>1, <1>3, <1>4 DEF StateRecalls
<1>6. PICK p \in observed[a] : p.cutoff = c - 1 /\ p.identity = row.identity
                               /\ p.version = inputs.version /\ p.state = state
  BY <1>1, <1>3, <1>4 DEF StateRecalls
<1>7. p \in SeenNow(a, inputs) /\ new \in SeenNow(a, inputs)
  BY <1>6 DEF SeenNow
<1>8. /\ new.cutoff = c /\ p.identity = new.identity /\ p.version = new.version
      /\ new.state = inputs.rows[a].state
  BY <1>6
<1>. HIDE DEF new
<1>9. Joined(SeenNow(a, inputs), breaks[a], c, state, inputs.rows[a].state)
  BY <1>5, <1>6, <1>7, <1>8 DEF Joined
<1>. QED
  BY <1>4, <1>6, <1>9

(* And what was seen of it is what the state recalls. *)
LEMMA JoinedIsWas ==
  ASSUME DiscoveryInv, NEW a \in Asset, NEW inputs, IsLater(inputs), inputs.rows[a] # Absent,
         Joined(SeenNow(a, inputs), breaks[a], inputs.cutoff, "matched", "matched")
  PROVE  Was(a, inputs, "matched")
<1> DEFINE st == states[a]
           c == inputs.cutoff
           row == inputs.rows[a]
           new == [identity |-> row.identity, cutoff |-> c, version |-> inputs.version, state |-> row.state]
<1>1. c \in Nat /\ Reached \in Nat /\ Reached < c
  BY LaterIsNumbered DEF DiscoveryInv
<1>2. PICK p \in SeenNow(a, inputs) : \E q \in SeenNow(a, inputs) :
        /\ p.cutoff = c - 1 /\ q.cutoff = c
        /\ p.identity = q.identity /\ p.version = q.version
        /\ p.state = "matched" /\ q.state = "matched"
  BY DEF Joined
<1>3. PICK q \in SeenNow(a, inputs) :
        /\ p.cutoff = c - 1 /\ q.cutoff = c
        /\ p.identity = q.identity /\ p.version = q.version
        /\ p.state = "matched" /\ q.state = "matched"
  BY <1>2
<1>4. c - 1 \notin breaks[a]
  BY DEF Joined
<1>5. new.cutoff = c /\ new.identity = row.identity /\ new.version = inputs.version /\ new.state = row.state
  OBVIOUS
<1>6. \A r \in SeenNow(a, inputs) : r \in observed[a] \/ r = new
  BY DEF SeenNow
<1>. HIDE DEF new
<1>7. \A r \in observed[a] : r.cutoff < c /\ r.cutoff <= Reached /\ r \in SeenRow
  BY SeenIsLater
<1>8. q = new
  BY <1>1, <1>3, <1>6, <1>7 DEF SeenRow
<1>9. p \in observed[a]
  BY <1>1, <1>3, <1>5, <1>6
<1>10. st # Absent
  BY <1>9 DEF DiscoveryInv, AssetsHold, AssetHolds, StateHolds
<1>11. StateRecalls(st, observed[a], breaks[a], Reached, publisher.restarted) /\ st \in DiscoveryState
  BY <1>10 DEF DiscoveryInv, AssetsHold, AssetHolds, StateHolds, DiscoveryTyped
<1>12. st.cutoff = c - 1 /\ Reached = c - 1 /\ Reached # 0
  <2>1. st.cutoff \in Nat /\ st.cutoff <= Reached /\ p.cutoff <= st.cutoff /\ p.cutoff \in Nat /\ p.cutoff # 0
    BY <1>7, <1>9, <1>11 DEF StateRecalls, DiscoveryState, SeenRow
  <2>. QED
    BY <1>1, <1>3, <2>1
<1>13. ObservedOnce(observed[a], breaks[a], Reached, publisher.restarted)
  BY DEF DiscoveryInv, AssetsHold, AssetHolds
<1>14. PICK w \in observed[a] :
         /\ w.cutoff = st.cutoff /\ w.identity = st.identity /\ w.version = st.version
         /\ ~st.interrupted => w.state = st.state
         /\ st.interrupted /\ st.cutoff = Reached => Reached \in breaks[a] \/ w.state = "unknown"
  BY <1>11 DEF StateRecalls
<1>15. w = p
  BY <1>3, <1>9, <1>12, <1>13, <1>14 DEF ObservedOnce
<1>16. ~st.interrupted /\ st.state = "matched"
  BY <1>3, <1>4, <1>12, <1>14, <1>15
<1>17. ~publisher.restarted
  BY <1>4, <1>12, <1>13 DEF ObservedOnce
<1>18. st.identity = row.identity /\ st.version = inputs.version
  BY <1>3, <1>5, <1>8, <1>14, <1>15
<1>. QED
  BY <1>1, <1>10, <1>12, <1>16, <1>17, <1>18 DEF Was, Contiguous, SameIdentity

(* The episodes there were, seen from the new cutoff, and what they are turned into. *)
LEMMA OldEpisodes ==
  ASSUME DiscoveryInv, NEW a \in Asset, NEW inputs, IsLater(inputs), NEW e \in episodes[a]
  PROVE  /\ e \in DiscoveryEpisode /\ e # Absent
         /\ EpisodeIsTrue(e, SeenNow(a, inputs), breaks[a])
         /\ e.first <= e.last /\ e.last <= inputs.cutoff /\ e.last < inputs.cutoff
         /\ ~IsOpen(e) => e.state = "ended"
         /\ Interrupted(e) \in DiscoveryEpisode /\ Interrupted(e).state = "interrupted"
         /\ Identifier(Interrupted(e)) = Identifier(e)
         /\ EpisodeIsTrue(Interrupted(e), SeenNow(a, inputs), breaks[a])
         /\ Interrupted(e).first = e.first /\ Interrupted(e).last = e.last
         /\ Ended(e, inputs.key) \in DiscoveryEpisode /\ Ended(e, inputs.key).state = "ended"
         /\ EpisodeIsTrue(Ended(e, inputs.key), SeenNow(a, inputs), breaks[a])
         /\ Ended(e, inputs.key).first = e.first /\ Ended(e, inputs.key).last = e.last
<1>1. EpisodesHold(states[a], episodes[a], observed[a], breaks[a], Reached)
  BY DEF DiscoveryInv, AssetsHold, AssetHolds
<1>2. e \in DiscoveryEpisode /\ e # Absent
  BY <1>1, OpenIsFound DEF DiscoveryInv
<1>3. /\ inputs.cutoff \in Nat /\ inputs.key \in Nat /\ Reached \in Nat /\ Reached < inputs.cutoff
  BY LaterIsNumbered DEF DiscoveryInv
<1>4. EpisodeIsTrue(e, observed[a], breaks[a]) /\ e.first <= e.last /\ e.last <= Reached
  BY <1>1 DEF EpisodesHold
<1>5. /\ observed[a] \in SUBSET SeenRow /\ SeenNow(a, inputs) \in SUBSET SeenRow
      /\ breaks[a] \in SUBSET Nat /\ observed[a] \subseteq SeenNow(a, inputs)
      /\ \A q \in SeenNow(a, inputs) \ observed[a] : q.cutoff > Reached
  BY SeenIsLater
<1>6. EpisodeIsTrue(e, SeenNow(a, inputs), breaks[a])
  BY <1>2, <1>3, <1>4, <1>5, EpisodeStaysTrue
<1>7. e.last <= inputs.cutoff /\ e.last < inputs.cutoff
  BY <1>2, <1>3, <1>4 DEF DiscoveryEpisode
<1>8. ~IsOpen(e) => e.state = "ended"
  BY DEF IsOpen
<1> DEFINE i == Interrupted(e)
           d == Ended(e, inputs.key)
<1>9. /\ i \in DiscoveryEpisode /\ i.state = "interrupted" /\ i.identity = e.identity
      /\ i.first = e.first /\ i.last = e.last /\ i.kind = e.kind /\ i.duration = e.duration
  BY <1>2 DEF Interrupted, DiscoveryEpisode
<1>10. /\ d \in DiscoveryEpisode /\ d.state = "ended"
       /\ d.first = e.first /\ d.last = e.last /\ d.kind = e.kind /\ d.duration = e.duration
  BY <1>2, <1>3 DEF Ended, DiscoveryEpisode
<1>11. EpisodeIsTrue(i, SeenNow(a, inputs), breaks[a]) /\ EpisodeIsTrue(d, SeenNow(a, inputs), breaks[a])
  BY <1>6, <1>9, <1>10 DEF EpisodeIsTrue
<1>12. Identifier(i) = Identifier(e)
  BY <1>9 DEF Identifier
<1>. QED
  BY <1>2, <1>4, <1>6, <1>7, <1>8, <1>9, <1>10, <1>11, <1>12

(* A confirmation that continues adds the minute since the last one, and only then. *)
LEMMA ConfirmedIsTrue ==
  ASSUME DiscoveryInv, NEW a \in Asset, NEW inputs, IsLater(inputs), inputs.rows[a] # Absent,
         inputs.rows[a].state = "matched", NEW e \in episodes[a], IsOpen(e),
         NEW continuing \in BOOLEAN, continuing <=> Was(a, inputs, "matched")
  PROVE  /\ Confirmed(e, inputs, continuing) \in DiscoveryEpisode
         /\ EpisodeIsTrue(Confirmed(e, inputs, continuing), SeenNow(a, inputs), breaks[a])
         /\ Confirmed(e, inputs, continuing).first <= Confirmed(e, inputs, continuing).last
         /\ Confirmed(e, inputs, continuing).last = inputs.cutoff
         /\ Confirmed(e, inputs, continuing).state = "active"
         /\ Identifier(Confirmed(e, inputs, continuing)) = Identifier(e)
<1> DEFINE c == inputs.cutoff
           T == Minutes(SeenNow(a, inputs), breaks[a])
           d == Confirmed(e, inputs, continuing)
<1>1. /\ e \in DiscoveryEpisode /\ e.first <= e.last /\ e.last < c
      /\ EpisodeIsTrue(e, SeenNow(a, inputs), breaks[a])
  BY OldEpisodes
<1>2. c \in Nat /\ c # 0 /\ Reached \in Nat /\ Reached < c
  BY LaterIsNumbered DEF DiscoveryInv
<1>3. EpisodesHold(states[a], episodes[a], observed[a], breaks[a], Reached)
  BY DEF DiscoveryInv, AssetsHold, AssetHolds
<1>4. e.last <= Reached /\ \A p \in observed[a] : p.state = "matched" => p.cutoff <= e.last
  BY <1>3 DEF EpisodesHold, OpenIsRecalled
<1>5. \A x \in e.last + 1 .. c - 1 : x \notin T
  <2>1. SUFFICES ASSUME NEW x \in e.last + 1 .. c - 1, x \in T PROVE FALSE
    OBVIOUS
  <2>2. PICK q \in SeenNow(a, inputs) : q.cutoff = x /\ q.state = "matched"
    BY <2>1 DEF Minutes, Joined
  <2>3. x # c /\ x > e.last /\ x \in Int
    BY <1>1, <1>2 DEF DiscoveryEpisode
  <2>4. \A r \in SeenNow(a, inputs) : r \in observed[a] \/ r.cutoff = c
    BY DEF SeenNow
  <2>5. q \in observed[a]
    BY <2>2, <2>3, <2>4
  <2>6. x <= e.last
    BY <1>4, <2>2, <2>5
  <2>. QED
    BY <2>3, <2>6, <1>1 DEF DiscoveryEpisode
<1>6. c \in T <=> continuing
  <2>1. continuing => c \in T
    BY <1>2, WasIsJoined DEF Minutes
  <2>2. c \in T => continuing
    BY JoinedIsWas DEF Minutes
  <2>. QED
    BY <2>1, <2>2
<1>7. continuing => e.last = c - 1
  <2>1. SUFFICES ASSUME continuing PROVE e.last = c - 1
    OBVIOUS
  <2>2. Reached = c - 1 /\ \E p \in observed[a] : p.cutoff = c - 1 /\ p.state = "matched"
    BY <2>1, WasIsJoined
  <2>. QED
    BY <1>1, <1>2, <1>4, <2>2 DEF DiscoveryEpisode
<1>8. /\ e.first \in Nat /\ e.last \in Nat /\ e.duration \in Nat /\ e.confirmations \in Nat
      /\ e.identity \in Identity /\ e.kind \in ConfirmationKind /\ e.ended \in Nat
  BY <1>1 DEF DiscoveryEpisode
<1>9. Lasting(e.first, c, T)
        = IF continuing THEN Lasting(e.first, e.last, T) + 1 ELSE Lasting(e.first, e.last, T)
  <2>1. c \in Nat /\ e.first \in Nat /\ e.last \in Nat /\ e.first <= e.last /\ e.last < c
    BY <1>1, <1>2, <1>8
  <2>. HIDE DEF T, c
  <2>. QED
    BY <1>5, <1>6, <2>1, OneMinuteMore
<1>10. /\ d.identity = e.identity /\ d.kind = e.kind /\ d.first = e.first /\ d.last = c
       /\ d.state = "active" /\ d \in DiscoveryEpisode
       /\ d.duration = IF continuing THEN e.duration + c - e.last ELSE e.duration
  <2>1. d = [e EXCEPT !.state = "active", !.last = c,
                      !.confirmations = IF continuing THEN e.confirmations + 1 ELSE 1,
                      !.duration = IF continuing THEN e.duration + c - e.last ELSE e.duration]
    BY DEF Confirmed
  <2>2. (IF continuing THEN e.duration + c - e.last ELSE e.duration) \in Nat
    BY <1>2, <1>7, <1>8
  <2>3. (IF continuing THEN e.confirmations + 1 ELSE 1) \in Nat
    BY <1>8
  <2>. HIDE DEF d
  <2>. QED
    BY <1>1, <1>2, <2>1, <2>2, <2>3 DEF DiscoveryEpisode
<1>. HIDE DEF d
<1>11. d.duration = Lasting(d.first, d.last, T)
  <2>1. e.duration = Lasting(e.first, e.last, T)
    BY <1>1 DEF EpisodeIsTrue
  <2>2. continuing => e.duration + c - e.last = e.duration + 1
    BY <1>2, <1>7, <1>8
  <2>. HIDE DEF T, c
  <2>. QED
    BY <1>9, <1>10, <2>1, <2>2
<1>12. EpisodeIsTrue(d, SeenNow(a, inputs), breaks[a])
  BY <1>1, <1>10, <1>11 DEF EpisodeIsTrue
<1>13. d.first <= d.last
  BY <1>1, <1>2, <1>8, <1>10
<1>14. Identifier(d) = Identifier(e)
  BY <1>10 DEF Identifier
<1>. QED
  BY <1>10, <1>12, <1>13, <1>14 DEF d

LEMMA ConfirmationIsTyped ==
  ASSUME NEW a \in Asset, NEW inputs, inputs.rows[a].state = "matched"
  PROVE  /\ Confirmation(a, inputs) \in ConfirmationKind
         /\ Confirmation(a, inputs) = "continuing"
              <=> Kept(a, inputs.rows[a]) # Absent /\ Was(a, inputs, "matched")
         /\ Confirmation(a, inputs) = "new" => Was(a, inputs, "not_matched")
BY DEF Confirmation, ConfirmationKind, Was

LEMMA OpenedIsTrue ==
  ASSUME DiscoveryInv, NEW a \in Asset, NEW inputs, IsLater(inputs), inputs.rows[a] # Absent,
         inputs.rows[a].state = "matched"
  PROVE  /\ Opened(a, inputs) \in DiscoveryEpisode
         /\ EpisodeIsTrue(Opened(a, inputs), SeenNow(a, inputs), breaks[a])
         /\ Opened(a, inputs).first <= Opened(a, inputs).last
         /\ Opened(a, inputs).last = inputs.cutoff
         /\ Opened(a, inputs).state = "active"
<1> DEFINE c == inputs.cutoff
           d == Opened(a, inputs)
           T == Minutes(SeenNow(a, inputs), breaks[a])
<1>1. c \in Nat /\ inputs.rows[a] \in Row
  BY LaterIsNumbered DEF DiscoveryInv
<1>2. Confirmation(a, inputs) \in ConfirmationKind
  BY ConfirmationIsTyped
<1>3. /\ d \in DiscoveryEpisode /\ d.first = c /\ d.last = c /\ d.duration = 0
      /\ d.state = "active" /\ d.kind = Confirmation(a, inputs)
  BY <1>1, <1>2 DEF Opened, DiscoveryEpisode, Row
<1>. HIDE DEF d
<1>4. (c + 1 .. c) \cap T = {}
  BY <1>1
<1>5. d.duration = Lasting(d.first, d.last, T)
  BY <1>3, <1>4, FS_EmptySet DEF Lasting
<1>6. d.kind = "new" => Joined(SeenNow(a, inputs), breaks[a], c, "not_matched", "matched")
  BY <1>3, ConfirmationIsTyped, WasIsJoined
<1>7. EpisodeIsTrue(d, SeenNow(a, inputs), breaks[a])
  BY <1>3, <1>5, <1>6 DEF EpisodeIsTrue
<1>. QED
  BY <1>1, <1>3, <1>7 DEF d

(* What a row makes of the episode it goes on with. *)
LEMMA EvaluatedCases ==
  ASSUME NEW a \in Asset, NEW inputs, inputs.rows[a].state \in RowState
  PROVE  LET kept == Kept(a, inputs.rows[a])
             state == inputs.rows[a].state
         IN /\ state = "matched" /\ kept = Absent => Evaluated(a, inputs) = Opened(a, inputs)
            /\ state = "matched" /\ kept # Absent =>
                 Evaluated(a, inputs) = Confirmed(kept, inputs, Confirmation(a, inputs) = "continuing")
            /\ state = "not_matched" /\ kept # Absent => Evaluated(a, inputs) = Ended(kept, inputs.key)
            /\ state = "unknown" /\ kept # Absent => Evaluated(a, inputs) = Interrupted(kept)
            /\ state # "matched" /\ kept = Absent => Evaluated(a, inputs) = Absent
BY DEF Evaluated, RowState

(* The episodes when there is no row: the open one is interrupted. *)
LEMMA UnseenEpisodesHold ==
  ASSUME DiscoveryInv, NEW a \in Asset, NEW inputs, IsLater(inputs), inputs.rows[a] = Absent
  PROVE  /\ EpisodesAfter(a, inputs) \in SUBSET DiscoveryEpisode
         /\ EpisodesHold(StateAfter(a, inputs), EpisodesAfter(a, inputs), SeenNow(a, inputs),
                         breaks[a], inputs.cutoff)
         /\ \A e \in EpisodesAfter(a, inputs) : e.state # "active"
<1> DEFINE open == OpenEpisode(a)
           E == EpisodesAfter(a, inputs)
           st == states[a]
           st2 == StateAfter(a, inputs)
           cut == Interrupted(open)
<1>1. EpisodesHold(st, episodes[a], observed[a], breaks[a], Reached)
  BY DEF DiscoveryInv, AssetsHold, AssetHolds
<1>2. /\ open # Absent => open \in episodes[a] /\ IsOpen(open) /\ OpenIsRecalled(open, st, observed[a])
      /\ \A e \in episodes[a] : (IsOpen(e) => e = open) /\ e # Absent
  BY <1>1, OpenIsFound DEF DiscoveryInv
<1>3. SeenNow(a, inputs) = observed[a]
  BY SeenIsLater
<1>4. open = Absent => E = episodes[a]
  BY DEF EpisodesAfter
<1>5. open # Absent => E \in SUBSET ((episodes[a] \ {open}) \cup {cut})
  BY DEF EpisodesAfter, Replacing
<1>6. st # Absent => st2.episode = st.episode /\ st2 # Absent
  <2>1. SUFFICES ASSUME st # Absent PROVE st2.episode = st.episode /\ st2 # Absent
    OBVIOUS
  <2>2. st \in DiscoveryState
    BY <2>1 DEF DiscoveryInv, DiscoveryTyped
  <2>3. st2 = Broken(st)
    BY <2>1 DEF StateAfter
  <2>4. Broken(st) \in DiscoveryState /\ Broken(st).episode = st.episode
    BY <2>2 DEF Broken, DiscoveryState, RowState
  <2>. QED
    BY <2>3, <2>4, AbsentIsNone
<1>. HIDE DEF open, E, st2, cut
<1>7. \A e \in E : IsOpen(e) => open # Absent /\ e = cut
  BY <1>2, <1>4, <1>5
<1>8. open # Absent => OpenIsRecalled(cut, st2, SeenNow(a, inputs)) /\ cut.state = "interrupted"
  <2>1. SUFFICES ASSUME open # Absent
                 PROVE  OpenIsRecalled(cut, st2, SeenNow(a, inputs)) /\ cut.state = "interrupted"
    OBVIOUS
  <2>2. Identifier(cut) = Identifier(open) /\ cut.last = open.last /\ cut.state = "interrupted"
    BY <1>2, <2>1, OldEpisodes DEF cut
  <2>3. st # Absent /\ st.episode = Identifier(open)
        /\ \A p \in observed[a] : p.state = "matched" => p.cutoff <= open.last
    BY <1>2, <2>1 DEF OpenIsRecalled
  <2>. QED
    BY <1>3, <1>6, <2>2, <2>3 DEF OpenIsRecalled
<1>9. \A e \in E : /\ e \in DiscoveryEpisode /\ EpisodeIsTrue(e, SeenNow(a, inputs), breaks[a])
                   /\ e.first <= e.last /\ e.last <= inputs.cutoff
  <2>1. SUFFICES ASSUME NEW e \in E
                 PROVE  /\ e \in DiscoveryEpisode /\ EpisodeIsTrue(e, SeenNow(a, inputs), breaks[a])
                        /\ e.first <= e.last /\ e.last <= inputs.cutoff
    OBVIOUS
  <2>2. CASE e \in episodes[a]
    BY <2>2, OldEpisodes
  <2>3. CASE e \notin episodes[a]
    <3>1. open # Absent /\ e = cut
      BY <1>4, <1>5, <2>1, <2>3
    <3>. QED
      BY <1>2, <3>1, OldEpisodes DEF cut
  <2>. QED
    BY <2>2, <2>3
<1>10. \A e \in E : e.state # "active"
  <2>1. \A e \in E : e.state = "active" => IsOpen(e)
    BY DEF IsOpen
  <2>. QED
    BY <1>7, <1>8, <2>1
<1>11. EpisodesHold(st2, E, SeenNow(a, inputs), breaks[a], inputs.cutoff)
  BY <1>7, <1>8, <1>9 DEF EpisodesHold
<1>. QED
  BY <1>9, <1>10, <1>11 DEF E, st2

(* With a row: what was open is over or goes on, and only a match is active. *)
LEMMA SeenEpisodesHold ==
  ASSUME DiscoveryInv, NEW a \in Asset, NEW inputs, IsLater(inputs), inputs.rows[a] # Absent
  PROVE  /\ EpisodesAfter(a, inputs) \in SUBSET DiscoveryEpisode
         /\ EpisodeOf(a, inputs) \in EpisodeId \cup {Absent}
         /\ EpisodesHold(StateAfter(a, inputs), EpisodesAfter(a, inputs), SeenNow(a, inputs),
                         breaks[a], inputs.cutoff)
         /\ inputs.rows[a].state = "matched" <=>
              \E e \in EpisodesAfter(a, inputs) : e.state = "active"
         /\ \A e \in EpisodesAfter(a, inputs) : e.state = "active" =>
              e.last = inputs.cutoff /\ EpisodeOf(a, inputs) = Identifier(e)
<1> DEFINE row == inputs.rows[a]
           c == inputs.cutoff
           open == OpenEpisode(a)
           kept == Kept(a, row)
           new == Evaluated(a, inputs)
           shut == Ended(open, inputs.key)
           E == EpisodesAfter(a, inputs)
           st == states[a]
           st2 == StateAfter(a, inputs)
           obs == SeenNow(a, inputs)
<1>1. EpisodesHold(st, episodes[a], observed[a], breaks[a], Reached)
  BY DEF DiscoveryInv, AssetsHold, AssetHolds
<1>2. /\ open # Absent => open \in episodes[a] /\ IsOpen(open) /\ OpenIsRecalled(open, st, observed[a])
      /\ \A e \in episodes[a] : IsOpen(e) => e = open
  BY <1>1, OpenIsFound DEF DiscoveryInv
<1>3. row.state \in RowState /\ c \in Nat
  BY LaterIsNumbered DEF DiscoveryInv, Row
<1>4. kept # Absent => kept = open /\ SameIdentity(a, row)
  BY DEF Kept
<1>5. kept = Absent => (open = Absent \/ ~SameIdentity(a, row))
  BY DEF Kept
<1>6. E = (episodes[a] \ {open})
          \cup (((IF open # Absent /\ ~SameIdentity(a, row) THEN {shut} ELSE {}) \cup {new}) \ {Absent})
  BY DEF EpisodesAfter, Replacing
<1>7. \A p \in obs : p \in observed[a] \/ (p.cutoff = c /\ p.state = row.state)
  <2> DEFINE seen == [identity |-> row.identity, cutoff |-> c, version |-> inputs.version,
                      state |-> row.state]
  <2>1. seen.cutoff = c /\ seen.state = row.state
    OBVIOUS
  <2>2. obs = observed[a] \cup {seen}
    BY DEF SeenNow
  <2>. HIDE DEF seen, obs
  <2>. QED
    BY <2>1, <2>2
<1>8. open # Absent =>
        /\ shut \in DiscoveryEpisode /\ shut.state = "ended" /\ EpisodeIsTrue(shut, obs, breaks[a])
        /\ shut.first <= shut.last /\ shut.last <= c
  BY <1>2, OldEpisodes
<1>9. new # Absent =>
        /\ new \in DiscoveryEpisode /\ EpisodeIsTrue(new, obs, breaks[a])
        /\ new.first <= new.last /\ new.last <= c
        /\ row.state = "matched" => new.state = "active" /\ new.last = c
        /\ row.state = "not_matched" => new.state = "ended"
        /\ row.state = "unknown" =>
             new.state = "interrupted" /\ kept # Absent /\ new.last = open.last
  <2>1. CASE row.state = "matched" /\ kept = Absent
    <3>1. new = Opened(a, inputs)
      BY <1>3, <2>1, EvaluatedCases
    <3>. QED
      BY <1>3, <2>1, <3>1, OpenedIsTrue
  <2>2. CASE row.state = "matched" /\ kept # Absent
    <3> DEFINE on == (Confirmation(a, inputs) = "continuing")
    <3>1. new = Confirmed(open, inputs, on)
      BY <1>3, <1>4, <2>2, EvaluatedCases
    <3>2. on \in BOOLEAN /\ (on <=> Was(a, inputs, "matched"))
      BY <2>2, ConfirmationIsTyped
    <3>3. open \in episodes[a] /\ IsOpen(open)
      BY <1>2, <1>4, <2>2
    <3>. HIDE DEF on, open
    <3>. QED
      BY <1>3, <2>2, <3>1, <3>2, <3>3, ConfirmedIsTrue
  <2>3. CASE row.state = "not_matched" /\ kept # Absent
    <3>1. new = Ended(open, inputs.key) /\ open \in episodes[a]
      BY <1>2, <1>3, <1>4, <2>3, EvaluatedCases
    <3>. QED
      BY <2>3, <3>1, OldEpisodes
  <2>4. CASE row.state = "unknown" /\ kept # Absent
    <3>1. new = Interrupted(open) /\ open \in episodes[a]
      BY <1>2, <1>3, <1>4, <2>4, EvaluatedCases
    <3>. QED
      BY <2>4, <3>1, OldEpisodes
  <2>5. CASE row.state # "matched" /\ kept = Absent
    BY <1>3, <2>5, EvaluatedCases
  <2>. QED
    BY <1>3, <2>1, <2>2, <2>3, <2>4, <2>5 DEF RowState
<1>10. row.state = "matched" => new # Absent
  <2>1. CASE row.state = "matched" /\ kept = Absent
    <3>1. new = Opened(a, inputs) /\ Opened(a, inputs) \in DiscoveryEpisode
      BY <1>3, <2>1, EvaluatedCases, OpenedIsTrue
    <3>. QED
      BY <3>1, AbsentIsNone
  <2>2. CASE row.state = "matched" /\ kept # Absent
    <3> DEFINE on == (Confirmation(a, inputs) = "continuing")
    <3>1. new = Confirmed(open, inputs, on)
      BY <1>3, <1>4, <2>2, EvaluatedCases
    <3>2. on \in BOOLEAN /\ (on <=> Was(a, inputs, "matched"))
      BY <2>2, ConfirmationIsTyped
    <3>3. open \in episodes[a] /\ IsOpen(open)
      BY <1>2, <1>4, <2>2
    <3>. HIDE DEF on, open
    <3>4. new \in DiscoveryEpisode
      BY <1>3, <2>2, <3>1, <3>2, <3>3, ConfirmedIsTrue
    <3>. QED
      BY <3>4, AbsentIsNone
  <2>. QED
    BY <2>1, <2>2
<1>11. EpisodeOf(a, inputs) = IF new # Absent /\ new.state # "ended" THEN Identifier(new) ELSE Absent
  BY DEF EpisodeOf
<1>12. EpisodeOf(a, inputs) \in EpisodeId \cup {Absent}
  <2>1. new # Absent => Identifier(new) \in EpisodeId
    BY <1>9 DEF DiscoveryEpisode, Identifier, EpisodeId
  <2>. QED
    BY <1>11, <2>1
<1>13. st2.episode = EpisodeOf(a, inputs) /\ st2 # Absent
  <2>1. st2 = [identity |-> row.identity, version |-> inputs.version,
               state |-> row.state, cutoff |-> c, interrupted |-> row.state = "unknown",
               episode |-> EpisodeOf(a, inputs)]
    BY DEF StateAfter
  <2>2. row \in Row /\ inputs.version \in Nat
    BY LaterIsNumbered DEF DiscoveryInv
  <2>3. st2 \in DiscoveryState
    BY <1>3, <1>12, <2>1, <2>2 DEF DiscoveryState, Row
  <2>. QED
    BY <2>1, <2>3, AbsentIsNone
<1>. HIDE DEF new, shut, E, st2, obs, kept, open
<1>14. \A e \in E : (e \in episodes[a] /\ e # open) \/ (open # Absent /\ e = shut)
                    \/ (new # Absent /\ e = new)
  BY <1>6
<1>15. \A e \in E : IsOpen(e) => new # Absent /\ e = new /\ new.state # "ended"
  BY <1>2, <1>8, <1>14 DEF IsOpen
<1>16. new # Absent => new \in E
  BY <1>6
<1>17. \A e \in E : /\ e \in DiscoveryEpisode /\ EpisodeIsTrue(e, obs, breaks[a])
                    /\ e.first <= e.last /\ e.last <= c
  <2>1. \A e \in episodes[a] : /\ e \in DiscoveryEpisode /\ EpisodeIsTrue(e, obs, breaks[a])
                               /\ e.first <= e.last /\ e.last <= c
    BY OldEpisodes DEF obs
  <2>. QED
    BY <1>8, <1>9, <1>14, <2>1
<1>18. \A e \in E : IsOpen(e) => OpenIsRecalled(e, st2, obs)
  <2>1. SUFFICES ASSUME new # Absent, new.state # "ended" PROVE OpenIsRecalled(new, st2, obs)
    BY <1>15
  <2>2. st2.episode = Identifier(new)
    BY <1>13, <1>11, <2>1
  <2>3. CASE row.state = "matched"
    <3>1. \A p \in obs : p.cutoff <= new.last
      <4>1. \A p \in observed[a] : p.cutoff <= Reached /\ p.cutoff \in Nat /\ Reached \in Nat /\ Reached < c
        BY SeenIsLater, LaterIsNumbered DEF SeenRow, DiscoveryInv
      <4>. QED
        BY <1>3, <1>7, <1>9, <2>1, <2>3, <4>1
    <3>. QED
      BY <1>13, <2>2, <3>1 DEF OpenIsRecalled
  <2>4. CASE row.state = "unknown"
    <3>1. kept # Absent /\ new.last = open.last /\ open # Absent
      BY <1>4, <1>9, <2>1, <2>4
    <3>2. \A p \in observed[a] : p.state = "matched" => p.cutoff <= open.last
      BY <1>2, <3>1 DEF OpenIsRecalled
    <3>. QED
      BY <1>7, <1>13, <2>2, <2>4, <3>1, <3>2 DEF OpenIsRecalled
  <2>. QED
    BY <1>3, <1>9, <2>1, <2>3, <2>4 DEF RowState
<1>19. EpisodesHold(st2, E, obs, breaks[a], c)
  BY <1>15, <1>17, <1>18 DEF EpisodesHold
<1>20. \A e \in E : e.state = "active" => e = new /\ row.state = "matched" /\ new # Absent
  <2>1. \A e \in E : e.state = "active" => IsOpen(e)
    BY DEF IsOpen
  <2>. QED
    BY <1>3, <1>9, <1>15, <2>1 DEF RowState
<1>21. row.state = "matched" <=> \E e \in E : e.state = "active"
  BY <1>9, <1>10, <1>16, <1>20
<1>22. \A e \in E : e.state = "active" => e.last = c /\ EpisodeOf(a, inputs) = Identifier(e)
  BY <1>9, <1>11, <1>20
<1>23. E \in SUBSET DiscoveryEpisode
  BY <1>17
<1>. QED
  BY <1>19, <1>21, <1>22, <1>12, <1>23 DEF E, st2, obs

(* The state after a row recalls it; without a row it is broken. *)
LEMMA StateAfterHolds ==
  ASSUME DiscoveryInv, NEW a \in Asset, NEW inputs, IsLater(inputs)
  PROVE  /\ StateAfter(a, inputs) \in DiscoveryState \cup {Absent}
         /\ StateHolds(StateAfter(a, inputs), SeenNow(a, inputs), breaks[a], inputs.cutoff, FALSE)
         /\ inputs.rows[a] # Absent => StateAfter(a, inputs) # Absent
                                       /\ StateAfter(a, inputs).identity = inputs.rows[a].identity
<1> DEFINE row == inputs.rows[a]
           c == inputs.cutoff
           st == states[a]
           st2 == StateAfter(a, inputs)
           obs == SeenNow(a, inputs)
<1>1. /\ c \in Nat /\ Reached \in Nat /\ Reached < c /\ inputs.version \in Nat
      /\ row # Absent => row \in Row
  BY LaterIsNumbered DEF DiscoveryInv
<1>2. StateHolds(st, observed[a], breaks[a], Reached, publisher.restarted)
  BY DEF DiscoveryInv, AssetsHold, AssetHolds
<1>3. st # Absent => st \in DiscoveryState
  BY DEF DiscoveryInv, DiscoveryTyped
<1>4. CASE row = Absent /\ st = Absent
  <2>1. st2 = Absent /\ obs = observed[a]
    BY <1>4 DEF StateAfter, SeenNow
  <2>. QED
    BY <1>2, <1>4, <2>1 DEF StateHolds
<1>5. CASE row = Absent /\ st # Absent
  <2>1. st2 = Broken(st) /\ obs = observed[a]
    BY <1>5 DEF StateAfter, SeenNow
  <2>2. /\ Broken(st) \in DiscoveryState /\ Broken(st).interrupted
        /\ Broken(st).cutoff = st.cutoff /\ Broken(st).identity = st.identity
        /\ Broken(st).version = st.version
    BY <1>3, <1>5 DEF Broken, DiscoveryState, RowState
  <2>3. StateRecalls(st, observed[a], breaks[a], Reached, publisher.restarted)
    BY <1>2, <1>5 DEF StateHolds
  <2>4. st.cutoff \in Nat /\ st.cutoff < c /\ st.cutoff <= c /\ st.cutoff # c
    BY <1>1, <1>3, <1>5, <2>3 DEF StateRecalls, DiscoveryState
  <2>. HIDE DEF c, st, st2, obs
  <2>5. StateRecalls(st2, obs, breaks[a], c, FALSE)
    BY <2>1, <2>2, <2>3, <2>4 DEF StateRecalls
  <2>6. st2 # Absent
    BY <2>1, <2>2, AbsentIsNone
  <2>. QED
    BY <1>5, <2>1, <2>2, <2>5, <2>6 DEF StateHolds, c, st, st2, obs
<1>6. CASE row # Absent
  <2> DEFINE seen == [identity |-> row.identity, cutoff |-> c, version |-> inputs.version,
                      state |-> row.state]
  <2>1. st2 = [identity |-> row.identity, version |-> inputs.version,
               state |-> row.state, cutoff |-> c, interrupted |-> row.state = "unknown",
               episode |-> EpisodeOf(a, inputs)]
    BY <1>6 DEF StateAfter
  <2>2. EpisodeOf(a, inputs) \in EpisodeId \cup {Absent}
    BY <1>6, SeenEpisodesHold
  <2>3. st2 \in DiscoveryState /\ st2 # Absent
    <3>1. st2 \in DiscoveryState
      BY <1>1, <1>6, <2>1, <2>2 DEF DiscoveryState, Row
    <3>. QED
      BY <3>1, AbsentIsNone
  <2>4. /\ st2.cutoff = c /\ st2.identity = row.identity /\ st2.version = inputs.version
        /\ st2.state = row.state /\ st2.interrupted = (row.state = "unknown")
    <3>. HIDE DEF st2, row, c
    <3>. QED
      BY <2>1
  <2>5. /\ seen.cutoff = c /\ seen.identity = row.identity /\ seen.version = inputs.version
        /\ seen.state = row.state /\ seen \in obs
    BY <1>6 DEF SeenNow
  <2>6. \A p \in obs : p.cutoff <= c
    BY SeenIsLater DEF ObservedOnce
  <2>7. c \notin breaks[a]
    <3>1. ObservedOnce(observed[a], breaks[a], Reached, publisher.restarted)
      BY DEF DiscoveryInv, AssetsHold, AssetHolds
    <3>. QED
      BY <1>1, <3>1 DEF ObservedOnce
  <2>. HIDE DEF st2, obs, seen
  <2>8. StateRecalls(st2, obs, breaks[a], c, FALSE)
    BY <1>1, <2>4, <2>5, <2>6, <2>7 DEF StateRecalls
  <2>. QED
    BY <1>6, <2>3, <2>4, <2>8 DEF StateHolds, st2, obs
<1>. QED
  BY <1>4, <1>5, <1>6

(* Only ended episodes are forgotten. *)
LEMMA PrunedHold ==
  ASSUME NEW eps \in SUBSET DiscoveryEpisode, NEW key, NEW st, NEW obs, NEW brk, NEW at,
         EpisodesHold(st, eps, obs, brk, at)
  PROVE  /\ Pruned(eps, key) \in SUBSET DiscoveryEpisode
         /\ EpisodesHold(st, Pruned(eps, key), obs, brk, at)
         /\ \A e \in Pruned(eps, key) : e \in eps
         /\ \A e \in eps : e.state = "active" => e \in Pruned(eps, key)
<1>1. Pruned(eps, key) \in SUBSET eps
  BY DEF Pruned
<1>2. \A e \in eps : e.state = "active" => e \in Pruned(eps, key)
  BY DEF Pruned, IsOpen
<1>3. EpisodesHold(st, Pruned(eps, key), obs, brk, at)
  BY <1>1 DEF EpisodesHold
<1>. QED
  BY <1>1, <1>2, <1>3

ShownNow(a, inputs) ==
  IF inputs.rows[a] = Absent THEN Absent
  ELSE [identity |-> inputs.rows[a].identity,
        state |-> inputs.rows[a].state,
        confirmation |-> Confirmation(a, inputs),
        episode |-> EpisodeOf(a, inputs)]

(* An evaluation keeps what holds of an asset. *)
LEMMA EvaluationHolds ==
  ASSUME DiscoveryInv, NEW a \in Asset, NEW inputs, IsLater(inputs)
  PROVE  LET eps == Pruned(EpisodesAfter(a, inputs), inputs.key)
         IN /\ eps \in SUBSET DiscoveryEpisode
            /\ ShownNow(a, inputs) \in DiscoveryRow \cup {Absent}
            /\ AssetHolds(StateAfter(a, inputs), eps, SeenNow(a, inputs), breaks[a],
                          inputs.cutoff, FALSE)
            /\ ShownHolds(ShownNow(a, inputs), StateAfter(a, inputs), eps, inputs.cutoff)
<1> DEFINE row == inputs.rows[a]
           c == inputs.cutoff
           E == EpisodesAfter(a, inputs)
           eps == Pruned(E, inputs.key)
           st2 == StateAfter(a, inputs)
           obs == SeenNow(a, inputs)
           shown == ShownNow(a, inputs)
<1>1. E \in SUBSET DiscoveryEpisode /\ EpisodesHold(st2, E, obs, breaks[a], c)
  BY UnseenEpisodesHold, SeenEpisodesHold
<1>2. /\ eps \in SUBSET DiscoveryEpisode
      /\ EpisodesHold(st2, eps, obs, breaks[a], c)
      /\ \A e \in eps : e \in E
      /\ \A e \in E : e.state = "active" => e \in eps
  <2>. HIDE DEF E, st2, obs, c
  <2>. QED
    BY <1>1, PrunedHold
<1>3. /\ st2 \in DiscoveryState \cup {Absent} /\ StateHolds(st2, obs, breaks[a], c, FALSE)
      /\ row # Absent => st2 # Absent /\ st2.identity = row.identity
  BY StateAfterHolds
<1>4. ObservedOnce(obs, breaks[a], c, FALSE)
  BY SeenIsLater
<1>5. AssetHolds(st2, eps, obs, breaks[a], c, FALSE)
  BY <1>2, <1>3, <1>4 DEF AssetHolds
<1>6. CASE row = Absent
  <2>1. shown = Absent
    BY <1>6 DEF ShownNow
  <2>2. \A e \in E : e.state # "active"
    BY <1>6, UnseenEpisodesHold
  <2>. HIDE DEF E, eps, st2, obs, c, shown
  <2>3. ShownHolds(shown, st2, eps, c)
    BY <1>2, <2>1, <2>2 DEF ShownHolds
  <2>. QED
    BY <1>2, <1>5, <2>1, <2>3 DEF E, eps, st2, obs, c, shown
<1>7. CASE row # Absent
  <2>1. shown = [identity |-> row.identity, state |-> row.state,
                 confirmation |-> Confirmation(a, inputs), episode |-> EpisodeOf(a, inputs)]
    BY <1>7 DEF ShownNow
  <2>2. row \in Row
    BY <1>7, LaterIsNumbered DEF DiscoveryInv
  <2>3. /\ EpisodeOf(a, inputs) \in EpisodeId \cup {Absent}
        /\ row.state = "matched" <=> \E e \in E : e.state = "active"
        /\ \A e \in E : e.state = "active" => e.last = c /\ EpisodeOf(a, inputs) = Identifier(e)
    BY <1>7, SeenEpisodesHold
  <2>4. Confirmation(a, inputs) \in ConfirmationKind \cup {Absent}
    <3>1. CASE row.state = "matched"
      BY <3>1, ConfirmationIsTyped
    <3>2. CASE row.state # "matched"
      BY <3>2 DEF Confirmation
    <3>. QED
      BY <3>1, <3>2
  <2>5. row.state = "matched" => Confirmation(a, inputs) # Absent
    BY ConfirmationIsTyped, AbsentIsNone
  <2>6. shown \in DiscoveryRow
    BY <2>1, <2>2, <2>3, <2>4 DEF DiscoveryRow, Row
  <2>7. /\ shown # Absent /\ shown.identity = row.identity /\ shown.state = row.state
        /\ shown.confirmation = Confirmation(a, inputs) /\ shown.episode = EpisodeOf(a, inputs)
    BY <2>1, <2>6, AbsentIsNone
  <2>. HIDE DEF E, eps, st2, obs, c, shown
  <2>8. ShownHolds(shown, st2, eps, c)
    BY <1>2, <1>3, <1>7, <2>3, <2>5, <2>7 DEF ShownHolds
  <2>. QED
    BY <1>2, <1>5, <2>6, <2>8 DEF E, eps, st2, obs, c, shown
<1>. QED
  BY <1>6, <1>7

-----------------------------------------------------------------------------
(* Breaking the observation *)

BrokenState(a) == IF states[a] # Absent THEN Broken(states[a]) ELSE states[a]

BrokenEpisodes(a) ==
  IF OpenEpisode(a) # Absent THEN Replacing(a, {Interrupted(OpenEpisode(a))}) ELSE episodes[a]

(* A break is noted where it happened, and leaves nothing active. *)
LEMMA BreakHolds ==
  ASSUME DiscoveryInv, NEW a \in Asset, projection # Absent
  PROVE  /\ BrokenState(a) \in DiscoveryState \cup {Absent}
         /\ BrokenEpisodes(a) \in SUBSET DiscoveryEpisode
         /\ breaks[a] \cup {projection.cutoff} \in SUBSET Nat
         /\ AssetHolds(BrokenState(a), BrokenEpisodes(a), observed[a],
                       breaks[a] \cup {projection.cutoff}, Reached, publisher.restarted)
         /\ \A e \in BrokenEpisodes(a) : e.state # "active"
<1> DEFINE st == states[a]
           st2 == BrokenState(a)
           open == OpenEpisode(a)
           cut == Interrupted(open)
           E == BrokenEpisodes(a)
           brk == breaks[a] \cup {projection.cutoff}
           obs == observed[a]
<1>1. /\ Reached = projection.cutoff /\ Reached \in Nat /\ Reached # 0
  BY DEF Reached, DiscoveryInv, DiscoveryTyped, DiscoveryProjection
<1>2. /\ StateHolds(st, obs, breaks[a], Reached, publisher.restarted)
      /\ ObservedOnce(obs, breaks[a], Reached, publisher.restarted)
      /\ EpisodesHold(st, episodes[a], obs, breaks[a], Reached)
  BY DEF DiscoveryInv, AssetsHold, AssetHolds
<1>3. /\ obs \in SUBSET SeenRow /\ breaks[a] \in SUBSET Nat
      /\ st # Absent => st \in DiscoveryState
  BY DEF DiscoveryInv, DiscoveryTyped
<1>4. /\ open # Absent => open \in episodes[a] /\ IsOpen(open) /\ OpenIsRecalled(open, st, obs)
      /\ \A e \in episodes[a] : (IsOpen(e) => e = open) /\ e # Absent /\ e \in DiscoveryEpisode
  BY <1>2, OpenIsFound DEF DiscoveryInv
<1>5. brk \in SUBSET Nat /\ ObservedOnce(obs, brk, Reached, publisher.restarted)
  <2>1. brk \in SUBSET Nat
    BY <1>1, <1>3
  <2>. QED
    BY <1>1, <1>2, <2>1 DEF ObservedOnce
<1>6. st # Absent => /\ st2 \in DiscoveryState /\ st2 # Absent /\ st2.episode = st.episode
                     /\ StateRecalls(st2, obs, brk, Reached, publisher.restarted)
  <2>1. SUFFICES ASSUME st # Absent
                 PROVE  /\ st2 \in DiscoveryState /\ st2 # Absent /\ st2.episode = st.episode
                        /\ StateRecalls(st2, obs, brk, Reached, publisher.restarted)
    OBVIOUS
  <2>2. st2 = Broken(st)
    BY <2>1 DEF BrokenState
  <2>3. /\ Broken(st) \in DiscoveryState /\ Broken(st).interrupted
        /\ Broken(st).cutoff = st.cutoff /\ Broken(st).identity = st.identity
        /\ Broken(st).version = st.version /\ Broken(st).episode = st.episode
    BY <1>3, <2>1 DEF Broken, DiscoveryState, RowState
  <2>4. StateRecalls(st, obs, breaks[a], Reached, publisher.restarted)
    BY <1>2, <2>1 DEF StateHolds
  <2>5. st2 # Absent
    BY <2>2, <2>3, AbsentIsNone
  <2>6. Reached \in brk
    BY <1>1
  <2>. HIDE DEF st, st2, obs, brk
  <2>7. StateRecalls(st2, obs, brk, Reached, publisher.restarted)
    BY <2>2, <2>3, <2>4, <2>6 DEF StateRecalls
  <2>. QED
    BY <2>2, <2>3, <2>5, <2>7
<1>7. st = Absent => st2 = Absent /\ obs = {}
  BY <1>2 DEF BrokenState, StateHolds
<1>8. StateHolds(st2, obs, brk, Reached, publisher.restarted) /\ st2 \in DiscoveryState \cup {Absent}
  BY <1>6, <1>7 DEF StateHolds
<1>9. \A e \in episodes[a] : EpisodeIsTrue(e, obs, brk) /\ e.first <= e.last /\ e.last <= Reached
  <2>1. SUFFICES ASSUME NEW e \in episodes[a]
                 PROVE  EpisodeIsTrue(e, obs, brk) /\ e.first <= e.last /\ e.last <= Reached
    OBVIOUS
  <2>2. EpisodeIsTrue(e, obs, breaks[a]) /\ e.first <= e.last /\ e.last <= Reached
        /\ e \in DiscoveryEpisode
    BY <1>2, <1>4 DEF EpisodesHold
  <2>3. breaks[a] \subseteq brk /\ \A c \in brk \ breaks[a] : c >= Reached
    BY <1>1
  <2>4. obs \subseteq obs /\ \A q \in obs \ obs : q.cutoff > Reached
    OBVIOUS
  <2>. HIDE DEF obs, brk
  <2>. QED
    BY <1>1, <1>3, <1>5, <2>2, <2>3, <2>4, EpisodeStaysTrue
<1>10. open # Absent =>
         /\ cut \in DiscoveryEpisode /\ cut.state = "interrupted" /\ EpisodeIsTrue(cut, obs, brk)
         /\ cut.first <= cut.last /\ cut.last <= Reached /\ OpenIsRecalled(cut, st2, obs)
  <2>1. SUFFICES ASSUME open # Absent
                 PROVE  /\ cut \in DiscoveryEpisode /\ cut.state = "interrupted"
                        /\ EpisodeIsTrue(cut, obs, brk) /\ cut.first <= cut.last
                        /\ cut.last <= Reached /\ OpenIsRecalled(cut, st2, obs)
    OBVIOUS
  <2>2. /\ open \in DiscoveryEpisode /\ EpisodeIsTrue(open, obs, brk)
        /\ open.first <= open.last /\ open.last <= Reached /\ OpenIsRecalled(open, st, obs)
    BY <1>4, <1>9, <2>1
  <2>. HIDE DEF open, obs, brk, st, st2
  <2>3. /\ cut \in DiscoveryEpisode /\ cut.state = "interrupted" /\ cut.identity = open.identity
        /\ cut.first = open.first /\ cut.last = open.last /\ cut.kind = open.kind
        /\ cut.duration = open.duration
    BY <2>2 DEF Interrupted, DiscoveryEpisode
  <2>. HIDE DEF cut
  <2>4. EpisodeIsTrue(cut, obs, brk) /\ Identifier(cut) = Identifier(open)
    BY <2>2, <2>3 DEF EpisodeIsTrue, Identifier
  <2>5. OpenIsRecalled(cut, st2, obs)
    BY <1>6, <2>2, <2>3, <2>4 DEF OpenIsRecalled
  <2>. QED
    BY <2>2, <2>3, <2>4, <2>5
<1>11. /\ open = Absent => E = episodes[a]
       /\ open # Absent => E \in SUBSET ((episodes[a] \ {open}) \cup {cut})
  BY DEF BrokenEpisodes, Replacing
<1>. HIDE DEF st, st2, open, cut, E, brk, obs
<1>12. \A e \in E : (e \in episodes[a] /\ ~IsOpen(e)) \/ (open # Absent /\ e = cut)
  BY <1>4, <1>11
<1>13. EpisodesHold(st2, E, obs, brk, Reached)
  BY <1>9, <1>10, <1>12 DEF EpisodesHold
<1>14. \A e \in E : e.state # "active" /\ e \in DiscoveryEpisode
  BY <1>4, <1>10, <1>12 DEF IsOpen
<1>15. AssetHolds(st2, E, obs, brk, Reached, publisher.restarted)
  BY <1>5, <1>8, <1>13 DEF AssetHolds
<1>. QED
  BY <1>5, <1>8, <1>14, <1>15 DEF st2, E, obs, brk

-----------------------------------------------------------------------------
(* The steps *)

LEMMA DiscoveryStarts ==
  ASSUME DiscoveryInit
  PROVE  DiscoveryInv
<1>1. DiscoveryTyped
  BY DEF DiscoveryInit, DiscoveryTyped, Starting
<1>2. ASSUME NEW a \in Asset
      PROVE  AssetHolds(states[a], episodes[a], observed[a], breaks[a], Reached, publisher.restarted)
  BY DEF DiscoveryInit, AssetHolds, StateHolds, ObservedOnce, EpisodesHold, Reached, Starting
<1>. QED
  BY <1>1, <1>2 DEF DiscoveryInit, DiscoveryInv, AssetsHold

(* The tables are left alone. *)
LEMMA TablesAside ==
  ASSUME AssetsHold, UNCHANGED <<states, episodes, projection, observed, breaks>>,
         publisher'.restarted = publisher.restarted
  PROVE  AssetsHold'
<1>1. Reached' = Reached
  BY DEF Reached
<1>. QED
  BY <1>1 DEF AssetsHold

(* A new cutoff is evaluated. *)
LEMMA EvaluateSteps ==
  ASSUME DiscoveryInv, NEW inputs, IsLater(inputs), EvaluateNew(inputs), ~publisher'.restarted
  PROVE  /\ AssetsHold'
         /\ states' \in [Asset -> DiscoveryState \cup {Absent}]
         /\ episodes' \in [Asset -> SUBSET DiscoveryEpisode]
         /\ projection' \in DiscoveryProjection
         /\ observed' \in [Asset -> SUBSET SeenRow]
         /\ breaks' = breaks
<1> DEFINE eps(a) == Pruned(EpisodesAfter(a, inputs), inputs.key)
<1>1. /\ episodes' = [a \in Asset |-> eps(a)]
      /\ states' = [a \in Asset |-> StateAfter(a, inputs)]
      /\ projection' = [cutoff |-> inputs.cutoff, rows |-> [a \in Asset |-> ShownNow(a, inputs)]]
      /\ observed' = [a \in Asset |-> SeenNow(a, inputs)]
      /\ breaks' = breaks
  BY DEF EvaluateNew, ShownNow, SeenNow
<1>2. \A a \in Asset :
        /\ eps(a) \in SUBSET DiscoveryEpisode
        /\ ShownNow(a, inputs) \in DiscoveryRow \cup {Absent}
        /\ AssetHolds(StateAfter(a, inputs), eps(a), SeenNow(a, inputs), breaks[a], inputs.cutoff, FALSE)
        /\ ShownHolds(ShownNow(a, inputs), StateAfter(a, inputs), eps(a), inputs.cutoff)
  BY EvaluationHolds
<1>3. \A a \in Asset : /\ StateAfter(a, inputs) \in DiscoveryState \cup {Absent}
                       /\ SeenNow(a, inputs) \in SUBSET SeenRow
  BY StateAfterHolds, SeenIsLater
<1>. HIDE DEF eps
<1>4. inputs.cutoff \in Nat \ {0}
  BY LaterIsNumbered DEF DiscoveryInv
<1>5. /\ projection' \in DiscoveryProjection /\ projection'.cutoff = inputs.cutoff
      /\ \A a \in Asset : projection'.rows[a] = ShownNow(a, inputs)
  BY <1>1, <1>2, <1>4 DEF DiscoveryProjection
<1>6. projection' # Absent /\ Reached' = inputs.cutoff
  <2>1. projection' # Absent
    BY <1>5, AbsentIsNone DEF DiscoveryProjection
  <2>. QED
    BY <1>5, <2>1 DEF Reached
<1>7. ASSUME NEW a \in Asset
      PROVE  /\ AssetHolds(states'[a], episodes'[a], observed'[a], breaks'[a], Reached',
                           publisher'.restarted)
             /\ ShownHolds(projection'.rows[a], states'[a], episodes'[a], projection'.cutoff)
  <2>1. /\ episodes'[a] = eps(a) /\ states'[a] = StateAfter(a, inputs)
        /\ observed'[a] = SeenNow(a, inputs) /\ breaks'[a] = breaks[a]
    BY <1>1
  <2>2. AssetHolds(states'[a], episodes'[a], observed'[a], breaks'[a], Reached', FALSE)
    BY <1>2, <1>6, <2>1
  <2>3. AssetHolds(states'[a], episodes'[a], observed'[a], breaks'[a], Reached', publisher'.restarted)
    BY <2>2 DEF AssetHolds, StateHolds, StateRecalls, ObservedOnce
  <2>. QED
    BY <1>2, <1>5, <2>1, <2>3
<1>8. AssetsHold'
  BY <1>7 DEF AssetsHold
<1>. QED
  BY <1>1, <1>2, <1>3, <1>5, <1>8

(* The observation of some assets is broken, and those are shown without a match. *)
LEMMA BreakSteps ==
  ASSUME DiscoveryInv, projection # Absent, NEW which \in SUBSET Asset, Break(which),
         NEW table \in [Asset -> DiscoveryRow \cup {Absent}],
         projection' = [projection EXCEPT !.rows = table], observed' = observed,
         publisher'.restarted = publisher.restarted,
         \A a \in which : table[a] # Absent => table[a].state # "matched",
         \A a \in Asset \ which : ShownHolds(table[a], states[a], episodes[a], projection.cutoff)
  PROVE  /\ AssetsHold'
         /\ states' \in [Asset -> DiscoveryState \cup {Absent}]
         /\ episodes' \in [Asset -> SUBSET DiscoveryEpisode]
         /\ projection' \in DiscoveryProjection
         /\ breaks' \in [Asset -> SUBSET Nat]
<1>1. /\ states' = [a \in Asset |-> IF a \in which THEN BrokenState(a) ELSE states[a]]
      /\ episodes' = [a \in Asset |-> IF a \in which THEN BrokenEpisodes(a) ELSE episodes[a]]
      /\ breaks' = [a \in Asset |->
           IF a \in which THEN breaks[a] \cup {projection.cutoff} ELSE breaks[a]]
  BY DEF Break, BrokenState, BrokenEpisodes
<1>2. \A a \in which :
        /\ BrokenState(a) \in DiscoveryState \cup {Absent}
        /\ BrokenEpisodes(a) \in SUBSET DiscoveryEpisode
        /\ breaks[a] \cup {projection.cutoff} \in SUBSET Nat
        /\ AssetHolds(BrokenState(a), BrokenEpisodes(a), observed[a],
                      breaks[a] \cup {projection.cutoff}, Reached, publisher.restarted)
        /\ \A e \in BrokenEpisodes(a) : e.state # "active"
  BY BreakHolds
<1>3. /\ projection \in DiscoveryProjection
      /\ states \in [Asset -> DiscoveryState \cup {Absent}]
      /\ episodes \in [Asset -> SUBSET DiscoveryEpisode]
      /\ breaks \in [Asset -> SUBSET Nat]
  BY DEF DiscoveryInv, DiscoveryTyped
<1>4. /\ projection' \in DiscoveryProjection /\ projection'.cutoff = projection.cutoff
      /\ projection'.rows = table
  BY <1>3 DEF DiscoveryProjection
<1>5. projection' # Absent /\ Reached' = Reached
  <2>1. projection' # Absent
    BY <1>4, AbsentIsNone DEF DiscoveryProjection
  <2>. QED
    BY <1>4, <2>1 DEF Reached
<1>6. ASSUME NEW a \in Asset
      PROVE  /\ AssetHolds(states'[a], episodes'[a], observed'[a], breaks'[a], Reached',
                           publisher'.restarted)
             /\ ShownHolds(projection'.rows[a], states'[a], episodes'[a], projection'.cutoff)
  <2>1. CASE a \in which
    <3>1. /\ states'[a] = BrokenState(a) /\ episodes'[a] = BrokenEpisodes(a)
          /\ breaks'[a] = breaks[a] \cup {projection.cutoff}
      BY <1>1, <2>1
    <3>2. ShownHolds(table[a], states'[a], episodes'[a], projection.cutoff)
      BY <1>2, <2>1, <3>1 DEF ShownHolds
    <3>. QED
      BY <1>2, <1>4, <1>5, <2>1, <3>1, <3>2
  <2>2. CASE a \notin which
    <3>1. states'[a] = states[a] /\ episodes'[a] = episodes[a] /\ breaks'[a] = breaks[a]
      BY <1>1, <2>2
    <3>. QED
      BY <1>4, <1>5, <2>2, <3>1 DEF DiscoveryInv, AssetsHold
  <2>. QED
    BY <2>1, <2>2
<1>7. AssetsHold'
  BY <1>6 DEF AssetsHold
<1>8. /\ states' \in [Asset -> DiscoveryState \cup {Absent}]
      /\ episodes' \in [Asset -> SUBSET DiscoveryEpisode]
      /\ breaks' \in [Asset -> SUBSET Nat]
  BY <1>1, <1>2, <1>3
<1>. QED
  BY <1>4, <1>7, <1>8

(* A failure makes everything shown unknown. *)
LEMMA InterruptSteps ==
  ASSUME DiscoveryInv, Interrupt, observed' = observed, publisher'.restarted = publisher.restarted
  PROVE  /\ AssetsHold'
         /\ states' \in [Asset -> DiscoveryState \cup {Absent}]
         /\ episodes' \in [Asset -> SUBSET DiscoveryEpisode]
         /\ projection' \in DiscoveryProjection \cup {Absent}
         /\ breaks' \in [Asset -> SUBSET Nat]
<1>1. CASE projection = Absent
  <2>1. UNCHANGED <<states, episodes, projection, observed, breaks>>
    BY <1>1 DEF Interrupt
  <2>2. AssetsHold'
    BY <2>1, TablesAside DEF DiscoveryInv
  <2>. QED
    BY <2>1, <2>2 DEF DiscoveryInv, DiscoveryTyped
<1>2. CASE projection # Absent
  <2> DEFINE table == [a \in Asset |->
               IF projection.rows[a] = Absent THEN Absent
               ELSE [projection.rows[a] EXCEPT !.state = "unknown", !.confirmation = Absent]]
  <2>1. Break(Asset) /\ projection' = [projection EXCEPT !.rows = table]
    BY <1>2 DEF Interrupt
  <2>2. projection.rows \in [Asset -> DiscoveryRow \cup {Absent}]
    BY <1>2 DEF DiscoveryInv, DiscoveryTyped, DiscoveryProjection
  <2>3. /\ table \in [Asset -> DiscoveryRow \cup {Absent}]
        /\ \A a \in Asset : table[a] # Absent => table[a].state # "matched"
    BY <2>2 DEF DiscoveryRow, RowState
  <2>. HIDE DEF table
  <2>4. Asset \in SUBSET Asset /\ Asset \ Asset = {}
    OBVIOUS
  <2>. QED
    BY <1>2, <2>1, <2>3, <2>4, BreakSteps
<1>. QED
  BY <1>1, <1>2

(* The same cutoff again: what cannot be confirmed is shown unknown. *)
ShownAgain(a, inputs) ==
  IF inputs.rows[a] = Absent THEN Absent ELSE Refreshed(a, inputs.rows[a])

LEMMA RefreshedCases ==
  ASSUME DiscoveryInv, projection # Absent, NEW a \in Asset, NEW row \in Row
  PROVE  LET previous == projection.rows[a]
             same == previous # Absent /\ previous.identity = row.identity
             again == Refreshed(a, row)
         IN /\ again \in DiscoveryRow /\ again # Absent /\ again.identity = row.identity
            /\ again.state = "matched" => same /\ ~RowUnavailable(row) /\ previous.state = "matched"
            /\ same /\ ~RowUnavailable(row) /\ previous.state = "matched" =>
                 /\ again.state = "matched" /\ again.confirmation = previous.confirmation
                 /\ again.episode = previous.episode
<1> DEFINE previous == projection.rows[a]
           same == previous # Absent /\ previous.identity = row.identity
           state == IF same /\ ~RowUnavailable(row) THEN previous.state ELSE "unknown"
           confirmation == IF state # "unknown" THEN previous.confirmation ELSE Absent
           episode == IF same THEN previous.episode
                      ELSE IF SameIdentity(a, row) THEN states[a].episode ELSE Absent
           again == Refreshed(a, row)
<1>1. previous # Absent => previous \in DiscoveryRow
  BY DEF DiscoveryInv, DiscoveryTyped, DiscoveryProjection
<1>2. SameIdentity(a, row) => states[a] \in DiscoveryState
  BY DEF DiscoveryInv, DiscoveryTyped, SameIdentity
<1>3. state \in RowState
  BY <1>1 DEF DiscoveryRow, RowState
<1>4. confirmation \in ConfirmationKind \cup {Absent}
  BY <1>1 DEF DiscoveryRow
<1>5. episode \in EpisodeId \cup {Absent}
  BY <1>1, <1>2 DEF DiscoveryRow, DiscoveryState
<1>6. again = [identity |-> row.identity, state |-> state, confirmation |-> confirmation,
               episode |-> episode]
  BY DEF Refreshed
<1>7. row.identity \in Identity
  BY DEF Row
<1>8. again \in DiscoveryRow
  <2>. HIDE DEF again, state, confirmation, episode
  <2>. QED
    BY <1>3, <1>4, <1>5, <1>6, <1>7 DEF DiscoveryRow
<1>9. again # Absent
  BY <1>8, AbsentIsNone
<1>10. /\ again.identity = row.identity /\ again.state = state /\ again.confirmation = confirmation
       /\ again.episode = episode
  BY <1>6
<1>. HIDE DEF again
<1>11. again.state = "matched" => same /\ ~RowUnavailable(row) /\ previous.state = "matched"
  BY <1>10
<1>12. same /\ ~RowUnavailable(row) /\ previous.state = "matched" =>
         /\ again.state = "matched" /\ again.confirmation = previous.confirmation
         /\ again.episode = previous.episode
  BY <1>10
<1>. QED
  BY <1>8, <1>9, <1>10, <1>11, <1>12 DEF again

LEMMA RefreshSteps ==
  ASSUME DiscoveryInv, projection # Absent, NEW inputs \in Generation, Refresh(inputs),
         publisher'.restarted = publisher.restarted
  PROVE  /\ AssetsHold'
         /\ states' \in [Asset -> DiscoveryState \cup {Absent}]
         /\ episodes' \in [Asset -> SUBSET DiscoveryEpisode]
         /\ projection' \in DiscoveryProjection
         /\ breaks' \in [Asset -> SUBSET Nat]
         /\ observed' = observed
<1> DEFINE which == Interruptions(inputs)
           table == [a \in Asset |-> ShownAgain(a, inputs)]
<1>1. /\ Break(which) /\ projection' = [projection EXCEPT !.rows = table] /\ observed' = observed
  BY DEF Refresh, ShownAgain
<1>2. \A a \in Asset : inputs.rows[a] # Absent => inputs.rows[a] \in Row
  BY DEF Generation
<1>3. table \in [Asset -> DiscoveryRow \cup {Absent}]
  BY <1>2, RefreshedCases DEF ShownAgain
<1>4. \A a \in Asset : ShownHolds(projection.rows[a], states[a], episodes[a], projection.cutoff)
  BY DEF DiscoveryInv, AssetsHold
<1>5. ASSUME NEW a \in which, table[a] # Absent
      PROVE  table[a].state # "matched"
  <2>1. a \in Asset /\ inputs.rows[a] # Absent /\ table[a] = Refreshed(a, inputs.rows[a])
    BY <1>5 DEF Interruptions, ShownAgain
  <2>2. RowUnavailable(inputs.rows[a]) \/ ~SameIdentity(a, inputs.rows[a])
    BY <1>5, <2>1 DEF Interruptions
  <2>3. SUFFICES ASSUME table[a].state = "matched" PROVE FALSE
    OBVIOUS
  <2>4. /\ projection.rows[a] # Absent /\ projection.rows[a].identity = inputs.rows[a].identity
        /\ ~RowUnavailable(inputs.rows[a]) /\ projection.rows[a].state = "matched"
    BY <1>2, <2>1, <2>3, RefreshedCases
  <2>5. states[a] # Absent /\ projection.rows[a].identity = states[a].identity
    BY <1>4, <2>1, <2>4 DEF ShownHolds
  <2>. QED
    BY <2>2, <2>4, <2>5 DEF SameIdentity
<1>6. ASSUME NEW a \in Asset \ which
      PROVE  ShownHolds(table[a], states[a], episodes[a], projection.cutoff)
  <2> DEFINE row == inputs.rows[a]
             was == projection.rows[a]
             again == table[a]
  <2>1. again = IF row = Absent THEN Absent ELSE Refreshed(a, row)
    BY DEF ShownAgain
  <2>2. ShownHolds(was, states[a], episodes[a], projection.cutoff)
    BY <1>4
  <2>3. again # Absent /\ again.state = "matched" =>
          /\ row # Absent /\ was # Absent /\ was.identity = row.identity
          /\ ~RowUnavailable(row) /\ was.state = "matched"
    BY <1>2, <2>1, RefreshedCases
  <2>4. CASE states[a] = Absent
    <3>1. \A e \in episodes[a] : ~IsOpen(e)
      BY <2>4 DEF DiscoveryInv, AssetsHold, AssetHolds, EpisodesHold, OpenIsRecalled
    <3>2. \A e \in episodes[a] : e.state # "active"
      BY <3>1 DEF IsOpen
    <3>3. ~(again # Absent /\ again.state = "matched")
      BY <2>2, <2>3, <2>4 DEF ShownHolds
    <3>. HIDE DEF again, row, was
    <3>. QED
      BY <3>2, <3>3 DEF ShownHolds, again
  <2>5. CASE states[a] # Absent
    <3>1. row # Absent /\ ~RowUnavailable(row) /\ SameIdentity(a, row)
      BY <2>5 DEF Interruptions
    <3>2. was # Absent /\ was.state = "matched" =>
            /\ was.identity = row.identity /\ states[a] # Absent /\ again # Absent
            /\ again.identity = states[a].identity
            /\ again.state = "matched" /\ again.confirmation = was.confirmation
            /\ again.episode = was.episode /\ was.confirmation # Absent
      <4>1. SUFFICES ASSUME was # Absent, was.state = "matched"
                     PROVE  /\ was.identity = row.identity /\ states[a] # Absent /\ again # Absent
                            /\ again.identity = states[a].identity
                            /\ again.state = "matched" /\ again.confirmation = was.confirmation
                            /\ again.episode = was.episode /\ was.confirmation # Absent
        OBVIOUS
      <4>2. was.identity = row.identity /\ was.confirmation # Absent /\ states[a].identity = row.identity
        BY <2>2, <3>1, <4>1 DEF ShownHolds, SameIdentity
      <4>3. again = Refreshed(a, row) /\ row \in Row
        BY <1>2, <2>1, <3>1
      <4>. HIDE DEF again, row
      <4>. QED
        BY <2>5, <3>1, <4>1, <4>2, <4>3, RefreshedCases
    <3>3. (again # Absent /\ again.state = "matched") <=> (was # Absent /\ was.state = "matched")
      BY <2>3, <3>2
    <3>4. \A e \in episodes[a] : e.state = "active" => was # Absent /\ was.state = "matched"
      BY <2>2 DEF ShownHolds
    <3>. HIDE DEF again, row, was
    <3>5. ShownHolds(again, states[a], episodes[a], projection.cutoff)
      BY <2>2, <3>2, <3>3, <3>4 DEF ShownHolds
    <3>. QED
      BY <3>5 DEF again
  <2>. QED
    BY <2>4, <2>5
<1>7. which \in SUBSET Asset
  BY DEF Interruptions
<1>. HIDE DEF which, table
<1>. QED
  BY <1>1, <1>3, <1>5, <1>6, <1>7, BreakSteps

(* What is offered is new, and what is prepared was offered. *)
LEMMA OfferSteps ==
  ASSUME DiscoveryInv, Offer
  PROVE  DiscoveryInv'
<1>1. UNCHANGED <<publisher, tables, troubles>> /\ offer' \in Generation
  BY DEF Offer
<1>2. AssetsHold'
  BY <1>1, TablesAside DEF DiscoveryInv, tables
<1>3. DiscoveryTyped'
  BY <1>1 DEF DiscoveryInv, DiscoveryTyped, tables
<1>. QED
  BY <1>2, <1>3 DEF DiscoveryInv

LEMMA ReadNextSteps ==
  ASSUME DiscoveryInv, ReadNext
  PROVE  DiscoveryInv'
<1>1. /\ UNCHANGED <<offer, tables>> /\ offer \in Generation
      /\ publisher' = [publisher EXCEPT !.doing = "saving", !.pending = offer]
  BY DEF ReadNext, DiscoveryInv, DiscoveryTyped
<1>2. publisher \in [doing : {"idle", "saving", "evaluating"}, current : Nat,
                     pending : Generation \cup {Absent}, restarted : BOOLEAN]
  BY DEF DiscoveryInv, DiscoveryTyped
<1>3. /\ publisher' \in [doing : {"idle", "saving", "evaluating"}, current : Nat,
                          pending : Generation \cup {Absent}, restarted : BOOLEAN]
      /\ publisher'.restarted = publisher.restarted /\ publisher'.pending = offer
  BY <1>1, <1>2
<1>4. AssetsHold'
  BY <1>1, <1>3, TablesAside DEF DiscoveryInv, tables
<1>5. DiscoveryTyped'
  BY <1>1, <1>3, AbsentIsNone DEF DiscoveryInv, DiscoveryTyped, tables
<1>. QED
  BY <1>4, <1>5 DEF DiscoveryInv

LEMMA SaveGenerationSteps ==
  ASSUME DiscoveryInv, SaveGeneration
  PROVE  DiscoveryInv'
<1>1. /\ UNCHANGED <<offer, states, episodes, projection, observed, breaks>>
      /\ publisher.doing = "saving" /\ saved' = publisher.pending.key
      /\ publisher' = [publisher EXCEPT !.doing = "evaluating"]
  BY DEF SaveGeneration
<1>2. /\ publisher \in [doing : {"idle", "saving", "evaluating"}, current : Nat,
                        pending : Generation \cup {Absent}, restarted : BOOLEAN]
      /\ publisher.pending \in Generation
  BY <1>1 DEF DiscoveryInv, DiscoveryTyped
<1>3. /\ publisher' \in [doing : {"idle", "saving", "evaluating"}, current : Nat,
                          pending : Generation \cup {Absent}, restarted : BOOLEAN]
      /\ publisher'.restarted = publisher.restarted /\ publisher'.pending = publisher.pending
  BY <1>1, <1>2
<1>4. saved' \in Nat
  BY <1>1, <1>2, DiscoveryAssumption DEF Generation
<1>5. AssetsHold'
  BY <1>1, <1>3, TablesAside DEF DiscoveryInv
<1>6. DiscoveryTyped'
  BY <1>1, <1>2, <1>3, <1>4, AbsentIsNone DEF DiscoveryInv, DiscoveryTyped
<1>. QED
  BY <1>5, <1>6 DEF DiscoveryInv

(* A failure, written down or not. *)
LEMMA FailedSteps ==
  ASSUME DiscoveryInv, Failed, saved' \in Nat
  PROVE  DiscoveryInv'
<1>1. /\ offer' = offer /\ observed' = observed
      /\ publisher' = [publisher EXCEPT !.doing = "idle"]
      /\ Interrupt \/ UNCHANGED <<states, episodes, projection, breaks>>
  BY DEF Failed
<1>2. /\ publisher'.restarted = publisher.restarted /\ publisher'.doing = "idle"
      /\ publisher' \in [doing : {"idle", "saving", "evaluating"}, current : Nat,
                          pending : Generation \cup {Absent}, restarted : BOOLEAN]
  BY <1>1 DEF DiscoveryInv, DiscoveryTyped
<1>3. observed' \in [Asset -> SUBSET SeenRow] /\ offer' \in Generation \cup {Absent}
  BY <1>1 DEF DiscoveryInv, DiscoveryTyped
<1>4. CASE Interrupt
  <2>1. /\ AssetsHold'
        /\ states' \in [Asset -> DiscoveryState \cup {Absent}]
        /\ episodes' \in [Asset -> SUBSET DiscoveryEpisode]
        /\ projection' \in DiscoveryProjection \cup {Absent}
        /\ breaks' \in [Asset -> SUBSET Nat]
    BY <1>1, <1>2, <1>4, InterruptSteps
  <2>. QED
    BY <1>2, <1>3, <2>1 DEF DiscoveryInv, DiscoveryTyped
<1>5. CASE UNCHANGED <<states, episodes, projection, breaks>>
  <2>1. AssetsHold'
    BY <1>1, <1>2, <1>5, TablesAside DEF DiscoveryInv
  <2>. QED
    BY <1>2, <1>3, <1>5, <2>1 DEF DiscoveryInv, DiscoveryTyped
<1>. QED
  BY <1>1, <1>4, <1>5

LEMMA FailureSteps ==
  ASSUME DiscoveryInv, ReadFails \/ SaveGenerationFails \/ SaveDiscoveryFails
  PROVE  DiscoveryInv'
<1>1. saved \in Nat
  BY DEF DiscoveryInv, DiscoveryTyped
<1>2. CASE ReadFails
  BY <1>1, <1>2, FailedSteps DEF ReadFails
<1>3. CASE SaveGenerationFails
  <2>1. publisher.pending \in Generation
    BY <1>3 DEF SaveGenerationFails, DiscoveryInv, DiscoveryTyped
  <2>2. publisher.pending.key \in Nat
    BY <2>1, DiscoveryAssumption DEF Generation
  <2>. QED
    BY <1>1, <1>3, <2>2, FailedSteps DEF SaveGenerationFails
<1>4. CASE SaveDiscoveryFails
  BY <1>1, <1>4, FailedSteps DEF SaveDiscoveryFails
<1>. QED
  BY <1>2, <1>3, <1>4

LEMMA ReadSameSteps ==
  ASSUME DiscoveryInv, ReadSame
  PROVE  DiscoveryInv'
<1>1. Interrupt /\ UNCHANGED <<offer, publisher, saved, observed>>
  BY DEF ReadSame
<1>2. /\ AssetsHold'
      /\ states' \in [Asset -> DiscoveryState \cup {Absent}]
      /\ episodes' \in [Asset -> SUBSET DiscoveryEpisode]
      /\ projection' \in DiscoveryProjection \cup {Absent}
      /\ breaks' \in [Asset -> SUBSET Nat]
  BY <1>1, InterruptSteps
<1>. QED
  BY <1>1, <1>2 DEF DiscoveryInv, DiscoveryTyped

(* A generation is new, or of the cutoff shown, or older than it. *)
LEMMA SaveDiscoverySteps ==
  ASSUME DiscoveryInv, SaveDiscovery
  PROVE  DiscoveryInv'
<1> DEFINE inputs == publisher.pending
           evaluated == IsNewCutoff(inputs) /\ ~IsOlder(inputs)
<1>1. /\ publisher.doing = "evaluating" /\ UNCHANGED <<offer, saved>>
      /\ publisher' = [publisher EXCEPT !.doing = "idle", !.pending = Absent,
                          !.current = inputs.key, !.restarted = publisher.restarted /\ ~evaluated]
  BY DEF SaveDiscovery, Published
<1>2. /\ publisher \in [doing : {"idle", "saving", "evaluating"}, current : Nat,
                        pending : Generation \cup {Absent}, restarted : BOOLEAN]
      /\ inputs \in Generation
  BY <1>1 DEF DiscoveryInv, DiscoveryTyped
<1>3. inputs.key \in Nat /\ inputs.cutoff \in Nat /\ inputs.cutoff # 0
  BY <1>2, DiscoveryAssumption DEF Generation
<1>4. /\ publisher'.restarted = (publisher.restarted /\ ~evaluated) /\ publisher'.doing = "idle"
      /\ publisher' \in [doing : {"idle", "saving", "evaluating"}, current : Nat,
                          pending : Generation \cup {Absent}, restarted : BOOLEAN]
  <2>. HIDE DEF inputs, evaluated
  <2>1. (publisher.restarted /\ ~evaluated) \in BOOLEAN
    OBVIOUS
  <2>. QED
    BY <1>1, <1>2, <1>3, <2>1
<1>5. /\ offer' \in Generation \cup {Absent} /\ saved' \in Nat
      /\ publisher'.doing # "idle" => publisher'.pending # Absent
  BY <1>1, <1>4 DEF DiscoveryInv, DiscoveryTyped
<1>6. projection # Absent => projection.cutoff \in Nat
  BY DEF DiscoveryInv, DiscoveryTyped, DiscoveryProjection
<1>7. CASE evaluated
  <2>1. EvaluateNew(inputs)
    BY <1>7 DEF SaveDiscovery
  <2>2. IsLater(inputs)
    BY <1>2, <1>3, <1>6, <1>7 DEF IsLater, Reached, IsNewCutoff, IsOlder
  <2>3. ~publisher'.restarted
    BY <1>4, <1>7
  <2>. HIDE DEF inputs, evaluated
  <2>4. /\ AssetsHold'
        /\ states' \in [Asset -> DiscoveryState \cup {Absent}]
        /\ episodes' \in [Asset -> SUBSET DiscoveryEpisode]
        /\ projection' \in DiscoveryProjection
        /\ observed' \in [Asset -> SUBSET SeenRow]
        /\ breaks' = breaks
    BY <2>1, <2>2, <2>3, EvaluateSteps
  <2>. QED
    BY <1>4, <1>5, <2>4 DEF DiscoveryInv, DiscoveryTyped
<1>8. CASE IsOlder(inputs)
  <2>1. UNCHANGED <<states, episodes, projection, observed, breaks>>
    BY <1>8 DEF SaveDiscovery
  <2>2. publisher'.restarted = publisher.restarted
    BY <1>2, <1>4, <1>8
  <2>3. AssetsHold'
    BY <2>1, <2>2, TablesAside DEF DiscoveryInv
  <2>. QED
    BY <1>4, <1>5, <2>1, <2>3 DEF DiscoveryInv, DiscoveryTyped
<1>9. CASE ~evaluated /\ ~IsOlder(inputs)
  <2>1. Refresh(inputs) /\ projection # Absent
    BY <1>9 DEF SaveDiscovery, IsNewCutoff
  <2>2. publisher'.restarted = publisher.restarted
    BY <1>2, <1>4, <1>9
  <2>. HIDE DEF inputs, evaluated
  <2>3. /\ AssetsHold'
        /\ states' \in [Asset -> DiscoveryState \cup {Absent}]
        /\ episodes' \in [Asset -> SUBSET DiscoveryEpisode]
        /\ projection' \in DiscoveryProjection
        /\ breaks' \in [Asset -> SUBSET Nat]
        /\ observed' = observed
    BY <1>2, <2>1, <2>2, RefreshSteps
  <2>. QED
    BY <1>4, <1>5, <2>3 DEF DiscoveryInv, DiscoveryTyped
<1>. QED
  BY <1>7, <1>8, <1>9

(* A restart breaks the observation of every asset where it stands. *)
LEMMA DiscoveryRestartSteps ==
  ASSUME DiscoveryInv, Restart
  PROVE  DiscoveryInv'
<1>1. /\ publisher' = [doing |-> "idle", current |-> saved, pending |-> Absent, restarted |-> TRUE]
      /\ breaks' = IF projection = Absent THEN breaks
                   ELSE [a \in Asset |-> breaks[a] \cup {projection.cutoff}]
      /\ UNCHANGED <<offer, saved, states, episodes, projection, observed>>
  BY DEF Restart, Starting
<1>2. /\ projection # Absent => projection.cutoff \in Nat /\ projection.cutoff # 0
      /\ breaks \in [Asset -> SUBSET Nat] /\ observed \in [Asset -> SUBSET SeenRow]
      /\ episodes \in [Asset -> SUBSET DiscoveryEpisode] /\ saved \in Nat
  BY DEF DiscoveryInv, DiscoveryTyped, DiscoveryProjection
<1>3. breaks' \in [Asset -> SUBSET Nat]
  BY <1>1, <1>2
<1>4. DiscoveryTyped'
  BY <1>1, <1>2, <1>3 DEF DiscoveryInv, DiscoveryTyped
<1>5. Reached' = Reached /\ publisher'.restarted = TRUE
  BY <1>1 DEF Reached
<1>6. ASSUME NEW a \in Asset
      PROVE  AssetHolds(states[a], episodes[a], observed[a], breaks'[a], Reached, TRUE)
  <2> DEFINE st == states[a]
             obs == observed[a]
             brk == breaks'[a]
  <2>1. /\ StateHolds(st, obs, breaks[a], Reached, publisher.restarted)
        /\ ObservedOnce(obs, breaks[a], Reached, publisher.restarted)
        /\ EpisodesHold(st, episodes[a], obs, breaks[a], Reached)
    BY DEF DiscoveryInv, AssetsHold, AssetHolds
  <2>2. /\ breaks[a] \subseteq brk /\ Reached \in Nat
        /\ \A c \in brk \ breaks[a] : c = Reached
        /\ Reached # 0 => Reached \in brk
        /\ brk \in SUBSET Nat /\ breaks[a] \in SUBSET Nat /\ obs \in SUBSET SeenRow
    BY <1>1, <1>2, <1>3 DEF Reached
  <2>. HIDE DEF st, obs, brk
  <2>3. StateHolds(st, obs, brk, Reached, TRUE)
    BY <2>1, <2>2 DEF StateHolds, StateRecalls
  <2>4. ObservedOnce(obs, brk, Reached, TRUE)
    BY <2>1, <2>2 DEF ObservedOnce
  <2>5. ASSUME NEW e \in episodes[a]
        PROVE  EpisodeIsTrue(e, obs, brk)
    <3>1. /\ EpisodeIsTrue(e, obs, breaks[a]) /\ e.first <= e.last /\ e.last <= Reached
          /\ e \in DiscoveryEpisode
      BY <1>2, <2>1 DEF EpisodesHold
    <3>2. \A c \in brk \ breaks[a] : c >= Reached
      <4>1. Reached >= Reached
        BY <2>2
      <4>. QED
        BY <2>2, <4>1
    <3>3. obs \subseteq obs /\ \A q \in obs \ obs : q.cutoff > Reached
      OBVIOUS
    <3>. QED
      BY <2>2, <3>1, <3>2, <3>3, EpisodeStaysTrue
  <2>6. EpisodesHold(st, episodes[a], obs, brk, Reached)
    BY <2>1, <2>5 DEF EpisodesHold
  <2>. QED
    BY <2>3, <2>4, <2>6 DEF AssetHolds, st, obs, brk
<1>7. AssetsHold'
  BY <1>1, <1>5, <1>6 DEF DiscoveryInv, AssetsHold
<1>. QED
  BY <1>4, <1>7 DEF DiscoveryInv

LEMMA DiscoverySteps ==
  ASSUME DiscoveryInv, DiscoveryNext \/ UNCHANGED discoveryVars
  PROVE  DiscoveryInv'
<1>1. CASE Offer \/ ReadNext \/ SaveGeneration
  BY <1>1, OfferSteps, ReadNextSteps, SaveGenerationSteps
<1>2. CASE ReadFails \/ SaveGenerationFails \/ SaveDiscoveryFails
  BY <1>2, FailureSteps
<1>3. CASE ReadSame \/ SaveDiscovery \/ Restart
  BY <1>3, ReadSameSteps, SaveDiscoverySteps, DiscoveryRestartSteps
<1>4. CASE UNCHANGED discoveryVars
  <2>1. UNCHANGED <<offer, publisher, saved, states, episodes, projection, observed, breaks>>
    BY <1>4 DEF discoveryVars
  <2>2. AssetsHold'
    BY <2>1, TablesAside DEF DiscoveryInv
  <2>. QED
    BY <2>1, <2>2 DEF DiscoveryInv, DiscoveryTyped
<1>. QED
  BY <1>1, <1>2, <1>3, <1>4 DEF DiscoveryNext

(* The invariant says what the screens rely on. *)
LEMMA DiscoveryIsTrue ==
  ASSUME DiscoveryInv
  PROVE  DiscoveryHolds
<1>1. \A a \in Asset : EpisodesHold(states[a], episodes[a], observed[a], breaks[a], Reached)
  BY DEF DiscoveryInv, AssetsHold, AssetHolds
<1>2. EpisodesAreObserved
  <2>1. SUFFICES ASSUME NEW a \in Asset, NEW e \in episodes[a]
                 PROVE  /\ e.duration = Cardinality({c \in e.first + 1 .. e.last :
                                                       Adjacent(a, c, "matched", "matched")})
                        /\ e.kind = "new" => Adjacent(a, e.first, "not_matched", "matched")
    BY DEF EpisodesAreObserved
  <2>2. EpisodeIsTrue(e, observed[a], breaks[a]) /\ e \in DiscoveryEpisode
    BY <1>1, OpenIsFound DEF DiscoveryInv, EpisodesHold
  <2>3. \A c, before, after :
          Adjacent(a, c, before, after) <=> Joined(observed[a], breaks[a], c, before, after)
    BY DEF Adjacent, Joined
  <2>4. \A c \in e.first + 1 .. e.last : c \in Nat
    BY <2>2 DEF DiscoveryEpisode
  <2>5. {c \in e.first + 1 .. e.last : Adjacent(a, c, "matched", "matched")}
          = (e.first + 1 .. e.last) \cap Minutes(observed[a], breaks[a])
    BY <2>3, <2>4 DEF Minutes
  <2>. QED
    BY <2>2, <2>3, <2>5 DEF EpisodeIsTrue, Lasting
<1>3. OpenEpisodesAreReachable
  BY <1>1, OpenIsFound DEF DiscoveryInv, OpenEpisodesAreReachable
<1>4. ShownMatchesAreActive
  <2>1. SUFFICES ASSUME projection # Absent, NEW a \in Asset
                 PROVE  LET shown == projection.rows[a] # Absent /\ projection.rows[a].state = "matched"
                            active == {e \in episodes[a] : e.state = "active"}
                        IN /\ shown <=> active # {}
                           /\ \A e \in active : /\ e.last = projection.cutoff
                                                /\ projection.rows[a].episode = Identifier(e)
                                                /\ projection.rows[a].confirmation # Absent
    BY DEF ShownMatchesAreActive
  <2>2. ShownHolds(projection.rows[a], states[a], episodes[a], projection.cutoff)
    BY <2>1 DEF DiscoveryInv, AssetsHold
  <2>. QED
    BY <2>2 DEF ShownHolds
<1>. QED
  BY <1>2, <1>3, <1>4 DEF DiscoveryHolds

-----------------------------------------------------------------------------
(***************************************************************************)
(* OutcomeSettlement: no report is falsely current, the formal result is   *)
(* one and so is the threshold.  Every report that is not marked stale     *)
(* fits the editions, and a correction is only stored once the report on   *)
(* show is marked (ReportsFit); a look keeps the input it reserved, since  *)
(* the lock keeps settlements out (LookIsOne); and a settlement stores     *)
(* what it found of all the assets together (OutcomesAgree).               *)
(***************************************************************************)

SettleCommand ==
  [name : {"settle"}, at : Nat, invalidated : BOOLEAN, left : SUBSET ScoredAsset,
   found : [ScoredAsset -> SettledContent]]

SettlementTyped ==
  /\ now \in Nat /\ torn \in BOOLEAN
  /\ outcomes \in [ScoredAsset -> SettledOutcome \cup {Gap}]
  /\ reports \in Seq(FamilyReport)
  /\ artifact \in FamilyReport \cup {Gap}
  /\ ledger \in FormalLook \cup {Gap}
  /\ command \in {Free, [name |-> "evaluate"], [name |-> "formal"]} \cup SettleCommand

Fits(report) ==
  \A a \in ScoredAsset :
    report.basis[a] # 0 => outcomes[a] # Gap /\ report.basis[a] = outcomes[a].edition

ReportsFit ==
  /\ \A i \in DOMAIN reports : ~reports[i].stale => Fits(reports[i])
  /\ artifact # Gap => reports # <<>> /\ (~artifact.stale => Fits(artifact))
  /\ command.name = "settle" /\ command.invalidated => artifact # Gap /\ artifact.stale
  /\ command.name = "evaluate" => reports # <<>>

LookIsOne ==
  /\ command.name = "formal" => ledger # Gap /\ ledger.basis = Editions
  /\ ledger = Gap => answers = {}
  /\ ledger # Gap => answers \subseteq {ledger.basis}

BestIsThreshold(ready) == \A c \in ready : c.threshold = Max({d.move : d \in ready})

ReadyFound(found) == {found[a] : a \in {b \in ScoredAsset : found[b].status = "ready"}}

ReadyOutcomes ==
  {outcomes[a].content : a \in {b \in ScoredAsset : outcomes[b] # Gap
                                       /\ outcomes[b].content.status = "ready"}}

OutcomesAgree ==
  /\ command.name = "settle" =>
       /\ BestIsThreshold(ReadyFound(command.found))
       /\ \A a \in ScoredAsset \ command.left :
            outcomes[a] # Gap /\ outcomes[a].content = command.found[a]
  /\ ~torn /\ command.name # "settle" => BestIsThreshold(ReadyOutcomes)

SettlementInv == SettlementTyped /\ ReportsFit /\ LookIsOne /\ OutcomesAgree

(* The moves are numbers, and so is the best of them. *)
LEMMA ContentIsTyped ==
  ASSUME NEW bundles \in SUBSET Bundle, NEW a \in ScoredAsset, now \in Nat
  PROVE  OutcomeOf(bundles, a) \in SettledContent
<1>1. \A x \in ScoredAsset : x \in Scorable(bundles) => Move(bundles, x) \in Nat
  <2>1. SUFFICES ASSUME NEW x \in ScoredAsset, x \in Scorable(bundles)
                 PROVE  Move(bundles, x) \in Nat
    OBVIOUS
  <2> DEFINE read == ReadBundles(bundles)
             At(late) == {b.bars[x][late] : b \in {c \in read : late \in c.minutes}}
             found == [late \in 1..Horizon |-> BarsAt(bundles, x, late)]
             all == UNION {found[late] : late \in 1..Horizon}
  <2>2. read \in SUBSET Bundle
    BY DEF ReadBundles
  <2>3. \A late \in 1..Horizon : found[late] \in SUBSET Nat
    <3>1. SUFFICES ASSUME NEW late \in 1..Horizon, NEW y \in BarsAt(bundles, x, late)
                   PROVE  y \in Nat
      OBVIOUS
    <3>2. PICK b \in read : late \in b.minutes /\ y = b.bars[x][late] /\ y # Gap
      BY <3>1 DEF BarsAt
    <3>3. b.bars \in [ScoredAsset -> [b.minutes -> Nat \cup {Gap}]]
      BY <2>2, BundleAssumption
    <3>. QED
      BY <3>2, <3>3
  <2>4. \A late \in 1..Horizon : IsFiniteSet(found[late])
    <3>1. SUFFICES ASSUME NEW late \in 1..Horizon PROVE IsFiniteSet(BarsAt(bundles, x, late))
      OBVIOUS
    <3> DEFINE with == {c \in read : late \in c.minutes}
               value == [b \in with |-> b.bars[x][late]]
    <3>2. IsFiniteSet(with)
      BY <2>2, BundleAssumption, FS_Subset
    <3>. HIDE DEF with
    <3>3. IsFiniteSet({value[b] : b \in with})
      <4>. HIDE DEF value
      <4>. QED
        BY <3>2, ValuesAreFinite
    <3>4. BarsAt(bundles, x, late) \in SUBSET {value[b] : b \in with}
      BY DEF BarsAt, with
    <3>. QED
      BY <3>3, <3>4, FS_Subset
  <2>5. Horizon \in Nat /\ Horizon # 0 /\ IsFiniteSet(1..Horizon)
    <3>1. 1 \in Int /\ Horizon \in Int
      BY SettlementAssumption
    <3>. QED
      BY <3>1, SettlementAssumption, FS_Interval
  <2>6. found[1] # {}
    <3>1. 1 \in 0..Horizon /\ 1 \in 1..Horizon
      BY <2>5
    <3>. QED
      BY <2>1, <3>1 DEF Scorable, Complete
  <2>7. Move(bundles, x) = Max(all)
    BY DEF Move
  <2>. HIDE DEF found
  <2>8. IsFiniteSet({found[late] : late \in 1..Horizon})
    BY <2>5, ValuesAreFinite
  <2>9. IsFiniteSet(all)
    BY <2>4, <2>8, FS_UNION
  <2>10. all \in SUBSET Nat /\ all # {}
    BY <2>3, <2>5, <2>6
  <2>. HIDE DEF all
  <2>11. Max(all) \in all
    BY ONLY <2>9, <2>10, MaxOfFinite, Zenon
  <2>. QED
    BY <2>7, <2>10, <2>11
<1>2. a \in Scorable(bundles) => Threshold(bundles) \in Nat
  <2>1. SUFFICES ASSUME a \in Scorable(bundles) PROVE Threshold(bundles) \in Nat
    OBVIOUS
  <2> DEFINE S == Scorable(bundles)
             move == [x \in S |-> Move(bundles, x)]
             moves == {move[x] : x \in S}
  <2>2. S \in SUBSET ScoredAsset /\ IsFiniteSet(S)
    <3>1. S \in SUBSET ScoredAsset
      BY DEF Scorable
    <3>. QED
      BY <3>1, BundleAssumption, FS_Subset
  <2>3. Threshold(bundles) = Max(moves)
    BY DEF Threshold
  <2>4. moves \in SUBSET Nat /\ moves # {}
    BY <1>1, <2>1, <2>2
  <2>. HIDE DEF S, move
  <2>5. IsFiniteSet(moves)
    BY <2>2, ValuesAreFinite
  <2>. HIDE DEF moves
  <2>6. Max(moves) \in moves
    BY ONLY <2>4, <2>5, MaxOfFinite, Zenon
  <2>. QED
    BY <2>3, <2>4, <2>6
<1>. QED
  BY <1>1, <1>2 DEF OutcomeOf, SettledContent

(* What one settlement finds agrees: the threshold is the best of the ready moves. *)
LEMMA FoundAgrees ==
  ASSUME NEW bundles, NEW found, found = [a \in ScoredAsset |-> OutcomeOf(bundles, a)]
  PROVE  BestIsThreshold(ReadyFound(found))
<1>1. CASE now < Horizon
  <2>1. ReadyFound(found) = {}
    BY <1>1 DEF ReadyFound, OutcomeOf
  <2>. QED
    BY <2>1 DEF BestIsThreshold
<1>2. CASE ~(now < Horizon)
  <2> DEFINE S == Scorable(bundles)
             ready == ReadyFound(found)
  <2>1. S \in SUBSET ScoredAsset
    BY DEF Scorable
  <2>2. \A a \in ScoredAsset :
          /\ found[a].status = "ready" <=> a \in S
          /\ a \in S => found[a] = [status |-> "ready", move |-> Move(bundles, a),
                                    threshold |-> Threshold(bundles)]
    BY <1>2 DEF OutcomeOf
  <2>3. ready = {found[a] : a \in S}
    BY <2>1, <2>2 DEF ReadyFound
  <2>4. \A a \in S : found[a].move = Move(bundles, a) /\ found[a].threshold = Threshold(bundles)
    BY <2>1, <2>2
  <2>. HIDE DEF S, ready
  <2>5. {d.move : d \in ready} = {Move(bundles, a) : a \in S}
    BY <2>3, <2>4
  <2>6. Threshold(bundles) = Max({d.move : d \in ready})
    BY <2>5 DEF Threshold, S
  <2>7. \A c \in ready : c.threshold = Threshold(bundles)
    BY <2>3, <2>4
  <2>. QED
    BY <2>6, <2>7 DEF BestIsThreshold, ready
<1>. QED
  BY <1>1, <1>2

LEMMA SettlementStarts ==
  ASSUME SettlementInit
  PROVE  SettlementInv
<1> USE DEF SettlementInit, Free
<1>1. SettlementTyped
  <2>1. reports \in Seq(FamilyReport)
    BY SeqDef
  <2>. QED
    BY <2>1 DEF SettlementTyped
<1>2. ReportsFit /\ LookIsOne
  BY DEF ReportsFit, LookIsOne
<1>3. OutcomesAgree
  BY DEF OutcomesAgree, ReadyOutcomes, BestIsThreshold
<1>. QED
  BY <1>1, <1>2, <1>3 DEF SettlementInv
(* A step that leaves the outcomes alone leaves what is said of them alone. *)
LEMMA OutcomesAside ==
  ASSUME outcomes' = outcomes
  PROVE  /\ \A report : Fits(report)' <=> Fits(report)
         /\ Editions' = Editions
         /\ ReadyOutcomes' = ReadyOutcomes
BY DEF Fits, Editions, ReadyOutcomes

LEMMA SettleSteps ==
  ASSUME SettlementInv, NEW bundles \in SUBSET Bundle, Settle(bundles)
  PROVE  SettlementInv'
<1> DEFINE found == [a \in ScoredAsset |-> OutcomeOf(bundles, a)]
<1>1. /\ command = Free
      /\ command' = [name |-> "settle", at |-> now, invalidated |-> FALSE,
                     left |-> ScoredAsset, found |-> found]
      /\ UNCHANGED <<now, outcomes, reports, artifact, ledger, torn, answers>>
  BY DEF Settle
<1>2. found \in [ScoredAsset -> SettledContent]
  BY ContentIsTyped DEF SettlementInv, SettlementTyped
<1>3. BestIsThreshold(ReadyFound(found))
  BY FoundAgrees
<1>. HIDE DEF found
<1>4. SettlementTyped'
  <2>1. command' \in SettleCommand
    BY <1>1, <1>2 DEF SettleCommand, SettlementInv, SettlementTyped
  <2>. QED
    BY <1>1, <2>1 DEF SettlementInv, SettlementTyped
<1>5. ReportsFit'
  BY <1>1, OutcomesAside DEF SettlementInv, ReportsFit
<1>6. LookIsOne'
  BY <1>1 DEF SettlementInv, LookIsOne
<1>7. OutcomesAgree'
  <2>1. command'.name = "settle" /\ command'.found = found /\ command'.left = ScoredAsset
    BY <1>1
  <2>. QED
    BY <1>3, <2>1 DEF OutcomesAgree
<1>. QED
  BY <1>4, <1>5, <1>6, <1>7 DEF SettlementInv

(* What holds while a settlement stores its outcomes. *)
LEMMA SettlingTyped ==
  ASSUME SettlementTyped, Settling
  PROVE  command \in SettleCommand /\ command.name = "settle"
BY DEF SettlementTyped, Settling, Free

LEMMA SameOutcomeSteps ==
  ASSUME SettlementInv, NEW a \in ScoredAsset, SameOutcome(a)
  PROVE  SettlementInv'
<1>1. /\ Settling /\ outcomes[a] # Gap /\ outcomes[a].content = command.found[a]
      /\ command' = [command EXCEPT !.left = @ \ {a}]
      /\ UNCHANGED <<now, outcomes, reports, artifact, ledger, torn, answers>>
  BY DEF SameOutcome, Unchanged
<1>2. command \in SettleCommand /\ command.name = "settle"
  BY <1>1, SettlingTyped DEF SettlementInv
<1>3. /\ command' \in SettleCommand /\ command'.name = "settle"
      /\ command'.found = command.found /\ command'.left = command.left \ {a}
      /\ command'.invalidated = command.invalidated
  BY <1>1, <1>2 DEF SettleCommand
<1>4. SettlementTyped'
  BY <1>1, <1>3 DEF SettlementInv, SettlementTyped
<1>5. ReportsFit'
  BY <1>1, <1>2, <1>3, OutcomesAside DEF SettlementInv, ReportsFit
<1>6. LookIsOne'
  BY <1>1, <1>3 DEF SettlementInv, LookIsOne
<1>7. OutcomesAgree'
  BY <1>1, <1>2, <1>3 DEF SettlementInv, OutcomesAgree
<1>. QED
  BY <1>4, <1>5, <1>6, <1>7 DEF SettlementInv

LEMMA LastReport ==
  ASSUME SettlementTyped, reports # <<>>
  PROVE  /\ Last(reports) \in FamilyReport
         /\ ReportsFit => (~Last(reports).stale => Fits(Last(reports)))
<1>1. Len(reports) \in DOMAIN reports /\ Last(reports) = reports[Len(reports)]
  <2>1. reports \in Seq(FamilyReport) /\ Len(reports) \in Nat /\ Len(reports) # 0
    BY EmptySeq, LenProperties DEF SettlementTyped
  <2>. QED
    BY <2>1 DEF Last
<1>2. reports[Len(reports)] \in FamilyReport
  BY <1>1 DEF SettlementTyped
<1>. QED
  BY <1>1, <1>2 DEF ReportsFit

LEMMA InvalidateSteps ==
  ASSUME SettlementInv, NEW a \in ScoredAsset, Invalidate(a)
  PROVE  SettlementInv'
<1>1. /\ Settling /\ reports # <<>>
      /\ artifact' = [basis |-> Last(reports).basis, stale |-> TRUE]
      /\ command' = [command EXCEPT !.invalidated = TRUE]
      /\ UNCHANGED <<now, outcomes, reports, ledger, torn, answers>>
  BY DEF Invalidate
<1>2. command \in SettleCommand /\ command.name = "settle"
  BY <1>1, SettlingTyped DEF SettlementInv
<1>3. /\ command' \in SettleCommand /\ command'.name = "settle"
      /\ command'.found = command.found /\ command'.left = command.left
  BY <1>1, <1>2 DEF SettleCommand
<1>4. artifact' \in FamilyReport /\ artifact' # Gap /\ artifact'.stale
  <2>1. Last(reports) \in FamilyReport
    BY <1>1, LastReport DEF SettlementInv
  <2>2. artifact' \in FamilyReport /\ artifact'.stale
    BY <1>1, <2>1 DEF FamilyReport
  <2>. QED
    BY <2>2, GapIsNone
<1>5. SettlementTyped'
  BY <1>1, <1>3, <1>4 DEF SettlementInv, SettlementTyped
<1>6. ReportsFit'
  BY <1>1, <1>2, <1>3, <1>4, OutcomesAside DEF SettlementInv, ReportsFit
<1>7. LookIsOne'
  BY <1>1, <1>3 DEF SettlementInv, LookIsOne
<1>8. OutcomesAgree'
  BY <1>1, <1>2, <1>3 DEF SettlementInv, OutcomesAgree
<1>. QED
  BY <1>5, <1>6, <1>7, <1>8 DEF SettlementInv

(* A first edition outdates no report; a correction only comes once none is current. *)
LEMMA StoreOutcomeSteps ==
  ASSUME SettlementInv, NEW a \in ScoredAsset, StoreOutcome(a)
  PROVE  SettlementInv'
<1> DEFINE edition == IF outcomes[a] = Gap THEN 1 ELSE outcomes[a].edition + 1
           row == [edition |-> edition, content |-> command.found[a], at |-> command.at]
<1>1. /\ Settling /\ a \in command.left /\ ~Unchanged(a) /\ Invalidated(a)
      /\ outcomes' = [outcomes EXCEPT ![a] = row]
      /\ reports' = IF Corrects(a)
                    THEN [i \in DOMAIN reports |-> [reports[i] EXCEPT !.stale = TRUE]]
                    ELSE reports
      /\ command' = [command EXCEPT !.left = @ \ {a}, !.invalidated = FALSE]
      /\ UNCHANGED <<now, artifact, ledger, torn, answers>>
  BY DEF StoreOutcome
<1>2. command \in SettleCommand /\ command.name = "settle"
  BY <1>1, SettlingTyped DEF SettlementInv
<1>3. /\ command' \in SettleCommand /\ command'.name = "settle" /\ ~command'.invalidated
      /\ command'.found = command.found /\ command'.left = command.left \ {a}
  BY <1>1, <1>2 DEF SettleCommand
<1>4. /\ row \in SettledOutcome /\ row # Gap /\ row.edition = edition
      /\ row.content = command.found[a] /\ edition \in Nat
  <2>1. edition \in Nat
    BY DEF SettlementInv, SettlementTyped, SettledOutcome
  <2>2. command.found[a] \in SettledContent /\ command.at \in Nat
    BY <1>2 DEF SettleCommand
  <2>3. row \in SettledOutcome
    BY <2>1, <2>2 DEF SettledOutcome
  <2>. QED
    BY <2>1, <2>3, GapIsNone
<1>5. outcomes \in [ScoredAsset -> SettledOutcome \cup {Gap}]
  BY DEF SettlementInv, SettlementTyped
<1>. HIDE DEF row
<1>6. /\ outcomes'[a] = row
      /\ \A b \in ScoredAsset : b # a => outcomes'[b] = outcomes[b]
  BY <1>1, <1>5
<1>7. /\ reports' \in Seq(FamilyReport) /\ DOMAIN reports' = DOMAIN reports
      /\ reports' = <<>> <=> reports = <<>>
      /\ Corrects(a) => \A i \in DOMAIN reports : reports'[i].stale
      /\ ~Corrects(a) => reports' = reports
  <2>1. reports \in Seq(FamilyReport)
    BY DEF SettlementInv, SettlementTyped
  <2>2. CASE ~Corrects(a)
    BY <1>1, <2>1, <2>2
  <2>3. CASE Corrects(a)
    <3> DEFINE marked == [i \in 1..Len(reports) |-> [reports[i] EXCEPT !.stale = TRUE]]
    <3>1. /\ Len(reports) \in Nat /\ DOMAIN reports = 1..Len(reports)
          /\ \A i \in 1..Len(reports) : reports[i] \in FamilyReport
      BY <2>1, LenProperties
    <3>2. reports' = marked
      BY <1>1, <2>3, <3>1
    <3>3. \A i \in 1..Len(reports) :
            [reports[i] EXCEPT !.stale = TRUE] \in FamilyReport /\ [reports[i] EXCEPT !.stale = TRUE].stale
      BY <3>1 DEF FamilyReport
    <3>4. marked \in [1..Len(reports) -> FamilyReport] /\ \A i \in 1..Len(reports) : marked[i].stale
      BY <3>3
    <3>. HIDE DEF marked
    <3>5. marked \in Seq(FamilyReport) /\ DOMAIN marked = 1..Len(reports) /\ Len(marked) = Len(reports)
      <4>1. marked \in Seq(FamilyReport) /\ DOMAIN marked = 1..Len(reports)
        BY <3>1, <3>4, SeqDef
      <4>. QED
        BY <3>1, <4>1, LenProperties
    <3>6. marked = <<>> <=> reports = <<>>
      BY <2>1, <3>5, EmptySeq
    <3>. QED
      BY <2>3, <3>1, <3>2, <3>4, <3>5, <3>6
  <2>. QED
    BY <2>2, <2>3
<1>8. SettlementTyped'
  <2>1. outcomes' \in [ScoredAsset -> SettledOutcome \cup {Gap}]
    BY <1>1, <1>4, <1>5
  <2>. QED
    BY <1>1, <1>3, <1>7, <2>1 DEF SettlementInv, SettlementTyped
<1>9. ReportsFit'
  <2>1. CASE Corrects(a)
    <3>1. \A i \in DOMAIN reports' : reports'[i].stale
      BY <1>7, <2>1
    <3>2. reports # <<>> => artifact # Gap /\ artifact.stale
      BY <1>1, <1>2, <2>1 DEF Invalidated, SettlementInv, ReportsFit
    <3>3. artifact' # Gap => reports' # <<>> /\ artifact'.stale
      BY <1>1, <1>7, <3>2 DEF SettlementInv, ReportsFit
    <3>. QED
      BY <1>3, <3>1, <3>3 DEF ReportsFit
  <2>2. CASE ~Corrects(a)
    <3>1. outcomes[a] = Gap
      BY <1>1, <2>2 DEF Corrects
    <3>2. \A report : Fits(report) => Fits(report)'
      BY <1>6, <3>1 DEF Fits
    <3>. QED
      BY <1>1, <1>3, <1>7, <2>2, <3>2 DEF SettlementInv, ReportsFit
  <2>. QED
    BY <2>1, <2>2
<1>10. LookIsOne'
  BY <1>1, <1>3 DEF SettlementInv, LookIsOne
<1>11. OutcomesAgree'
  <2>1. \A b \in ScoredAsset \ command'.left :
          outcomes'[b] # Gap /\ outcomes'[b].content = command'.found[b]
    BY <1>2, <1>3, <1>4, <1>6 DEF SettlementInv, OutcomesAgree
  <2>. QED
    BY <1>2, <1>3, <2>1 DEF SettlementInv, OutcomesAgree
<1>. QED
  BY <1>8, <1>9, <1>10, <1>11 DEF SettlementInv

LEMMA SettlementEndSteps ==
  ASSUME SettlementInv, SettlementEnds
  PROVE  SettlementInv'
<1>1. /\ command.name = "settle" /\ command.left = {}
      /\ command' = Free /\ torn' = FALSE
      /\ UNCHANGED <<now, outcomes, reports, artifact, ledger, answers>>
  BY DEF SettlementEnds
<1>2. command'.name = "none"
  BY <1>1 DEF Free
<1>3. SettlementTyped'
  BY <1>1 DEF SettlementInv, SettlementTyped
<1>4. ReportsFit'
  BY <1>1, <1>2, OutcomesAside DEF SettlementInv, ReportsFit
<1>5. LookIsOne'
  BY <1>1, <1>2 DEF SettlementInv, LookIsOne
<1>6. OutcomesAgree'
  <2>1. \A a \in ScoredAsset : outcomes[a] # Gap /\ outcomes[a].content = command.found[a]
    BY <1>1 DEF SettlementInv, OutcomesAgree
  <2>2. ReadyOutcomes = ReadyFound(command.found)
    BY <2>1 DEF ReadyOutcomes, ReadyFound
  <2>3. BestIsThreshold(ReadyOutcomes)
    BY <1>1, <2>2 DEF SettlementInv, OutcomesAgree
  <2>4. ReadyOutcomes' = ReadyOutcomes
    BY <1>1, OutcomesAside
  <2>5. BestIsThreshold(ReadyOutcomes')
    BY <2>3, <2>4
  <2>. QED
    BY <1>2, <2>5 DEF OutcomesAgree, BestIsThreshold
<1>. QED
  BY <1>3, <1>4, <1>5, <1>6 DEF SettlementInv

(* The steps that neither settle nor mark. *)
LEMMA AgreementStays ==
  ASSUME OutcomesAgree, outcomes' = outcomes, command'.name # "settle",
         ~torn' => ~torn /\ command.name # "settle"
  PROVE  OutcomesAgree'
<1>1. ReadyOutcomes' = ReadyOutcomes
  BY OutcomesAside
<1>. QED
  BY <1>1 DEF OutcomesAgree, BestIsThreshold

LEMMA ReportSteps ==
  ASSUME SettlementInv, Evaluate
  PROVE  SettlementInv'
<1> DEFINE report == [basis |-> Editions, stale |-> FALSE]
<1>1. /\ command = Free
      /\ reports' = Append(reports, report)
      /\ command' = [name |-> "evaluate"]
      /\ UNCHANGED <<now, outcomes, artifact, ledger, torn, answers>>
  BY DEF Evaluate
<1>2. command'.name = "evaluate" /\ command.name = "none"
  BY <1>1 DEF Free
<1>3. report \in FamilyReport
  BY DEF FamilyReport, Editions, SettlementInv, SettlementTyped, SettledOutcome
<1>4. Fits(report)
  BY DEF Fits, Editions
<1>. HIDE DEF report
<1>5. reports \in Seq(FamilyReport)
  BY DEF SettlementInv, SettlementTyped
<1>6. /\ reports' \in Seq(FamilyReport) /\ reports' # <<>>
      /\ \A i \in DOMAIN reports' : reports'[i] = report \/ (i \in DOMAIN reports /\ reports'[i] = reports[i])
  <2>1. /\ reports' \in Seq(FamilyReport) /\ Len(reports') = Len(reports) + 1
        /\ \A i \in 1..Len(reports) : reports'[i] = reports[i]
        /\ reports'[Len(reports) + 1] = report
    BY <1>1, <1>3, <1>5, AppendProperties
  <2>2. Len(reports) \in Nat /\ DOMAIN reports = 1..Len(reports) /\ DOMAIN reports' = 1..(Len(reports) + 1)
    BY <1>5, <2>1, LenProperties
  <2>3. reports' # <<>>
    BY <2>1, <2>2, EmptySeq
  <2>. QED
    BY <2>1, <2>2, <2>3
<1>7. SettlementTyped'
  BY <1>1, <1>6 DEF SettlementInv, SettlementTyped
<1>8. ReportsFit'
  <2>1. \A i \in DOMAIN reports' : ~reports'[i].stale => Fits(reports'[i])
    BY <1>4, <1>6 DEF SettlementInv, ReportsFit
  <2>2. artifact # Gap => (~artifact.stale => Fits(artifact))
    BY DEF SettlementInv, ReportsFit
  <2>. QED
    BY <1>1, <1>2, <1>6, <2>1, <2>2 DEF ReportsFit, Fits
<1>9. LookIsOne'
  BY <1>1, <1>2 DEF SettlementInv, LookIsOne
<1>10. OutcomesAgree'
  BY <1>1, <1>2, AgreementStays DEF SettlementInv
<1>. QED
  BY <1>7, <1>8, <1>9, <1>10 DEF SettlementInv

LEMMA PublishReportSteps ==
  ASSUME SettlementInv, PublishReport
  PROVE  SettlementInv'
<1>1. /\ command.name = "evaluate" /\ artifact' = Last(reports) /\ command' = Free
      /\ UNCHANGED <<now, outcomes, reports, ledger, torn, answers>>
  BY DEF PublishReport
<1>2. command'.name = "none" /\ reports # <<>>
  BY <1>1 DEF Free, SettlementInv, ReportsFit
<1>3. Last(reports) \in FamilyReport /\ (~Last(reports).stale => Fits(Last(reports)))
  BY <1>2, LastReport DEF SettlementInv
<1>4. SettlementTyped'
  BY <1>1, <1>3 DEF SettlementInv, SettlementTyped
<1>5. ReportsFit'
  BY <1>1, <1>2, <1>3 DEF SettlementInv, ReportsFit, Fits
<1>6. LookIsOne'
  BY <1>1, <1>2 DEF SettlementInv, LookIsOne
<1>7. OutcomesAgree'
  BY <1>1, <1>2, AgreementStays DEF SettlementInv
<1>. QED
  BY <1>4, <1>5, <1>6, <1>7 DEF SettlementInv

(* A look reserves the editions it saw; it is only repeated for the very same. *)
LEMMA LookSteps ==
  ASSUME SettlementInv, Look
  PROVE  SettlementInv'
<1>1. /\ command = Free /\ MayLook
      /\ ledger' = IF ledger = Gap
                   THEN [status |-> "STARTED", basis |-> Editions, availability |-> now]
                   ELSE ledger
      /\ command' = [name |-> "formal"]
      /\ UNCHANGED <<now, outcomes, reports, artifact, torn, answers>>
  BY DEF Look
<1>2. command'.name = "formal" /\ command.name = "none"
  BY <1>1 DEF Free
<1>3. ledger' \in FormalLook /\ ledger' # Gap /\ ledger'.basis = Editions
  <2>1. Editions \in [ScoredAsset -> Nat] /\ now \in Nat
    BY DEF Editions, SettlementInv, SettlementTyped, SettledOutcome
  <2>2. CASE ledger = Gap
    <3>1. ledger' \in FormalLook /\ ledger'.basis = Editions
      BY <1>1, <2>1, <2>2 DEF FormalLook
    <3>. QED
      BY <3>1, GapIsNone
  <2>3. CASE ledger # Gap
    BY <1>1, <2>3 DEF MayLook, SettlementInv, SettlementTyped
  <2>. QED
    BY <2>2, <2>3
<1>4. SettlementTyped'
  BY <1>1, <1>3 DEF SettlementInv, SettlementTyped
<1>5. ReportsFit'
  BY <1>1, <1>2 DEF SettlementInv, ReportsFit, Fits
<1>6. LookIsOne'
  <2>1. Editions' = Editions
    BY <1>1, OutcomesAside
  <2>2. answers \subseteq {ledger'.basis}
    BY <1>1 DEF SettlementInv, LookIsOne
  <2>. QED
    BY <1>1, <1>2, <1>3, <2>1, <2>2 DEF LookIsOne
<1>7. OutcomesAgree'
  BY <1>1, <1>2, AgreementStays DEF SettlementInv
<1>. QED
  BY <1>4, <1>5, <1>6, <1>7 DEF SettlementInv

LEMMA FinishLookSteps ==
  ASSUME SettlementInv, FinishLook
  PROVE  SettlementInv'
<1>1. /\ command.name = "formal"
      /\ ledger' = [ledger EXCEPT !.status = "COMPLETE"]
      /\ answers' = answers \cup {Editions} /\ command' = Free
      /\ UNCHANGED <<now, outcomes, reports, artifact, torn>>
  BY DEF FinishLook
<1>2. command'.name = "none"
  BY <1>1 DEF Free
<1>3. ledger \in FormalLook /\ ledger # Gap /\ ledger.basis = Editions
  BY <1>1 DEF SettlementInv, SettlementTyped, LookIsOne
<1>4. ledger' \in FormalLook /\ ledger' # Gap /\ ledger'.basis = Editions
  <2>1. ledger' \in FormalLook /\ ledger'.basis = Editions
    BY <1>1, <1>3 DEF FormalLook
  <2>. QED
    BY <2>1, GapIsNone
<1>5. SettlementTyped'
  BY <1>1, <1>4 DEF SettlementInv, SettlementTyped
<1>6. ReportsFit'
  BY <1>1, <1>2 DEF SettlementInv, ReportsFit, Fits
<1>7. LookIsOne'
  BY <1>1, <1>2, <1>3, <1>4 DEF SettlementInv, LookIsOne
<1>8. OutcomesAgree'
  BY <1>1, <1>2, AgreementStays DEF SettlementInv
<1>. QED
  BY <1>5, <1>6, <1>7, <1>8 DEF SettlementInv

(* A finished look is read again, a command fails, time passes, or nothing. *)
LEMMA QuietSteps ==
  ASSUME SettlementInv, LookAgain \/ CommandFails \/ MinutePasses \/ UNCHANGED settlementVars
  PROVE  SettlementInv'
<1>1. CASE LookAgain
  <2>1. /\ ledger # Gap /\ answers' = answers \cup {ledger.basis}
        /\ UNCHANGED <<now, outcomes, reports, artifact, ledger, command, torn>>
    BY <1>1 DEF LookAgain
  <2>2. SettlementTyped' /\ ReportsFit'
    BY <2>1 DEF SettlementInv, SettlementTyped, ReportsFit, Fits
  <2>3. LookIsOne'
    BY <2>1, OutcomesAside DEF SettlementInv, LookIsOne
  <2>4. OutcomesAgree'
    <3>1. ReadyOutcomes' = ReadyOutcomes
      BY <2>1, OutcomesAside
    <3>. QED
      BY <2>1, <3>1 DEF SettlementInv, OutcomesAgree, ReadyFound, BestIsThreshold
  <2>. QED
    BY <2>2, <2>3, <2>4 DEF SettlementInv
<1>2. CASE CommandFails
  <2>1. /\ torn' = (torn \/ command.name = "settle") /\ command' = Free
        /\ UNCHANGED <<now, outcomes, reports, artifact, ledger, answers>>
    BY <1>2 DEF CommandFails
  <2>2. command'.name = "none"
    BY <2>1 DEF Free
  <2>3. SettlementTyped' /\ ReportsFit'
    BY <2>1, <2>2 DEF SettlementInv, SettlementTyped, ReportsFit, Fits
  <2>4. LookIsOne'
    BY <2>1, <2>2 DEF SettlementInv, LookIsOne
  <2>5. OutcomesAgree'
    BY <2>1, <2>2, AgreementStays DEF SettlementInv
  <2>. QED
    BY <2>3, <2>4, <2>5 DEF SettlementInv
<1>3. CASE MinutePasses \/ UNCHANGED settlementVars
  <2>1. /\ now' = now + 1 \/ now' = now
        /\ UNCHANGED <<outcomes, reports, artifact, ledger, command, torn, answers>>
    BY <1>3 DEF MinutePasses, settlementVars
  <2>2. SettlementTyped' /\ ReportsFit'
    BY <2>1 DEF SettlementInv, SettlementTyped, ReportsFit, Fits
  <2>3. LookIsOne'
    BY <2>1, OutcomesAside DEF SettlementInv, LookIsOne
  <2>4. OutcomesAgree'
    <3>1. ReadyOutcomes' = ReadyOutcomes
      BY <2>1, OutcomesAside
    <3>. QED
      BY <2>1, <3>1 DEF SettlementInv, OutcomesAgree, ReadyFound, BestIsThreshold
  <2>. QED
    BY <2>2, <2>3, <2>4 DEF SettlementInv
<1>. QED
  BY <1>1, <1>2, <1>3

LEMMA SettlementSteps ==
  ASSUME SettlementInv, SettlementNext \/ UNCHANGED settlementVars
  PROVE  SettlementInv'
<1>1. CASE \E bundles \in SUBSET Bundle : Settle(bundles)
  BY <1>1, SettleSteps
<1>2. CASE \E a \in ScoredAsset : SameOutcome(a) \/ Invalidate(a) \/ StoreOutcome(a)
  BY <1>2, SameOutcomeSteps, InvalidateSteps, StoreOutcomeSteps
<1>3. CASE SettlementEnds
  BY <1>3, SettlementEndSteps
<1>4. CASE Evaluate \/ PublishReport
  BY <1>4, ReportSteps, PublishReportSteps
<1>5. CASE Look \/ FinishLook
  BY <1>5, LookSteps, FinishLookSteps
<1>6. CASE LookAgain \/ CommandFails \/ MinutePasses \/ UNCHANGED settlementVars
  BY <1>6, QuietSteps
<1>. QED
  BY <1>1, <1>2, <1>3, <1>4, <1>5, <1>6 DEF SettlementNext

LEMMA SettlementIsTrue ==
  ASSUME SettlementInv
  PROVE  NeverFalselyCurrent /\ OneFormalLook /\ OneThreshold
<1>1. NeverFalselyCurrent
  BY DEF NeverFalselyCurrent, SettlementInv, ReportsFit, Fits
<1>2. OneFormalLook
  <2>1. answers = {} \/ answers = {ledger.basis}
    BY DEF SettlementInv, LookIsOne
  <2>2. Cardinality(answers) = 0 \/ Cardinality(answers) = 1
    BY <2>1, FS_EmptySet, FS_Singleton
  <2>3. Cardinality(answers) <= 1
    BY <2>2
  <2>. QED
    BY <2>3 DEF OneFormalLook, SettlementInv, LookIsOne
<1>3. OneThreshold
  <2>1. SUFFICES ASSUME command = Free, ~torn PROVE BestIsThreshold(ReadyOutcomes)
    BY DEF OneThreshold, BestIsThreshold, ReadyOutcomes
  <2>. QED
    BY <2>1 DEF Free, SettlementInv, OutcomesAgree
<1>. QED
  BY <1>1, <1>2, <1>3

-----------------------------------------------------------------------------
(***************************************************************************)
(* ShadowAllocation: the slots saved are as many as can be filled, and a   *)
(* slot's time is the one since which its asset has had it (SlotsAreFull). *)
(* So no policy ever has to cut what it keeps, and the cost-aware one, one *)
(* asset after the other, only gives up slots that are not held            *)
(* (ChosenSoFar).                                                          *)
(***************************************************************************)

AllocationTyped ==
  /\ kind \in {"top-k-v1", "hysteresis-v1", "cost-aware-greedy-v1"}
  /\ decision \in Nat
  /\ score \in [Ids -> 0..Scores]
  /\ allocation # NoSlots => \E slots \in SUBSET Ids : allocation \in [slots -> Nat]
  /\ since \in [Ids -> Nat]

AllocationInv == AllocationTyped /\ SlotsAreFull

LEMMA IdsAreFinite ==
  /\ IsFiniteSet(Ids) /\ Ids \in SUBSET Nat /\ K \in Nat /\ K > 0
  /\ \A slots \in SUBSET Ids : IsFiniteSet(slots) /\ Cardinality(slots) \in Nat
<1>1. Assets \in Nat /\ K \in Nat /\ K > 0
  BY AllocationAssumption
<1>2. IsFiniteSet(Ids) /\ Ids \in SUBSET Nat
  <2>1. 1 \in Int /\ Assets \in Int
    BY <1>1
  <2>. QED
    BY <1>1, <2>1, FS_Interval DEF Ids
<1>. QED
  BY <1>1, <1>2, FS_Subset, FS_CardinalityType

(* The minimum of two numbers. *)
LEMMA LeastOfTwo ==
  ASSUME NEW a \in Nat, NEW b \in Nat
  PROVE  Min({a, b}) = IF a <= b THEN a ELSE b
<1>1. PICK x \in {a, b} : \A y \in {a, b} : x <= y
  <2>1. a <= b \/ b <= a
    OBVIOUS
  <2>. QED
    BY <2>1
<1>2. Min({a, b}) \in {a, b} /\ \A y \in {a, b} : Min({a, b}) <= y
  BY <1>1 DEF Min
<1>. QED
  BY <1>2

(* Scores, then ids, put the assets in one order. *)
LEMMA BeforeIsAnOrder ==
  ASSUME NEW scored \in [Ids -> 0..Scores]
  PROVE  /\ \A a \in Ids : ~Before(scored, a, a)
         /\ \A a, b, c \in Ids : Before(scored, a, b) /\ Before(scored, b, c) => Before(scored, a, c)
         /\ \A a, b \in Ids : a # b => Before(scored, a, b) \/ Before(scored, b, a)
<1>1. \A a \in Ids : scored[a] \in Nat /\ a \in Nat
  BY AllocationAssumption, IdsAreFinite
<1>. QED
  BY <1>1 DEF Before

(* The first k of some assets are k, or all. *)
LEMMA FirstAreCounted ==
  ASSUME NEW scored \in [Ids -> 0..Scores], NEW S \in SUBSET Ids, NEW k \in Nat
  PROVE  Cardinality({a \in S : Cardinality({b \in S : Before(scored, b, a)}) < k})
           = IF k <= Cardinality(S) THEN k ELSE Cardinality(S)
<1> DEFINE under == [a \in S |-> {b \in S : Before(scored, b, a)}]
<1>1. IsFiniteSet(S)
  BY IdsAreFinite
<1>2. under \in [S -> SUBSET S]
  OBVIOUS
<1>3. /\ \A a \in S : a \notin under[a]
      /\ \A a, b, c \in S : a \in under[b] /\ b \in under[c] => a \in under[c]
      /\ \A a, b \in S : a # b => a \in under[b] \/ b \in under[a]
  BY BeforeIsAnOrder
<1>4. \A a \in S : under[a] = {b \in S : Before(scored, b, a)}
  OBVIOUS
<1>. HIDE DEF under
<1>5. Cardinality({a \in S : Cardinality(under[a]) < k}) = IF k <= Cardinality(S) THEN k ELSE Cardinality(S)
  BY <1>1, <1>2, <1>3, FirstPlaces
<1>6. {a \in S : Cardinality(under[a]) < k} = {a \in S : Cardinality({b \in S : Before(scored, b, a)}) < k}
  BY <1>4
<1>. QED
  BY <1>5, <1>6

(* The ranks of the scored assets are 1, 2, 3, ... *)
LEMMA RanksReachAll ==
  ASSUME NEW scored \in [Ids -> 0..Scores]
  PROVE  /\ Cardinality(Eligible(scored)) \in Nat
         /\ \A a \in Eligible(scored) : Rank(scored, a) \in 1..Cardinality(Eligible(scored))
         /\ \A k \in 1..Cardinality(Eligible(scored)) :
              \E a \in Eligible(scored) : Rank(scored, a) = k
<1> DEFINE S == Eligible(scored)
           under == [a \in S |-> {b \in S : Before(scored, b, a)}]
<1>1. S \in SUBSET Ids /\ IsFiniteSet(S)
  <2>1. S \in SUBSET Ids
    BY DEF Eligible
  <2>. QED
    BY <2>1, IdsAreFinite
<1>. HIDE DEF S
<1>2. under \in [S -> SUBSET S]
  OBVIOUS
<1>3. /\ \A a \in S : a \notin under[a]
      /\ \A a, b, c \in S : a \in under[b] /\ b \in under[c] => a \in under[c]
      /\ \A a, b \in S : a # b => a \in under[b] \/ b \in under[a]
  BY <1>1, BeforeIsAnOrder
<1>4. \A a \in S : Rank(scored, a) = Cardinality(under[a]) + 1
  BY DEF Rank, S
<1>. HIDE DEF under
<1>5. /\ Cardinality(S) \in Nat
      /\ \A a \in S : Cardinality(under[a]) \in 0..(Cardinality(S) - 1)
      /\ \A k \in 0..(Cardinality(S) - 1) : \E a \in S : Cardinality(under[a]) = k
  BY <1>1, <1>2, <1>3, PlacesReachAll
<1>6. \A a \in S : Rank(scored, a) \in 1..Cardinality(S)
  BY <1>4, <1>5
<1>7. \A k \in 1..Cardinality(S) : \E a \in S : Rank(scored, a) = k
  <2>1. SUFFICES ASSUME NEW k \in 1..Cardinality(S) PROVE \E a \in S : Rank(scored, a) = k
    OBVIOUS
  <2>2. k - 1 \in 0..(Cardinality(S) - 1) /\ (k - 1) + 1 = k
    BY <1>5
  <2>. QED
    BY <1>4, <1>5, <2>2
<1>. QED
  BY <1>5, <1>6, <1>7 DEF S

(* The best are K, or all that are scored. *)
LEMMA BestAreCounted ==
  ASSUME NEW scored \in [Ids -> 0..Scores]
  PROVE  /\ Best(scored) \in SUBSET Eligible(scored)
         /\ Cardinality(Best(scored))
              = IF K <= Cardinality(Eligible(scored)) THEN K ELSE Cardinality(Eligible(scored))
<1> DEFINE S == Eligible(scored)
           First == {a \in S : Cardinality({b \in S : Before(scored, b, a)}) < K}
<1>1. S \in SUBSET Ids
  BY DEF Eligible
<1>2. \A a \in S : Cardinality({b \in S : Before(scored, b, a)}) \in Nat
  <2>1. \A a \in S : {b \in S : Before(scored, b, a)} \in SUBSET Ids
    BY <1>1
  <2>. QED
    BY <2>1, IdsAreFinite
<1>3. Best(scored) = First
  BY <1>2, IdsAreFinite DEF Best, Rank
<1>4. Cardinality(First) = IF K <= Cardinality(S) THEN K ELSE Cardinality(S)
  <2>. HIDE DEF S
  <2>. QED
    BY <1>1, IdsAreFinite, FirstAreCounted
<1>. QED
  BY <1>3, <1>4

(* The slots saved are no more than K, so that none is cut off what is kept. *)
LEMMA KeepsAll ==
  ASSUME AllocationInv, allocation # NoSlots, NEW scored \in [Ids -> 0..Scores], NEW at \in Nat
  PROVE  /\ Keeps(scored, at) = {a \in Old(TRUE) \cap Eligible(scored) :
                                  Held(a, at) \/ Rank(scored, a) <= K + Buffer}
         /\ Keeps(scored, at) \in SUBSET Eligible(scored)
         /\ Cardinality(Keeps(scored, at)) <= K
<1> DEFINE kept == {a \in Old(TRUE) \cap Eligible(scored) :
                      Held(a, at) \/ Rank(scored, a) <= K + Buffer}
           first(a, b) ==
             IF Held(a, at) # Held(b, at) THEN Held(a, at)
             ELSE IF allocation[a] # allocation[b] THEN allocation[a] < allocation[b]
             ELSE Before(scored, a, b)
<1>1. kept \in SUBSET Ids /\ IsFiniteSet(kept) /\ Cardinality(kept) \in Nat /\ Cardinality(kept) <= K
  <2>1. Old(TRUE) = DOMAIN allocation
    BY DEF Old
  <2>2. DOMAIN allocation \in SUBSET Ids
    BY DEF AllocationInv, AllocationTyped
  <2>3. Cardinality(DOMAIN allocation) <= K
    <3>1. Eligible(score) \in SUBSET Ids
      BY DEF Eligible
    <3>2. Cardinality(Eligible(score)) \in Nat /\ K \in Nat
      BY <3>1, IdsAreFinite
    <3>3. Cardinality(DOMAIN allocation) = Min({K, Cardinality(Eligible(score))})
      BY DEF AllocationInv, SlotsAreFull
    <3>. QED
      BY <3>2, <3>3, LeastOfTwo
  <2>4. kept \in SUBSET (DOMAIN allocation)
    BY <2>1
  <2>. HIDE DEF kept
  <2>5. IsFiniteSet(DOMAIN allocation)
    BY <2>2, IdsAreFinite
  <2>6. Cardinality(kept) <= Cardinality(DOMAIN allocation)
    BY <2>4, <2>5, FS_Subset
  <2>7. Cardinality(kept) \in Nat /\ Cardinality(DOMAIN allocation) \in Nat /\ K \in Nat
    BY <2>2, <2>4, IdsAreFinite
  <2>. QED
    BY <2>2, <2>3, <2>4, <2>6, <2>7, IdsAreFinite
<1>2. ASSUME NEW a \in kept
      PROVE  Cardinality({b \in kept : first(b, a)}) < K
  <2>1. ~first(a, a)
    BY <1>1, BeforeIsAnOrder
  <2>. DEFINE earlier == {b \in kept : first(b, a)}
  <2>2. earlier \in SUBSET (kept \ {a})
    BY <2>1
  <2>. HIDE DEF kept, earlier
  <2>3. IsFiniteSet(kept \ {a}) /\ Cardinality(kept \ {a}) = Cardinality(kept) - 1
    BY <1>1, <1>2, FS_RemoveElement
  <2>4. Cardinality(earlier) <= Cardinality(kept \ {a})
    BY <2>2, <2>3, FS_Subset
  <2>5. Cardinality(earlier) \in Nat
    BY <2>2, <1>1, IdsAreFinite
  <2>6. Cardinality(earlier) < K
    BY <1>1, <2>3, <2>4, <2>5, IdsAreFinite
  <2>. QED
    BY <2>6 DEF earlier
<1>3. Keeps(scored, at) = {a \in kept : Cardinality({b \in kept : first(b, a)}) < K}
  BY DEF Keeps
<1>4. Keeps(scored, at) = kept
  BY <1>2, <1>3
<1>5. kept \in SUBSET Eligible(scored)
  OBVIOUS
<1>. QED
  BY <1>1, <1>4, <1>5

(* What is kept and the best of the others are K, or all. *)
LEMMA FilledIsFull ==
  ASSUME NEW scored \in [Ids -> 0..Scores], NEW kept \in SUBSET Eligible(scored),
         Cardinality(kept) <= K
  PROVE  /\ kept \in SUBSET Filled(scored, kept)
         /\ Filled(scored, kept) \in SUBSET Eligible(scored)
         /\ Cardinality(Filled(scored, kept))
              = IF K <= Cardinality(Eligible(scored)) THEN K ELSE Cardinality(Eligible(scored))
<1> DEFINE E == Eligible(scored)
           B == Best(scored)
           free == K - Cardinality(kept)
           best == B \ kept
           F == {a \in best : Cardinality({b \in best : Before(scored, b, a)}) < free}
<1>1. /\ E \in SUBSET Ids /\ IsFiniteSet(E) /\ Cardinality(E) \in Nat
      /\ IsFiniteSet(kept) /\ Cardinality(kept) \in Nat /\ free \in Nat /\ K \in Nat
  <2>1. E \in SUBSET Ids
    BY DEF Eligible
  <2>2. kept \in SUBSET Ids
    BY <2>1
  <2>3. K \in Nat /\ Cardinality(kept) \in Nat
    BY <2>2, IdsAreFinite
  <2>. QED
    BY <2>1, <2>2, <2>3, IdsAreFinite
<1>2. B \in SUBSET E /\ Cardinality(B) = IF K <= Cardinality(E) THEN K ELSE Cardinality(E)
  BY BestAreCounted
<1>3. Filled(scored, kept) = kept \cup F
  BY DEF Filled
<1>. HIDE DEF E, B, free
<1>4. best \in SUBSET Ids /\ IsFiniteSet(best) /\ Cardinality(best) \in Nat
  <2>1. best \in SUBSET Ids
    BY <1>1, <1>2
  <2>. QED
    BY <2>1, IdsAreFinite
<1>5. Cardinality(F) = IF free <= Cardinality(best) THEN free ELSE Cardinality(best)
  <2>. HIDE DEF best
  <2>. QED
    BY <1>1, <1>4, FirstAreCounted
<1>6. F \in SUBSET best
  OBVIOUS
<1>7. kept \cup best \in SUBSET E /\ B \in SUBSET (kept \cup best) /\ kept \cap best = {}
  BY <1>2 DEF E
<1>. HIDE DEF best, F
<1>8. /\ IsFiniteSet(F) /\ kept \cap F = {}
      /\ Cardinality(kept \cup F) = Cardinality(kept) + Cardinality(F)
  <2>1. IsFiniteSet(F) /\ kept \cap F = {}
    BY <1>4, <1>6, <1>7, FS_Subset
  <2>2. Cardinality(kept \cap F) = 0 /\ Cardinality(F) \in Nat
    BY <2>1, FS_EmptySet, FS_CardinalityType
  <2>3. Cardinality(kept \cup F) = Cardinality(kept) + Cardinality(F) - Cardinality(kept \cap F)
    BY <1>1, <2>1, FS_Union
  <2>. QED
    BY <1>1, <2>1, <2>2, <2>3
<1>9. /\ IsFiniteSet(kept \cup best)
      /\ Cardinality(kept \cup best) = Cardinality(kept) + Cardinality(best)
  <2>1. Cardinality(kept \cap best) = 0
    BY <1>7, FS_EmptySet
  <2>2. /\ IsFiniteSet(kept \cup best)
        /\ Cardinality(kept \cup best) = Cardinality(kept) + Cardinality(best) - Cardinality(kept \cap best)
    BY <1>1, <1>4, FS_Union
  <2>. QED
    BY <1>1, <1>4, <2>1, <2>2
<1>10. /\ Cardinality(kept \cup best) <= Cardinality(E)
       /\ Cardinality(B) <= Cardinality(kept \cup best)
  BY <1>1, <1>7, <1>9, FS_Subset
<1>11. free = K - Cardinality(kept)
  BY DEF free
<1>12. Cardinality(kept \cup F) = IF K <= Cardinality(E) THEN K ELSE Cardinality(E)
  <2>1. CASE free <= Cardinality(best)
    BY <2>1, <1>1, <1>4, <1>5, <1>8, <1>9, <1>10, <1>11
  <2>2. CASE ~(free <= Cardinality(best))
    BY <2>2, <1>1, <1>2, <1>4, <1>5, <1>8, <1>9, <1>10, <1>11
  <2>. QED
    BY <2>1, <2>2
<1>13. kept \cup F \in SUBSET E /\ kept \in SUBSET (kept \cup F)
  BY <1>6, <1>7
<1>. QED
  BY <1>3, <1>12, <1>13 DEF E

(* The cost-aware policy never gives up a slot that is held, and never has fewer. *)
LEMMA SwappedKeepsHeld ==
  ASSUME AllocationInv, NEW scored \in [Ids -> 0..Scores], NEW at \in Nat,
         NEW chosen \in SUBSET Eligible(scored), Cardinality(chosen) <= K,
         NEW a \in Eligible(scored)
  PROVE  /\ Swapped(scored, at, chosen, a) \in SUBSET Eligible(scored)
         /\ Cardinality(Swapped(scored, at, chosen, a)) <= K
         /\ Cardinality(Swapped(scored, at, chosen, a)) = K
            \/ (chosen \in SUBSET Swapped(scored, at, chosen, a)
                /\ a \in Swapped(scored, at, chosen, a))
         /\ \A b \in chosen \cap Old(TRUE) : Held(b, at) => b \in Swapped(scored, at, chosen, a)
<1> DEFINE removable == {b \in chosen : b \notin Old(TRUE) \/ ~Held(b, at)}
           IsWorst(b) == \A c \in removable : scored[b] < scored[c]
                                              \/ (scored[b] = scored[c] /\ b <= c)
           worst == CHOOSE b \in removable : IsWorst(b)
           after == (chosen \ {worst}) \cup {a}
           result == Swapped(scored, at, chosen, a)
<1>1. /\ chosen \in SUBSET Ids /\ a \in Ids /\ IsFiniteSet(chosen) /\ Cardinality(chosen) \in Nat
      /\ K \in Nat
  <2>1. chosen \in SUBSET Ids /\ a \in Ids
    BY DEF Eligible
  <2>. QED
    BY <2>1, IdsAreFinite
<1>2. result = IF a \in chosen THEN chosen
               ELSE IF Cardinality(chosen) < K THEN chosen \cup {a}
               ELSE IF removable = {} THEN chosen
               ELSE IF scored[a] - scored[worst] > TransitionCost(chosen, after)
                    THEN after ELSE chosen
  BY DEF Swapped
<1>3. removable \in SUBSET chosen /\ \A b \in chosen \cap Old(TRUE) : Held(b, at) => b \notin removable
  OBVIOUS
<1>4. removable # {} => worst \in removable
  <2>1. SUFFICES ASSUME removable # {} PROVE worst \in removable
    OBVIOUS
  <2>. DEFINE Marks == {scored[b] : b \in removable}
  <2>2. \A b \in removable : scored[b] \in Nat /\ b \in Nat
    <3>1. \A b \in Ids : scored[b] \in Nat /\ b \in Nat
      BY AllocationAssumption, IdsAreFinite
    <3>. QED
      BY <3>1, <1>1
  <2>3. Marks \in SUBSET Nat /\ Marks # {}
    BY <2>1, <2>2
  <2>4. PICK m \in Marks : \A y \in Marks : m <= y
    BY ONLY <2>3, LeastExists, Zenon
  <2>. DEFINE Low == {b \in removable : scored[b] = m}
  <2>5. Low \in SUBSET Nat /\ Low # {}
    BY <2>2, <2>4
  <2>6. PICK w \in Low : \A y \in Low : w <= y
    BY ONLY <2>5, LeastExists, Zenon
  <2>7. w \in removable /\ IsWorst(w)
    <3>1. w \in removable /\ scored[w] = m
      BY <2>6
    <3>2. ASSUME NEW c \in removable
          PROVE  scored[w] < scored[c] \/ (scored[w] = scored[c] /\ w <= c)
      <4>1. m <= scored[c] /\ m \in Nat /\ scored[c] \in Nat
        BY <2>2, <2>3, <2>4
      <4>2. scored[c] = m => w <= c
        BY <2>6
      <4>. QED
        BY <3>1, <4>1, <4>2
    <3>. QED
      BY <3>1, <3>2
  <2>. HIDE DEF IsWorst, removable
  <2>. QED
    BY <2>7
<1>. HIDE DEF removable, worst, result
<1>5. CASE a \in chosen
  BY <1>1, <1>2, <1>5 DEF result
<1>6. CASE a \notin chosen /\ Cardinality(chosen) < K
  <2>1. result = chosen \cup {a}
    BY <1>2, <1>6
  <2>2. Cardinality(chosen \cup {a}) = Cardinality(chosen) + 1
    BY <1>1, <1>6, FS_AddElement
  <2>3. Cardinality(result) <= K
    BY <1>1, <1>6, <2>1, <2>2
  <2>. QED
    BY <2>1, <2>3 DEF result
<1>7. CASE a \notin chosen /\ ~(Cardinality(chosen) < K)
  <2>1. Cardinality(chosen) = K
    BY <1>1, <1>7
  <2>2. CASE result = chosen
    BY <2>1, <2>2, <1>1 DEF result
  <2>3. CASE removable # {} /\ result = after
    <3>1. worst \in chosen /\ \A b \in chosen \cap Old(TRUE) : Held(b, at) => b # worst
      BY <1>3, <1>4, <2>3
    <3>2. IsFiniteSet(chosen \ {worst}) /\ Cardinality(chosen \ {worst}) = Cardinality(chosen) - 1
      BY <1>1, <3>1, FS_RemoveElement
    <3>3. a \notin chosen \ {worst}
      BY <1>7
    <3>4. Cardinality(after) = Cardinality(chosen \ {worst}) + 1
      BY <3>2, <3>3, FS_AddElement
    <3>5. Cardinality(after) = K
      BY <2>1, <3>2, <3>4, <1>1
    <3>6. after \in SUBSET Eligible(scored)
      OBVIOUS
    <3>7. \A b \in chosen \cap Old(TRUE) : Held(b, at) => b \in after
      BY <3>1, Zenon
    <3>8. Cardinality(after) <= K
      BY <3>5, <1>1
    <3>. HIDE DEF after
    <3>. QED
      BY <2>3, <3>5, <3>6, <3>7, <3>8 DEF result
  <2>. QED
    BY <1>2, <1>7, <2>2, <2>3
<1>. QED
  BY <1>5, <1>6, <1>7

(* The slots saved are at most K. *)
LEMMA SlotsAreAtMost ==
  ASSUME AllocationInv, allocation # NoSlots
  PROVE  Cardinality(DOMAIN allocation) <= K
<1>1. Eligible(score) \in SUBSET Ids
  BY DEF Eligible
<1>2. Cardinality(Eligible(score)) \in Nat /\ K \in Nat
  BY <1>1, IdsAreFinite
<1>3. Cardinality(DOMAIN allocation) = Min({K, Cardinality(Eligible(score))})
  BY DEF AllocationInv, SlotsAreFull
<1>. QED
  BY <1>2, <1>3, LeastOfTwo

(* No two scored assets have the same rank. *)
LEMMA RanksDiffer ==
  ASSUME NEW scored \in [Ids -> 0..Scores]
  PROVE  \A a, b \in Eligible(scored) : Rank(scored, a) = Rank(scored, b) => a = b
<1> DEFINE S == Eligible(scored)
           under == [a \in S |-> {b \in S : Before(scored, b, a)}]
<1>1. S \in SUBSET Ids /\ IsFiniteSet(S)
  <2>1. S \in SUBSET Ids
    BY DEF Eligible
  <2>. QED
    BY <2>1, IdsAreFinite
<1>. HIDE DEF S
<1>2. under \in [S -> SUBSET S]
  OBVIOUS
<1>3. /\ \A a \in S : a \notin under[a]
      /\ \A a, b, c \in S : a \in under[b] /\ b \in under[c] => a \in under[c]
      /\ \A a, b \in S : a # b => a \in under[b] \/ b \in under[a]
  BY <1>1, BeforeIsAnOrder
<1>4. \A a \in S : Rank(scored, a) = Cardinality(under[a]) + 1
  BY DEF Rank, S
<1>. HIDE DEF under
<1>5. /\ \A a \in S : Cardinality(under[a]) \in 0..(Cardinality(S) - 1)
      /\ \A a, b \in S : Cardinality(under[a]) = Cardinality(under[b]) => a = b
  BY <1>1, <1>2, <1>3, PlacesReachAll
<1>6. \A a, b \in S : Rank(scored, a) = Rank(scored, b) => a = b
  BY <1>1, <1>4, <1>5, FS_CardinalityType
<1>. QED
  BY <1>6 DEF S

(* The cost-aware policy, one asset after the other. *)
LEMMA CostAwareIsFull ==
  ASSUME AllocationInv, allocation # NoSlots, NEW scored \in [Ids -> 0..Scores], NEW at \in Nat
  PROVE  /\ CostAware(scored, at) \in SUBSET Eligible(scored)
         /\ Cardinality(CostAware(scored, at))
              = IF K <= Cardinality(Eligible(scored)) THEN K ELSE Cardinality(Eligible(scored))
         /\ \A a \in Old(TRUE) \cap Eligible(scored) : Held(a, at) => a \in CostAware(scored, at)
<1> DEFINE E == Eligible(scored)
           n == Cardinality(E)
           order == Ordered(scored)
           start == Old(TRUE) \cap E
           Sets == {c \in SUBSET E : Cardinality(c) <= K}
           step == [i \in 1..n |-> [c \in Sets |-> Swapped(scored, at, c, order[i])]]
           IsRun(f) == f = [i \in 0..n |-> IF i = 0 THEN start
                                           ELSE Swapped(scored, at, f[i - 1], order[i])]
           run == CHOOSE f : IsRun(f)
<1>1. /\ E \in SUBSET Ids /\ IsFiniteSet(E) /\ n \in Nat /\ K \in Nat
      /\ \A c \in SUBSET E : IsFiniteSet(c) /\ Cardinality(c) \in Nat
  <2>1. E \in SUBSET Ids
    BY DEF Eligible
  <2>. QED
    BY <2>1, IdsAreFinite
<1>2. /\ order \in [1..n -> E]
      /\ \A a \in E : \E i \in 1..n : order[i] = a
  <2>1. /\ \A a \in E : Rank(scored, a) \in 1..n
        /\ \A k \in 1..n : \E a \in E : Rank(scored, a) = k
    BY RanksReachAll
  <2>2. order = [i \in 1..n |-> CHOOSE a \in E : Rank(scored, a) = i]
    BY DEF Ordered
  <2>. HIDE DEF E, n
  <2>3. order \in [1..n -> E] /\ \A i \in 1..n : Rank(scored, order[i]) = i
    BY <2>1, <2>2
  <2>4. \A a, b \in E : Rank(scored, a) = Rank(scored, b) => a = b
    BY RanksDiffer DEF E
  <2>5. \A a \in E : order[Rank(scored, a)] = a
    BY <2>1, <2>3, <2>4
  <2>. QED
    BY <2>1, <2>3, <2>5
<1>3. Len(order) = n
  <2>. HIDE DEF E, n, order
  <2>1. order \in Seq(E)
    BY <1>1, <1>2, SeqDef
  <2>. QED
    BY <1>1, <1>2, <2>1, LenProperties
<1>4. CostAware(scored, at) = run[n]
  <2>1. CostAware(scored, at) =
          (CHOOSE f : f = [i \in 0..Len(order) |->
                             IF i = 0 THEN Old(TRUE) \cap Eligible(scored)
                             ELSE Swapped(scored, at, f[i - 1], order[i])])[Len(order)]
    BY DEF CostAware
  <2>. QED
    BY <2>1, <1>3
<1>5. start \in Sets
  <2>1. start \in SUBSET (DOMAIN allocation) /\ start \in SUBSET E
    BY DEF Old
  <2>2. DOMAIN allocation \in SUBSET Ids /\ IsFiniteSet(DOMAIN allocation)
    <3>1. DOMAIN allocation \in SUBSET Ids
      BY DEF AllocationInv, AllocationTyped
    <3>. QED
      BY <3>1, IdsAreFinite
  <2>3. Cardinality(DOMAIN allocation) <= K /\ Cardinality(DOMAIN allocation) \in Nat
    BY <2>2, IdsAreFinite, SlotsAreAtMost
  <2>. HIDE DEF start
  <2>4. Cardinality(start) <= Cardinality(DOMAIN allocation)
    BY <2>1, <2>2, FS_Subset
  <2>5. Cardinality(start) <= K
    BY <2>1, <2>3, <2>4, <1>1
  <2>. QED
    BY <2>1, <2>5
<1>6. \A c \in Sets, i \in 1..n : Swapped(scored, at, c, order[i]) \in Sets
  <2>1. SUFFICES ASSUME NEW c \in Sets, NEW i \in 1..n
                 PROVE  Swapped(scored, at, c, order[i]) \in Sets
    OBVIOUS
  <2>2. order[i] \in Eligible(scored) /\ c \in SUBSET Eligible(scored) /\ Cardinality(c) <= K
    BY <1>2
  <2>3. /\ Swapped(scored, at, c, order[i]) \in SUBSET Eligible(scored)
        /\ Cardinality(Swapped(scored, at, c, order[i])) <= K
    <3>. HIDE DEF order
    <3>. QED
      BY <2>2, SwappedKeepsHeld
  <2>. QED
    BY <2>3
<1>. HIDE DEF E, order, start
<1>7. \A c \in Sets, i \in 1..n : step[i][c] = Swapped(scored, at, c, order[i])
  OBVIOUS
<1>8. step \in [1..n -> [Sets -> Sets]]
  BY <1>6
<1>. HIDE DEF step
<1>9. \E f : IsIteration(f, n, Sets, start, step)
  <2>1. n \in Nat
    BY <1>1
  <2>. HIDE DEF Sets, n
  <2>. QED
    BY ONLY <2>1, <1>5, <1>8, IterationExists
<1>10. \E f : IsRun(f)
  <2>0. PICK f : IsIteration(f, n, Sets, start, step)
    BY <1>9
  <2>1. f \in [0..n -> Sets] /\ f[0] = start /\ \A i \in 1..n : f[i] = step[i][f[i - 1]]
    BY <2>0 DEF IsIteration
  <2>2. \A i \in 1..n : f[i] = Swapped(scored, at, f[i - 1], order[i])
    <3>1. \A i \in 1..n : i - 1 \in 0..n
      BY <1>1
    <3>2. \A i \in 1..n : f[i - 1] \in Sets
      BY <2>1, <3>1
    <3>. QED
      BY <1>7, <2>1, <3>2
  <2>3. \A i \in 0..n : i # 0 => i \in 1..n
    BY <1>1
  <2>4. \A i \in 0..n : f[i] = IF i = 0 THEN start ELSE Swapped(scored, at, f[i - 1], order[i])
    BY <2>1, <2>2, <2>3
  <2>5. IsRun(f)
    BY <2>1, <2>4
  <2>. HIDE DEF IsRun
  <2>. QED
    BY <2>5
<1>11. IsRun(run)
  <2>. HIDE DEF IsRun
  <2>. QED
    BY <1>10
<1>. HIDE DEF run
<1>12. /\ run[0] = start
       /\ \A i \in 0..(n - 1) : run[i + 1] = Swapped(scored, at, run[i], order[i + 1])
  <2>1. 0 \in 0..n /\ \A i \in 0..(n - 1) : i + 1 \in 0..n /\ i + 1 # 0 /\ (i + 1) - 1 = i
    BY <1>1
  <2>2. \A i \in 0..n : run[i] = IF i = 0 THEN start ELSE Swapped(scored, at, run[i - 1], order[i])
    BY <1>11
  <2>. QED
    BY <2>1, <2>2
<1> DEFINE SoFar(i) ==
             /\ run[i] \in Sets
             /\ Cardinality(run[i]) = K \/ \A j \in 1..i : order[j] \in run[i]
             /\ \A a \in start : Held(a, at) => a \in run[i]
           Placed == {i \in 0..n : SoFar(i)}
<1>13. 0 \in Placed
  <2>1. 0 \in 0..n /\ \A j \in 1..0 : FALSE
    BY <1>1
  <2>2. SoFar(0)
    BY <1>5, <1>12, <2>1
  <2>. QED
    BY <2>1, <2>2
<1>14. \A i \in 0..(n - 1) : i \in Placed => i + 1 \in Placed
  <2>1. SUFFICES ASSUME NEW i \in 0..(n - 1), SoFar(i) PROVE i + 1 \in 0..n /\ SoFar(i + 1)
    OBVIOUS
  <2>2. i + 1 \in 0..n /\ i + 1 \in 1..n
    BY <1>1
  <2> DEFINE c == run[i]
             a == order[i + 1]
             d == Swapped(scored, at, c, a)
  <2>3. c \in Sets /\ a \in E
    BY <1>2, <2>1, <2>2
  <2>4. run[i + 1] = d
    BY <1>12
  <2>5. /\ d \in SUBSET E /\ Cardinality(d) <= K
        /\ Cardinality(d) = K \/ (c \in SUBSET d /\ a \in d)
        /\ \A b \in c \cap Old(TRUE) : Held(b, at) => b \in d
    <3>1. c \in SUBSET Eligible(scored) /\ Cardinality(c) <= K /\ a \in Eligible(scored)
      BY <2>3 DEF E
    <3>. HIDE DEF c, a
    <3>. QED
      BY <3>1, SwappedKeepsHeld DEF E
  <2>6. d \in Sets
    BY <2>5
  <2>. HIDE DEF d
  <2>7. Cardinality(d) = K \/ \A j \in 1..(i + 1) : order[j] \in d
    <3>1. CASE Cardinality(d) = K
      BY <3>1
    <3>2. CASE Cardinality(d) # K
      <4>1. c \in SUBSET d /\ a \in d
        BY <2>5, <3>2
      <4>2. Cardinality(c) # K
        <5>1. IsFiniteSet(d) /\ Cardinality(d) \in Nat /\ Cardinality(c) \in Nat
          BY <1>1, <2>3, <2>5
        <5>2. Cardinality(c) <= Cardinality(d)
          BY <4>1, <5>1, FS_Subset
        <5>. QED
          BY <1>1, <2>5, <3>2, <5>1, <5>2
      <4>3. \A j \in 1..i : order[j] \in c
        BY <2>1, <4>2
      <4>4. \A j \in 1..(i + 1) : j \in 1..i \/ j = i + 1
        BY <1>1
      <4>. QED
        BY <4>1, <4>3, <4>4
    <3>. QED
      BY <3>1, <3>2
  <2>8. \A b \in start : Held(b, at) => b \in d
    <3>1. start \in SUBSET Old(TRUE)
      BY DEF start
    <3>2. \A b \in start : Held(b, at) => b \in c
      BY <2>1
    <3>. QED
      BY <2>5, <3>1, <3>2, Zenon
  <2>. QED
    BY <2>2, <2>4, <2>6, <2>7, <2>8
<1>15. n \in Placed
  <2>1. n \in 0..n
    BY <1>1
  <2>. HIDE DEF Placed, n
  <2>2. \A i \in 0..n : i \in Placed
    BY <1>1, <1>13, <1>14, StepByStep
  <2>. QED
    BY <2>1, <2>2
<1>16. SoFar(n)
  <2>. HIDE DEF SoFar
  <2>. QED
    BY <1>15
<1>17. run[n] \in SUBSET E /\ Cardinality(run[n]) <= K /\ Cardinality(run[n]) \in Nat
  BY <1>1, <1>16
<1>18. Cardinality(run[n]) = IF K <= n THEN K ELSE n
  <2>1. CASE Cardinality(run[n]) = K
    <3>1. Cardinality(run[n]) <= n
      BY <1>1, <1>17, FS_Subset
    <3>. QED
      BY <1>1, <2>1, <3>1
  <2>2. CASE Cardinality(run[n]) # K
    <3>1. \A j \in 1..n : order[j] \in run[n]
      BY <1>16, <2>2
    <3>2. \A a \in E : a \in run[n]
      BY <1>2, <3>1, Zenon
    <3>3. run[n] = E
      BY <1>17, <3>2
    <3>. QED
      BY <1>1, <1>17, <2>2, <3>3
  <2>. QED
    BY <2>1, <2>2
<1>19. \A a \in Old(TRUE) \cap E : Held(a, at) => a \in run[n]
  BY <1>16 DEF start
<1>. QED
  BY <1>4, <1>17, <1>18, <1>19 DEF E

(* What is chosen fills the slots, and what is held stays. *)
LEMMA ChosenIsFull ==
  ASSUME AllocationInv, NEW scored \in [Ids -> 0..Scores], NEW at \in Nat, NEW comparable \in BOOLEAN
  PROVE  /\ Chosen(scored, at, comparable) \in SUBSET Eligible(scored)
         /\ Cardinality(Chosen(scored, at, comparable))
              = IF K <= Cardinality(Eligible(scored)) THEN K ELSE Cardinality(Eligible(scored))
         /\ kind # "top-k-v1" /\ comparable /\ allocation # NoSlots
              => \A a \in DOMAIN allocation \cap Eligible(scored) :
                   Held(a, at) => a \in Chosen(scored, at, comparable)
<1>1. CASE kind = "top-k-v1" \/ allocation = NoSlots \/ ~comparable
  <2>1. Chosen(scored, at, comparable) = Best(scored)
    BY <1>1 DEF Chosen
  <2>. QED
    BY <1>1, <2>1, BestAreCounted
<1>2. CASE kind = "hysteresis-v1" /\ allocation # NoSlots /\ comparable
  <2> DEFINE kept == Keeps(scored, at)
  <2>1. Chosen(scored, at, comparable) = Filled(scored, kept)
    BY <1>2 DEF Chosen
  <2>2. /\ kept = {a \in Old(TRUE) \cap Eligible(scored) :
                     Held(a, at) \/ Rank(scored, a) <= K + Buffer}
        /\ kept \in SUBSET Eligible(scored) /\ Cardinality(kept) <= K
    BY <1>2, KeepsAll
  <2>3. \A a \in DOMAIN allocation \cap Eligible(scored) : Held(a, at) => a \in kept
    <3>1. Old(TRUE) = DOMAIN allocation
      BY <1>2 DEF Old
    <3>. HIDE DEF kept
    <3>. QED
      BY <2>2, <3>1
  <2>. HIDE DEF kept
  <2>4. /\ kept \in SUBSET Filled(scored, kept)
        /\ Filled(scored, kept) \in SUBSET Eligible(scored)
        /\ Cardinality(Filled(scored, kept))
             = IF K <= Cardinality(Eligible(scored)) THEN K ELSE Cardinality(Eligible(scored))
    BY <2>2, FilledIsFull
  <2>5. \A a \in DOMAIN allocation \cap Eligible(scored) :
          Held(a, at) => a \in Filled(scored, kept)
    BY <2>3, <2>4, Zenon
  <2>. QED
    BY <2>1, <2>4, <2>5
<1>3. CASE kind = "cost-aware-greedy-v1" /\ allocation # NoSlots /\ comparable
  <2>1. Chosen(scored, at, comparable) = CostAware(scored, at)
    BY <1>3 DEF Chosen
  <2>2. Old(TRUE) = DOMAIN allocation
    BY <1>3 DEF Old
  <2>. QED
    BY <1>3, <2>1, <2>2, CostAwareIsFull
<1>. QED
  BY <1>1, <1>2, <1>3 DEF AllocationInv, AllocationTyped

LEMMA AllocationStarts ==
  ASSUME AllocationInit
  PROVE  AllocationInv
<1>1. [a \in Ids |-> 0] \in [Ids -> 0..Scores] /\ [a \in Ids |-> 0] \in [Ids -> Nat]
  BY AllocationAssumption
<1>. QED
  BY <1>1 DEF AllocationInit, AllocationInv, AllocationTyped, SlotsAreFull

(* A generation saves slots that are full, and gives up none that is held. *)
LEMMA AllocationSteps ==
  ASSUME AllocationInv, AllocationNext
  PROVE  /\ AllocationInv'
         /\ kind # "top-k-v1" /\ compared' =>
              \A a \in DOMAIN allocation \ DOMAIN allocation' :
                score'[a] > 0 => decision' - since[a] >= MinHold
<1>1. PICK scored \in [Ids -> 0..Scores] : \E at \in decision + 1 .. decision + 2, comparable \in BOOLEAN :
        at <= MaxDecision /\ Allocate(scored, at, comparable)
  BY DEF AllocationNext
<1>2. PICK at \in decision + 1 .. decision + 2 : \E comparable \in BOOLEAN :
        Allocate(scored, at, comparable)
  BY <1>1
<1>3. PICK comparable \in BOOLEAN : Allocate(scored, at, comparable)
  BY <1>2
<1>4. at \in Nat
  BY <1>2 DEF AllocationInv, AllocationTyped
<1> DEFINE chosen == Chosen(scored, at, comparable)
           E == Eligible(scored)
<1>5. /\ chosen \in SUBSET E
      /\ Cardinality(chosen) = IF K <= Cardinality(E) THEN K ELSE Cardinality(E)
      /\ kind # "top-k-v1" /\ comparable /\ allocation # NoSlots
           => \A a \in DOMAIN allocation \cap E : Held(a, at) => a \in chosen
  BY <1>4, AllocationInv, ChosenIsFull
<1>6. /\ decision' = at /\ score' = scored /\ kind' = kind
      /\ compared' = (comparable /\ allocation # NoSlots)
      /\ allocation' = [a \in chosen |-> IF a \in Old(comparable) THEN allocation[a] ELSE at]
      /\ since' = [a \in Ids |-> IF a \in chosen \cap Old(comparable) THEN since[a] ELSE at]
  BY <1>3 DEF Allocate
<1>7. E \in SUBSET Ids
  BY DEF Eligible
<1>. HIDE DEF chosen
<1>8. chosen \in SUBSET Ids
  BY <1>5, <1>7
<1>9. \A a \in Old(comparable) : allocation # NoSlots /\ a \in DOMAIN allocation
  BY DEF Old
<1>10. allocation # NoSlots =>
         /\ DOMAIN allocation \in SUBSET Ids
         /\ \A a \in DOMAIN allocation : allocation[a] \in Nat /\ allocation[a] = since[a]
  <2>1. SUFFICES ASSUME allocation # NoSlots
                 PROVE  /\ DOMAIN allocation \in SUBSET Ids
                        /\ \A a \in DOMAIN allocation : allocation[a] \in Nat /\ allocation[a] = since[a]
    OBVIOUS
  <2>2. PICK slots \in SUBSET Ids : allocation \in [slots -> Nat]
    BY <2>1 DEF AllocationInv, AllocationTyped
  <2>3. \A a \in DOMAIN allocation : allocation[a] = since[a]
    BY <2>1 DEF AllocationInv, SlotsAreFull
  <2>. QED
    BY <2>2, <2>3
<1>11. allocation' \in [chosen -> Nat]
  BY <1>4, <1>6, <1>9, <1>10
<1>12. allocation' # NoSlots
  BY <1>8, <1>11, NoSlotsIsNone DEF Ids
<1>13. AllocationTyped'
  <2>1. since' \in [Ids -> Nat]
    BY <1>4, <1>6 DEF AllocationInv, AllocationTyped
  <2>. QED
    BY <1>4, <1>6, <1>8, <1>11, <2>1 DEF AllocationInv, AllocationTyped
<1>14. DOMAIN allocation' = chosen
  BY <1>11
<1>15. \A a \in chosen : allocation'[a] = since'[a]
  BY <1>6, <1>8, <1>9, <1>10
<1>16. Cardinality(chosen) = Min({K, Cardinality(E)})
  <2>1. K \in Nat /\ Cardinality(E) \in Nat
    BY <1>7, IdsAreFinite
  <2>2. Min({K, Cardinality(E)}) = IF K <= Cardinality(E) THEN K ELSE Cardinality(E)
    <3>. HIDE DEF E
    <3>. QED
      BY <2>1, LeastOfTwo
  <2>. QED
    BY <1>5, <2>2
<1>17. SlotsAreFull'
  <2>1. Eligible(score') = E
    BY <1>6
  <2>. HIDE DEF E
  <2>. QED
    BY <1>14, <1>15, <1>16, <2>1 DEF SlotsAreFull
<1>18. ASSUME kind # "top-k-v1", compared', NEW a \in DOMAIN allocation \ DOMAIN allocation', score'[a] > 0
       PROVE  decision' - since[a] >= MinHold
  <2>1. comparable /\ allocation # NoSlots
    BY <1>6, <1>18
  <2>2. a \in Ids /\ a \notin chosen
    BY <1>10, <1>14, <1>18, <2>1
  <2>3. a \in E
    BY <1>6, <1>18, <2>2 DEF Eligible
  <2>4. ~Held(a, at)
    BY <1>5, <1>18, <2>1, <2>2, <2>3
  <2>5. allocation[a] = since[a] /\ allocation[a] \in Nat /\ MinHold \in Nat
    BY <1>10, <1>18, <2>1, AllocationAssumption
  <2>. QED
    BY <1>4, <1>6, <2>4, <2>5 DEF Held
<1>. QED
  BY <1>13, <1>17, <1>18 DEF AllocationInv

-----------------------------------------------------------------------------
(***************************************************************************)
(* The attention core, each part alone and all of MCRecords' side by side. *)
(***************************************************************************)

\* An episode lasted exactly the minutes at both ends of which its condition was seen, is new only
\* if it was seen not to hold before, can be continued while open, and is shown as it is.
THEOREM DiscoveryStaysTrue == DiscoverySpec => []DiscoveryHolds
<1>1. DiscoveryInit => DiscoveryInv
  BY DiscoveryStarts
<1>2. DiscoveryInv /\ [DiscoveryNext]_discoveryVars => DiscoveryInv'
  BY DiscoverySteps
<1>3. DiscoveryInv => DiscoveryHolds
  BY DiscoveryIsTrue
<1>. QED
  BY <1>1, <1>2, <1>3, PTL DEF DiscoverySpec

\* No report is falsely current, a family has one formal result, and the outcomes of a decision
\* are all judged by one threshold.
THEOREM SettlementStaysTrue ==
  SettlementSpec => [](NeverFalselyCurrent /\ OneFormalLook /\ OneThreshold)
<1>1. SettlementInit => SettlementInv
  BY SettlementStarts
<1>2. SettlementInv /\ [SettlementNext]_settlementVars => SettlementInv'
  BY SettlementSteps
<1>3. SettlementInv => NeverFalselyCurrent /\ OneFormalLook /\ OneThreshold
  BY SettlementIsTrue
<1>. QED
  BY <1>1, <1>2, <1>3, PTL DEF SettlementSpec

LEMMA AllocationKeeps ==
  AllocationInv /\ [AllocationNext]_allocationVars =>
    /\ AllocationInv'
    /\ [kind # "top-k-v1" /\ compared' =>
          \A a \in DOMAIN allocation \ DOMAIN allocation' :
            score'[a] > 0 => decision' - since[a] >= MinHold]_allocationVars
<1>1. ASSUME AllocationInv, UNCHANGED allocationVars
      PROVE  AllocationInv'
  BY <1>1 DEF allocationVars, AllocationInv, AllocationTyped, SlotsAreFull, Eligible
<1>. QED
  BY <1>1, AllocationSteps

\* Every policy fills as many slots as there are scored assets for, and a slot keeps the time it
\* was entered at.
THEOREM SlotsStayFull == AllocationSpec => []SlotsAreFull
<1>1. AllocationInit => AllocationInv
  BY AllocationStarts
<1>2. AllocationInv => SlotsAreFull
  BY DEF AllocationInv
<1>. QED
  BY <1>1, <1>2, AllocationKeeps, PTL DEF AllocationSpec

LEMMA AttentionStepIsTheirs ==
  ASSUME [RecordsNext]_recordsVars
  PROVE  [DiscoveryNext]_discoveryVars /\ [SettlementNext]_settlementVars
         /\ [AllocationNext]_allocationVars
<1>1. CASE UNCHANGED recordsVars
  BY <1>1 DEF recordsVars
<1>2. CASE recorder = "discovery" /\ DiscoveryNext /\ UNCHANGED <<settlementVars, allocationVars>>
  BY <1>2
<1>3. CASE recorder = "settlement" /\ SettlementNext /\ UNCHANGED <<discoveryVars, allocationVars>>
  BY <1>3
<1>4. CASE recorder = "allocation" /\ AllocationNext /\ UNCHANGED <<discoveryVars, settlementVars>>
  BY <1>4
<1>5. CASE UNCHANGED <<discoveryVars, settlementVars, allocationVars>>
  BY <1>5
<1>. QED
  BY <1>1, <1>2, <1>3, <1>4, <1>5, Zenon DEF RecordsNext

LEMMA AttentionKeeps ==
  /\ RecordsInit => DiscoveryInv /\ SettlementInv /\ AllocationInv
  /\ DiscoveryInv /\ SettlementInv /\ AllocationInv /\ [RecordsNext]_recordsVars =>
       DiscoveryInv' /\ SettlementInv' /\ AllocationInv'
<1>1. RecordsInit => DiscoveryInit /\ SettlementInit /\ AllocationInit
  BY DEF RecordsInit
<1>. QED
  BY <1>1, DiscoveryStarts, SettlementStarts, AllocationStarts, AttentionStepIsTheirs,
     DiscoverySteps, SettlementSteps, AllocationKeeps

\* What the attention core records is what happened, whichever of its parts runs.
THEOREM AttentionStaysTrue == RecordsSpec => []AttentionHolds
<1>1. DiscoveryInv /\ SettlementInv /\ AllocationInv => AttentionHolds
  BY DiscoveryIsTrue, SettlementIsTrue DEF AllocationInv, AttentionHolds
<1>. QED
  BY <1>1, AttentionKeeps, PTL DEF RecordsSpec

\* A scored asset loses its slot only after minimum_hold minutes in it.
THEOREM SlotsStayHeld == RecordsSpec => SlotsAreHeld
<1>1. [RecordsNext]_recordsVars => [AllocationNext]_allocationVars
  BY AttentionStepIsTheirs
<1>. QED
  BY <1>1, AttentionKeeps, AllocationKeeps, PTL DEF RecordsSpec, SlotsAreHeld

-----------------------------------------------------------------------------
(***************************************************************************)
(* ResearchJournal: the receipts on disk are one chain (IsChainOf), which  *)
(* the one process that has the journal open holds in memory, and each     *)
(* receipt of an observation is written after its payload.  A valid replay *)
(* knows a beginning of the chain because it refuses receipts that became  *)
(* available before their predecessors.                                    *)
(***************************************************************************)

IsChainOf(chain, those) ==
  /\ chain \in Seq(JournalReceipt)
  /\ ChainIsWhole(chain)
  /\ those = {chain[i] : i \in 1..Len(chain)}

JournalProcess ==
  [pc : {"closed", "open", "reading", "read", "published"}, chain : Seq(JournalReceipt),
   started : Nat, completed : Nat, id : Uuids \cup {NotYet}]

JournalTyped ==
  /\ wall \in Nat
  /\ writers \in [Writers -> JournalProcess]
  /\ exported # NotYet => exported \in Seq(JournalReceipt)

JournalInv ==
  /\ JournalTyped
  /\ IsChainOf(InOrder(receipts), receipts)
  /\ \A r \in receipts : r.kind = "observation" => r.id \in payloads
  /\ \A w \in Writers : writers[w].pc # "closed" => writers[w].chain = InOrder(receipts)
  /\ \A v, w \in Writers : writers[v].pc # "closed" /\ writers[w].pc # "closed" => v = w
  /\ \A w \in Writers : writers[w].pc = "published" =>
       writers[w].id \in payloads /\ writers[w].id \in Uuids

(* The receipts of a whole chain are put in order as they are in it. *)
LEMMA ChainIsInOrder ==
  ASSUME NEW chain, NEW those, IsChainOf(chain, those)
  PROVE  InOrder(those) = chain
<1> DEFINE n == Len(chain)
           under(r) == {q \in those : q.sequence < r.sequence}
<1>1. /\ n \in Nat /\ chain = [i \in 1..n |-> chain[i]]
      /\ \A i \in 1..n : chain[i].sequence = i /\ chain[i] \in those
      /\ \A r \in those : r.sequence \in 1..n /\ r = chain[r.sequence]
  <2>1. n \in Nat /\ chain = [i \in 1..n |-> chain[i]]
    BY DEF IsChainOf
  <2>2. \A i \in 1..n : chain[i].sequence = i
    BY DEF IsChainOf, ChainIsWhole
  <2>. QED
    BY <2>1, <2>2 DEF IsChainOf
<1>. HIDE DEF n
<1>2. ASSUME NEW i \in 0..n
      PROVE  /\ IsFiniteSet({chain[j] : j \in 1..i})
             /\ Cardinality({chain[j] : j \in 1..i}) = i
  <2> DEFINE S == {chain[j] : j \in 1..i}
             f == [j \in 1..i |-> chain[j]]
  <2>1. 1..i \subseteq 1..n /\ i \in Nat
    BY <1>1
  <2>2. f \in Bijection(1..i, S)
    <3>1. f \in [1..i -> S] /\ \A s \in S : \E j \in 1..i : f[j] = s
      OBVIOUS
    <3>2. \A j, k \in 1..i : f[j] = f[k] => j = k
      BY <1>1, <2>1
    <3>. HIDE DEF f, S
    <3>. QED
      BY <3>1, <3>2, Fun_IsBij DEF IsInjective, Injection, Surjection, Bijection
  <2>3. IsFiniteSet(1..i) /\ Cardinality(1..i) = i
    <3>1. 1 \in Int /\ i \in Int /\ 1 <= i + 1
      BY <2>1
    <3>. QED
      BY <2>1, <3>1, FS_Interval
  <2>. HIDE DEF f, S
  <2>4. IsFiniteSet(S) /\ Cardinality(S) = Cardinality(1..i)
    <3>1. ExistsBijection(1..i, S)
      BY <2>2 DEF ExistsBijection
    <3>. QED
      BY <2>3, <3>1, FS_Bijection
  <2>. QED
    BY <2>3, <2>4 DEF S
<1>3. Cardinality(those) = n
  <2>1. those = {chain[j] : j \in 1..n} /\ n \in 0..n
    BY <1>1 DEF IsChainOf, n
  <2>. QED
    BY <1>2, <2>1
<1>4. ASSUME NEW i \in 1..n
      PROVE  Cardinality(under(chain[i])) = i - 1
  <2>1. under(chain[i]) = {chain[j] : j \in 1..(i - 1)}
    BY <1>1
  <2>2. i - 1 \in 0..n
    BY <1>1
  <2>. QED
    BY <1>2, <2>1, <2>2
<1>5. ASSUME NEW i \in 1..n
      PROVE  (CHOOSE r \in those : Cardinality(under(r)) = i - 1) = chain[i]
  <2>1. chain[i] \in those /\ Cardinality(under(chain[i])) = i - 1
    BY <1>1, <1>4
  <2>2. ASSUME NEW r \in those, Cardinality(under(r)) = i - 1
        PROVE  r = chain[i]
    <3>1. r.sequence \in 1..n /\ r = chain[r.sequence]
      BY <1>1
    <3>2. Cardinality(under(r)) = r.sequence - 1
      BY <1>4, <3>1
    <3>3. r.sequence = i
      BY <1>1, <2>2, <3>1, <3>2
    <3>. QED
      BY <3>1, <3>3
  <2>. HIDE DEF under
  <2>. QED
    BY <2>1, <2>2
<1>6. InOrder(those) = [i \in 1..n |-> CHOOSE r \in those : Cardinality(under(r)) = i - 1]
  BY <1>3 DEF InOrder
<1>. HIDE DEF under
<1>. QED
  BY <1>1, <1>5, <1>6

(* A receipt that is added to a chain refers to the last one of it. *)
LEMMA ChainGoesOn ==
  ASSUME NEW chain, NEW those, IsChainOf(chain, those), NEW receipt \in JournalReceipt,
         receipt.sequence = Len(chain) + 1,
         receipt.previous = IF chain = <<>> THEN NotYet ELSE Last(chain).id
  PROVE  IsChainOf(Append(chain, receipt), those \cup {receipt})
         /\ InOrder(those \cup {receipt}) = Append(InOrder(those), receipt)
<1> DEFINE longer == Append(chain, receipt)
           n == Len(chain)
<1>1. /\ chain \in Seq(JournalReceipt) /\ n \in Nat /\ ChainIsWhole(chain)
      /\ those = {chain[i] : i \in 1..n}
  BY DEF IsChainOf
<1>2. /\ longer \in Seq(JournalReceipt) /\ Len(longer) = n + 1
      /\ \A i \in 1..n : longer[i] = chain[i]
      /\ longer[n + 1] = receipt
  BY <1>1
<1>3. chain = <<>> <=> n = 0
  BY <1>1, EmptySeq
<1>. HIDE DEF longer, n
<1>4. ASSUME NEW i \in 1..Len(longer)
      PROVE  /\ longer[i].sequence = i
             /\ longer[i].previous = IF i = 1 THEN NotYet ELSE longer[i - 1].id
  <2>1. CASE i \in 1..n
    <3>1. i # 1 => i - 1 \in 1..n
      BY <1>1, <2>1
    <3>. QED
      BY <1>1, <1>2, <2>1, <3>1 DEF ChainIsWhole, n
  <2>2. CASE i = n + 1
    <3>1. i # 1 => chain # <<>> /\ n \in 1..n /\ i - 1 = n
      BY <1>1, <1>3, <2>2
    <3>2. i # 1 => Last(chain) = longer[i - 1]
      BY <1>2, <3>1 DEF Last, n
    <3>3. i = 1 => chain = <<>>
      BY <1>1, <1>3, <2>2
    <3>. QED
      BY <1>2, <2>2, <3>1, <3>2, <3>3 DEF n
  <2>. QED
    BY <1>1, <1>2, <2>1, <2>2
<1>5. ChainIsWhole(longer)
  BY <1>4 DEF ChainIsWhole
<1>6. those \cup {receipt} = {longer[i] : i \in 1..Len(longer)}
  <2>1. \A i \in 1..n + 1 : i \in 1..n \/ i = n + 1
    BY <1>1
  <2>2. 1..n \subseteq 1..n + 1 /\ n + 1 \in 1..n + 1
    BY <1>1
  <2>. QED
    BY <1>1, <1>2, <2>1, <2>2
<1>7. IsChainOf(longer, those \cup {receipt})
  BY <1>2, <1>5, <1>6 DEF IsChainOf
<1>8. InOrder(those) = chain /\ InOrder(those \cup {receipt}) = longer
  BY <1>7, ChainIsInOrder
<1>. QED
  BY <1>7, <1>8 DEF longer

(* The receipt a process adds to the chain it holds. *)
IsNextOf(chain, receipt, id, of) ==
  /\ receipt \in JournalReceipt /\ receipt.id = id /\ receipt.kind = of
  /\ receipt.sequence = Len(chain) + 1
  /\ receipt.previous = IF chain = <<>> THEN NotYet ELSE Last(chain).id

LEMMA ReceiptIsTyped ==
  ASSUME NEW chain \in Seq(JournalReceipt), NEW id \in Uuids, NEW kd \in {"observation", "gap"},
         NEW started \in Nat, NEW completed \in Nat, NEW published \in Nat
  PROVE  IsNextOf(chain, ReceiptOf(chain, id, kd, started, completed, published), id, kd)
<1> DEFINE reasons == Doubts(chain, started, completed, published)
                        \cup (IF kd = "gap" THEN {"failed"} ELSE {})
           available == LaterOf(completed, published) + ClockError
           previous == IF chain = <<>> THEN NotYet ELSE Last(chain).id
           receipt == ReceiptOf(chain, id, kd, started, completed, published)
<1>1. reasons \in SUBSET {"clock", "gap", "failed"}
  BY DEF Doubts
<1>2. available \in Nat
  BY JournalAssumption DEF LaterOf
<1>3. previous \in Uuids \cup {NotYet}
  <2>1. CASE chain # <<>>
    <3>1. Len(chain) \in 1..Len(chain)
      BY <2>1, EmptySeq
    <3>2. Last(chain) \in JournalReceipt
      BY <3>1 DEF Last
    <3>. QED
      BY <2>1, <3>2 DEF JournalReceipt
  <2>. QED
    BY <2>1
<1>4. Len(chain) + 1 \in Nat
  OBVIOUS
<1>5. receipt = [id |-> id, sequence |-> Len(chain) + 1, kind |-> kd, previous |-> previous,
                 started |-> started, completed |-> completed, published |-> published,
                 availableAt |-> available, reasons |-> reasons]
  BY DEF ReceiptOf
<1>. HIDE DEF reasons, available, receipt
<1>6. receipt \in JournalReceipt
  BY <1>1, <1>2, <1>3, <1>4, <1>5 DEF JournalReceipt
<1>. QED
  BY <1>5, <1>6 DEF IsNextOf, receipt

LEMMA JournalStarts ==
  ASSUME JournalInit
  PROVE  JournalInv
<1>1. receipts = {} /\ wall = 0 /\ writers = [w \in Writers |-> ClosedJournal] /\ exported = NotYet
  BY DEF JournalInit
<1>2. IsChainOf(<<>>, receipts)
  BY <1>1, EmptySeq DEF IsChainOf, ChainIsWhole
<1>3. InOrder(receipts) = <<>>
  BY <1>2, ChainIsInOrder
<1>4. ClosedJournal \in JournalProcess /\ ClosedJournal.pc = "closed"
  BY EmptySeq DEF ClosedJournal, JournalProcess
<1>. QED
  BY <1>1, <1>2, <1>3, <1>4 DEF JournalInv, JournalTyped

(* A process goes on: its chain and the disk stay. *)
LEMMA WriterGoesOn ==
  ASSUME JournalInv, NEW w \in Writers, NEW process \in JournalProcess,
         writers' = [writers EXCEPT ![w] = process], UNCHANGED <<wall, receipts, exported>>,
         payloads \subseteq payloads',
         process.pc # "closed" =>
           process.chain = InOrder(receipts) /\ \A v \in Writers \ {w} : writers[v].pc = "closed",
         process.pc = "published" => process.id \in payloads' /\ process.id \in Uuids
  PROVE  JournalInv'
<1>1. /\ writers' \in [Writers -> JournalProcess]
      /\ \A v \in Writers : writers'[v] = IF v = w THEN process ELSE writers[v]
  BY DEF JournalInv, JournalTyped
<1>2. JournalTyped'
  BY <1>1 DEF JournalInv, JournalTyped
<1>3. InOrder(receipts)' = InOrder(receipts)
  BY DEF InOrder
<1>4. IsChainOf(InOrder(receipts), receipts)'
  BY <1>3 DEF JournalInv, IsChainOf, ChainIsWhole
<1>5. \A r \in receipts' : r.kind = "observation" => r.id \in payloads'
  BY DEF JournalInv
<1>6. \A v \in Writers : writers'[v].pc # "closed" => writers'[v].chain = InOrder(receipts)'
  BY <1>1, <1>3 DEF JournalInv
<1>7. \A u, v \in Writers : writers'[u].pc # "closed" /\ writers'[v].pc # "closed" => u = v
  BY <1>1 DEF JournalInv
<1>8. \A v \in Writers : writers'[v].pc = "published" =>
        writers'[v].id \in payloads' /\ writers'[v].id \in Uuids
  BY <1>1 DEF JournalInv
<1>. QED
  BY <1>2, <1>4, <1>5, <1>6, <1>7, <1>8 DEF JournalInv

(* A process writes the next receipt of the chain it holds. *)
LEMMA ReceiptIsAdded ==
  ASSUME JournalInv, NEW w \in Writers, writers[w].pc # "closed", NEW receipt \in JournalReceipt,
         receipt.sequence = Len(writers[w].chain) + 1,
         receipt.previous = IF writers[w].chain = <<>> THEN NotYet ELSE Last(writers[w].chain).id,
         receipt.kind = "observation" => receipt.id \in payloads,
         receipts' = receipts \cup {receipt}, UNCHANGED <<wall, payloads, exported>>,
         NEW process \in JournalProcess, writers' = [writers EXCEPT ![w] = process],
         process.pc # "published",
         process.pc # "closed" => process.chain = Append(writers[w].chain, receipt)
  PROVE  JournalInv'
<1>1. /\ writers' \in [Writers -> JournalProcess]
      /\ \A v \in Writers : writers'[v] = IF v = w THEN process ELSE writers[v]
  BY DEF JournalInv, JournalTyped
<1>2. JournalTyped'
  BY <1>1 DEF JournalInv, JournalTyped
<1>3. /\ IsChainOf(writers[w].chain, receipts) /\ writers[w].chain = InOrder(receipts)
      /\ \A v \in Writers : writers[v].pc # "closed" => v = w
  BY DEF JournalInv
<1> DEFINE rows2 == receipts \cup {receipt}
<1>4. /\ IsChainOf(Append(writers[w].chain, receipt), receipts')
      /\ InOrder(receipts') = Append(writers[w].chain, receipt)
  <2> DEFINE chain == writers[w].chain
  <2>1. /\ IsChainOf(Append(chain, receipt), rows2)
        /\ InOrder(rows2) = Append(InOrder(receipts), receipt)
    <3>1. /\ IsChainOf(chain, receipts) /\ receipt.sequence = Len(chain) + 1
          /\ receipt.previous = IF chain = <<>> THEN NotYet ELSE Last(chain).id
      BY <1>3
    <3>. HIDE DEF chain
    <3>2. /\ IsChainOf(Append(chain, receipt), receipts \cup {receipt})
          /\ InOrder(receipts \cup {receipt}) = Append(InOrder(receipts), receipt)
      BY ONLY <3>1, receipt \in JournalReceipt, ChainGoesOn
    <3>. QED
      BY <3>2
  <2>2. receipts' = rows2
    OBVIOUS
  <2>. HIDE DEF rows2
  <2>. QED
    BY <1>3, <2>1, <2>2
<1>5. \A r \in receipts' : r.kind = "observation" => r.id \in payloads'
  BY DEF JournalInv
<1>6. InOrder(receipts)' = InOrder(receipts')
  BY DEF InOrder
<1>7. \A v \in Writers : writers'[v].pc # "closed" => writers'[v].chain = InOrder(receipts')
  BY <1>1, <1>3, <1>4
<1>8. \A u, v \in Writers : writers'[u].pc # "closed" /\ writers'[v].pc # "closed" => u = v
  BY <1>1, <1>3
<1>9. \A v \in Writers : writers'[v].pc # "published"
  BY <1>1, <1>3
<1>10. IsChainOf(InOrder(receipts), receipts)'
  <2>1. IsChainOf(InOrder(receipts'), receipts')
    BY <1>4
  <2>. QED
    BY <2>1
<1>. QED
  BY <1>2, <1>5, <1>6, <1>7, <1>8, <1>9, <1>10 DEF JournalInv

LEMMA ProcessSteps ==
  ASSUME JournalInv, NEW w \in Writers,
         OpenJournal(w) \/ BeginRead(w) \/ EndRead(w) \/ PublishPayload(w) \/ CloseJournal(w)
  PROVE  JournalInv'
<1>1. writers[w] \in JournalProcess /\ wall \in Nat
  BY DEF JournalInv, JournalTyped
<1>2. \A v \in Writers : writers[w].pc # "closed" /\ v # w => writers[v].pc = "closed"
  BY DEF JournalInv
<1>3. writers[w].pc # "closed" => writers[w].chain = InOrder(receipts)
  BY DEF JournalInv
<1>4. ClosedJournal \in JournalProcess /\ ClosedJournal.pc = "closed"
  BY EmptySeq DEF ClosedJournal, JournalProcess
<1>5. CASE OpenJournal(w)
  <2> DEFINE process == [ClosedJournal EXCEPT !.pc = "open", !.started = wall, !.chain = InOrder(receipts)]
  <2>1. /\ writers' = [writers EXCEPT ![w] = process]
        /\ UNCHANGED <<wall, payloads, receipts, exported>>
        /\ \A v \in Writers : writers[v].pc = "closed"
    BY <1>5 DEF OpenJournal, JournalLocked
  <2>2. InOrder(receipts) \in Seq(JournalReceipt)
    BY DEF JournalInv, IsChainOf
  <2>3. process \in JournalProcess /\ process.pc = "open" /\ process.chain = InOrder(receipts)
    BY <1>1, <1>4, <2>2 DEF JournalProcess, ClosedJournal
  <2>. HIDE DEF process
  <2>. QED
    BY <2>1, <2>3, WriterGoesOn
<1>6. CASE BeginRead(w)
  <2> DEFINE process == [writers[w] EXCEPT !.pc = "reading", !.started = wall]
  <2>1. /\ writers' = [writers EXCEPT ![w] = process] /\ writers[w].pc = "open"
        /\ UNCHANGED <<wall, payloads, receipts, exported>>
    BY <1>6 DEF BeginRead, JournalInv, JournalTyped
  <2>2. process \in JournalProcess /\ process.pc = "reading" /\ process.chain = writers[w].chain
    BY <1>1 DEF JournalProcess
  <2>. HIDE DEF process
  <2>. QED
    BY <1>2, <1>3, <2>1, <2>2, WriterGoesOn
<1>7. CASE EndRead(w)
  <2> DEFINE process == [writers[w] EXCEPT !.pc = "read", !.completed = wall]
  <2>1. /\ writers' = [writers EXCEPT ![w] = process] /\ writers[w].pc = "reading"
        /\ UNCHANGED <<wall, payloads, receipts, exported>>
    BY <1>7 DEF EndRead, JournalInv, JournalTyped
  <2>2. process \in JournalProcess /\ process.pc = "read" /\ process.chain = writers[w].chain
    BY <1>1 DEF JournalProcess
  <2>. HIDE DEF process
  <2>. QED
    BY <1>2, <1>3, <2>1, <2>2, WriterGoesOn
<1>8. CASE PublishPayload(w)
  <2> DEFINE process == [writers[w] EXCEPT !.pc = "published", !.id = FreshId]
  <2>1. /\ writers' = [writers EXCEPT ![w] = process] /\ writers[w].pc = "read"
        /\ UNCHANGED <<wall, receipts, exported>> /\ payloads' = payloads \cup {FreshId}
        /\ FreshIds # {}
    BY <1>8 DEF PublishPayload, JournalInv, JournalTyped
  <2>2. FreshId \in Uuids
    BY <2>1 DEF FreshId, FreshIds
  <2>3. /\ process \in JournalProcess /\ process.pc = "published"
        /\ process.chain = writers[w].chain /\ process.id = FreshId
    BY <1>1, <2>2 DEF JournalProcess
  <2>. HIDE DEF process
  <2>. QED
    BY <1>2, <1>3, <2>1, <2>2, <2>3, WriterGoesOn
<1>9. CASE CloseJournal(w)
  <2>1. /\ writers' = [writers EXCEPT ![w] = ClosedJournal]
        /\ UNCHANGED <<wall, payloads, receipts, exported>>
    BY <1>9 DEF CloseJournal
  <2>. QED
    BY <1>4, <2>1, WriterGoesOn
<1>. QED
  BY <1>5, <1>6, <1>7, <1>8, <1>9

LEMMA ReceiptSteps ==
  ASSUME JournalInv, NEW w \in Writers, PublishReceipt(w) \/ RecordFailure(w)
  PROVE  JournalInv'
<1> DEFINE chain == writers[w].chain
<1>1. writers[w] \in JournalProcess /\ wall \in Nat
  BY DEF JournalInv, JournalTyped
<1>2. /\ chain \in Seq(JournalReceipt) /\ writers[w].started \in Nat /\ writers[w].completed \in Nat
  BY <1>1 DEF JournalProcess
<1>3. ClosedJournal \in JournalProcess /\ ClosedJournal.pc = "closed"
  BY EmptySeq DEF ClosedJournal, JournalProcess
<1>4. CASE PublishReceipt(w)
  <2> DEFINE receipt == ReceiptOf(chain, writers[w].id, "observation", writers[w].started,
                                  writers[w].completed, wall)
             process == [ClosedJournal EXCEPT !.pc = "open", !.started = writers[w].started,
                                             !.chain = Append(chain, receipt)]
  <2>1. /\ receipts' = receipts \cup {receipt} /\ writers' = [writers EXCEPT ![w] = process]
        /\ UNCHANGED <<wall, payloads, exported>> /\ writers[w].pc = "published"
    BY <1>4 DEF PublishReceipt, AppendReceipt
  <2>2. writers[w].id \in Uuids /\ writers[w].id \in payloads
    BY <2>1 DEF JournalInv
  <2>3. /\ receipt \in JournalReceipt /\ receipt.id = writers[w].id
        /\ receipt.sequence = Len(chain) + 1
        /\ receipt.previous = IF chain = <<>> THEN NotYet ELSE Last(chain).id
    <3>1. IsNextOf(chain, receipt, writers[w].id, "observation")
      <4>. HIDE DEF chain
      <4>. QED
        BY <1>1, <1>2, <2>2, ReceiptIsTyped
    <3>. HIDE DEF chain, receipt
    <3>. QED
      BY <3>1 DEF IsNextOf
  <2>. HIDE DEF receipt
  <2>4. process \in JournalProcess /\ process.pc = "open" /\ process.chain = Append(chain, receipt)
    <3>1. Append(chain, receipt) \in Seq(JournalReceipt)
      BY <1>2, <2>3
    <3> DEFINE longer == Append(chain, receipt)
    <3>. HIDE DEF longer, chain
    <3>. QED
      BY <1>2, <1>3, <3>1 DEF JournalProcess, ClosedJournal, longer
  <2>. HIDE DEF process
  <2>. QED
    BY <2>1, <2>2, <2>3, <2>4, ReceiptIsAdded
<1>5. CASE RecordFailure(w)
  <2> DEFINE receipt == ReceiptOf(chain, FreshId, "gap", writers[w].started, wall, wall)
  <2>1. /\ receipts' = receipts \cup {receipt} /\ writers' = [writers EXCEPT ![w] = ClosedJournal]
        /\ UNCHANGED <<wall, payloads, exported>> /\ writers[w].pc # "closed" /\ FreshIds # {}
    BY <1>5 DEF RecordFailure
  <2>2. FreshId \in Uuids
    BY <2>1 DEF FreshId, FreshIds
  <2>3. /\ receipt \in JournalReceipt /\ receipt.kind = "gap"
        /\ receipt.sequence = Len(chain) + 1
        /\ receipt.previous = IF chain = <<>> THEN NotYet ELSE Last(chain).id
    <3>1. IsNextOf(chain, receipt, FreshId, "gap")
      <4>. HIDE DEF chain
      <4>. QED
        BY <1>1, <1>2, <2>2, ReceiptIsTyped
    <3>. HIDE DEF chain, receipt
    <3>. QED
      BY <3>1 DEF IsNextOf
  <2>. HIDE DEF receipt
  <2>. QED
    BY <1>3, <2>1, <2>3, ReceiptIsAdded
<1>. QED
  BY <1>4, <1>5

LEMMA JournalSteps ==
  ASSUME JournalInv, JournalNext \/ UNCHANGED journalVars
  PROVE  JournalInv'
<1>1. CASE \E w \in Writers :
             OpenJournal(w) \/ BeginRead(w) \/ EndRead(w) \/ PublishPayload(w) \/ CloseJournal(w)
  BY <1>1, ProcessSteps
<1>2. CASE \E w \in Writers : PublishReceipt(w) \/ RecordFailure(w)
  BY <1>2, ReceiptSteps
<1>3. CASE ExportSnapshot \/ SetWallClock \/ UNCHANGED journalVars
  <2>1. UNCHANGED <<writers, payloads, receipts>>
    BY <1>3 DEF ExportSnapshot, SetWallClock, journalVars
  <2>2. wall' \in Nat
    <3>1. CASE SetWallClock
      BY <3>1, JournalAssumption DEF SetWallClock
    <3>. QED
      BY <1>3, <3>1 DEF ExportSnapshot, journalVars, JournalInv, JournalTyped
  <2>3. exported' # NotYet => exported' \in Seq(JournalReceipt)
    BY <1>3 DEF ExportSnapshot, SetWallClock, journalVars, JournalInv, JournalTyped, IsChainOf
  <2>4. JournalTyped'
    BY <2>1, <2>2, <2>3 DEF JournalInv, JournalTyped
  <2>5. InOrder(receipts)' = InOrder(receipts)
    BY <2>1 DEF InOrder
  <2>. QED
    BY <2>1, <2>4, <2>5 DEF JournalInv, IsChainOf, ChainIsWhole
<1>. QED
  BY <1>1, <1>2, <1>3 DEF JournalNext

(* Of a valid replay each receipt known is known with the one before it. *)
LEMMA JournalIsTrue ==
  ASSUME JournalInv
  PROVE  JournalHolds
<1>1. ReceiptsAreAChain
  BY DEF ReceiptsAreAChain, JournalInv, IsChainOf
<1>2. KnowledgeGrows
  <2>1. SUFFICES ASSUME exported # NotYet, NEW cutoff \in 0..MaxTime + ClockError,
                        ReplayValid(exported, cutoff)
                 PROVE  KnownAt(exported, cutoff) = 1..Cardinality(KnownAt(exported, cutoff))
    BY DEF KnowledgeGrows
  <2> DEFINE n == Len(exported)
             known == KnownAt(exported, cutoff)
             issued(i) == ReplayIssues(exported, i)
  <2>2. /\ exported \in Seq(JournalReceipt) /\ n \in Nat /\ cutoff \in Nat
        /\ \A i \in 1..n : exported[i].availableAt \in Nat
    <3>1. exported \in Seq(JournalReceipt)
      BY <2>1 DEF JournalInv, JournalTyped
    <3>2. n \in Nat /\ cutoff \in Nat
      BY <3>1, JournalAssumption
    <3>3. \A i \in 1..n : exported[i] \in JournalReceipt
      BY <3>1
    <3>. QED
      BY <3>1, <3>2, <3>3 DEF JournalReceipt
  <2>3. known \subseteq 1..n /\ \A i \in 1..n : i \in known <=> exported[i].availableAt <= cutoff
    BY DEF KnownAt
  <2>4. \A i \in known : "clock" \notin issued(i)
    BY <2>1 DEF ReplayValid, ReasonsAt
  <2>5. ASSUME NEW i \in known, i > 1
        PROVE  i - 1 \in known
    <3>1. ~(exported[i].availableAt < exported[i - 1].availableAt)
      BY <2>4, <2>5 DEF ReplayIssues
    <3>2. i \in 1..n /\ i - 1 \in 1..n /\ exported[i].availableAt <= cutoff
      BY <2>2, <2>3, <2>5
    <3>. QED
      BY <2>2, <2>3, <3>1, <3>2
  <2>6. known # {}
    BY <2>1 DEF ReplayValid
  <2>. HIDE DEF n, known, issued
  <2> DEFINE m == Max(known)
  <2>7. m \in known /\ \A i \in known : m >= i
    BY <2>2, <2>3, <2>6, MaxOfIndices
  <2>. HIDE DEF m
  <2>8. m \in 1..n /\ m \in Nat
    <3>1. m \in 1..n
      BY <2>3, <2>7
    <3>. QED
      BY <2>2, <3>1
  <2> DEFINE T == {k \in 0..(m - 1) : m - k \in known}
  <2>9. 0 \in T
    BY <2>7, <2>8
  <2>10. \A k \in 0..((m - 1) - 1) : k \in T => k + 1 \in T
    <3>1. SUFFICES ASSUME NEW k \in 0..((m - 1) - 1), m - k \in known
                   PROVE  k + 1 \in 0..(m - 1) /\ m - (k + 1) \in known
      OBVIOUS
    <3>2. m - k > 1 /\ (m - k) - 1 = m - (k + 1) /\ k + 1 \in 0..(m - 1)
      BY <2>8
    <3>. QED
      BY <2>5, <3>1, <3>2
  <2>11. \A k \in 0..(m - 1) : k \in T
    <3>1. m - 1 \in Nat
      BY <2>8
    <3>. HIDE DEF T
    <3>. QED
      BY <2>9, <2>10, <3>1, StepByStep
  <2>12. \A i \in 1..m : i \in known
    <3>1. SUFFICES ASSUME NEW i \in 1..m PROVE i \in known
      OBVIOUS
    <3>2. m - i \in 0..(m - 1) /\ m - (m - i) = i
      BY <2>8
    <3>. QED
      BY <2>11, <3>2
  <2>13. known = 1..m
    <3>1. \A i \in known : i \in 1..n /\ m >= i
      BY <2>3, <2>7
    <3>2. \A i \in known : i \in 1..m
      BY <2>2, <2>8, <3>1
    <3>. QED
      BY <2>12, <3>2
  <2>14. Cardinality(1..m) = m
    <3>1. 1 \in Int /\ m \in Int
      BY <2>8
    <3>. QED
      BY <2>8, <3>1, FS_Interval
  <2>. QED
    BY <2>13, <2>14 DEF known
<1>. QED
  BY <1>1, <1>2 DEF JournalHolds

-----------------------------------------------------------------------------
(***************************************************************************)
(* ResearchTrial: the replay of an A/B comparison.  Observations come in   *)
(* the order of their times (TrialInv), so what was known at a time does   *)
(* not change with a later one.  The episodes are found one decision after *)
(* the other, and what is reserved lies behind the end of each             *)
(* (IsSeparate); an arm's cash is its capital and what its splits earned   *)
(* (ArmSet), whatever was rejected or stays open.                          *)
(***************************************************************************)

RowSet == [at : Nat, bucket : Int, price : Nat \ {0}, oi : Nat]

IsTrace(trace) ==
  /\ trace \in Seq(RowSet)
  /\ \A i \in DOMAIN trace : trace[i].at = i /\ trace[i].bucket <= i

TrialInv == IsTrace(observations) /\ Len(observations) >= 1

PriceSet == [at : Nat, priceAt : Int, price : Nat \ {0}]

ArePrices(prices) ==
  /\ prices \in [DOMAIN prices -> PriceSet]
  /\ \E n \in Nat : DOMAIN prices \in SUBSET (1..n)
  /\ \A i \in DOMAIN prices : prices[i].at = i /\ prices[i].priceAt <= i

(* Some of the numbers 1..n have a minimum. *)
LEMMA MinOfIndices ==
  ASSUME NEW n \in Nat, NEW T \in SUBSET (1..n), T # {}
  PROVE  Min(T) \in T /\ \A y \in T : Min(T) <= y
<1>1. T \in SUBSET Nat
  OBVIOUS
<1>2. PICK m \in T : \A y \in T : m <= y
  BY ONLY T # {}, <1>1, LeastExists, Zenon
<1>. QED
  BY <1>2 DEF Min

LEMMA TraceIsTyped ==
  ASSUME NEW trace, IsTrace(trace)
  PROVE  /\ Len(trace) \in Nat /\ DOMAIN trace = 1..Len(trace)
         /\ \A i \in DOMAIN trace : trace[i] \in RowSet /\ i \in Nat
BY DEF IsTrace

(* The newest bucket known at an observation is one of those known. *)
LEMMA NewestIsKnown ==
  ASSUME NEW trace, IsTrace(trace), NEW i \in DOMAIN trace
  PROVE  /\ NewestBucket(trace, i) \in KnownBuckets(trace, trace[i].at)
         /\ NewestBucket(trace, i) \in Int
<1> DEFINE T == KnownBuckets(trace, trace[i].at)
<1>1. i \in Nat /\ trace[i].at = i
  BY TraceIsTyped DEF IsTrace
<1>2. T \in SUBSET Int /\ \A b \in T : b <= i
  <2>1. SUFFICES ASSUME NEW b \in T PROVE b \in Int /\ b <= i
    OBVIOUS
  <2>2. PICK j \in DOMAIN trace : b = trace[j].bucket /\ trace[j].at <= i
    BY <1>1 DEF KnownBuckets
  <2>3. trace[j] \in RowSet /\ trace[j].at = j /\ trace[j].bucket <= j /\ j \in Nat
    BY TraceIsTyped DEF IsTrace
  <2>. QED
    BY <1>1, <2>2, <2>3 DEF RowSet
<1>3. T # {}
  <2>1. trace[i].at <= trace[i].at
    BY <1>1
  <2>2. trace[i].bucket \in T
    BY <2>1 DEF KnownBuckets
  <2>. QED
    BY <2>2
<1>. HIDE DEF T
<1>4. Max(T) \in T
  <2>1. i \in Int
    BY <1>1
  <2>. QED
    BY ONLY <2>1, <1>2, <1>3, MaxOfBounded
<1>. QED
  BY <1>2, <1>4 DEF NewestBucket, T

LEMMA KnownRowIsARow ==
  ASSUME NEW trace, IsTrace(trace), NEW at, NEW bucket \in KnownBuckets(trace, at)
  PROVE  KnownRow(trace, at, bucket) \in RowSet
<1> DEFINE T == {j \in DOMAIN trace : trace[j].at <= at /\ trace[j].bucket = bucket}
           n == Len(trace)
<1>1. n \in Nat /\ T \in SUBSET (1..n)
  BY TraceIsTyped
<1>2. T # {}
  BY DEF KnownBuckets
<1>3. Max(T) \in T
  <2>. HIDE DEF T, n
  <2>. QED
    BY ONLY <1>1, <1>2, MaxOfIndices
<1>4. Max(T) \in DOMAIN trace
  BY <1>3
<1>. HIDE DEF T
<1>5. trace[Max(T)] \in RowSet
  BY <1>4, TraceIsTyped
<1>. QED
  BY <1>5 DEF KnownRow, T

LEMMA PricesAreMarks ==
  ASSUME NEW trace, IsTrace(trace)
  PROVE  ArePrices(PricesOf(trace)) /\ DOMAIN PricesOf(trace) \in SUBSET (1..Len(trace))
<1> DEFINE marks == [i \in DOMAIN trace |-> PriceEvent(trace, i)]
           T == {j \in DOMAIN trace : marks[j].priceAt <= marks[j].at}
<1>1. \A i \in DOMAIN trace : PriceEvent(trace, i) \in PriceSet /\ PriceEvent(trace, i).at = i
  <2>1. SUFFICES ASSUME NEW i \in DOMAIN trace
                 PROVE  PriceEvent(trace, i) \in PriceSet /\ PriceEvent(trace, i).at = i
    OBVIOUS
  <2> DEFINE at == trace[i].at
             bucket == NewestBucket(trace, i)
             row == KnownRow(trace, at, bucket)
  <2>2. at = i /\ i \in Nat
    BY TraceIsTyped DEF IsTrace
  <2>3. bucket \in Int /\ bucket \in KnownBuckets(trace, at)
    BY NewestIsKnown
  <2>4. row \in RowSet
    <3>. HIDE DEF at, bucket
    <3>. QED
      BY <2>3, KnownRowIsARow
  <2>5. PriceEvent(trace, i) = [at |-> at, priceAt |-> bucket + 1, price |-> row.price]
    BY DEF PriceEvent, NewestBucket
  <2>. HIDE DEF at, bucket, row
  <2>. QED
    BY <2>2, <2>3, <2>4, <2>5 DEF PriceSet, RowSet
<1>2. PricesOf(trace) = [i \in T |-> marks[i]]
  BY DEF PricesOf
<1>3. \A i \in T : marks[i] = PriceEvent(trace, i) /\ i \in DOMAIN trace /\ marks[i].priceAt <= marks[i].at
  OBVIOUS
<1>4. T \in SUBSET (1..Len(trace)) /\ Len(trace) \in Nat
  BY TraceIsTyped
<1>. HIDE DEF marks, T
<1>5. DOMAIN PricesOf(trace) = T /\ \A i \in T : PricesOf(trace)[i] \in PriceSet
        /\ PricesOf(trace)[i].at = i /\ PricesOf(trace)[i].priceAt <= i
  BY <1>1, <1>2, <1>3
<1>6. PricesOf(trace) \in [T -> PriceSet]
  BY <1>1, <1>2, <1>3
<1>. QED
  BY <1>4, <1>5, <1>6 DEF ArePrices

(* The first of some prices is one of them, or there is none. *)
LEMMA FirstIsOne ==
  ASSUME NEW prices, ArePrices(prices), NEW found \in SUBSET (DOMAIN prices)
  PROVE  FirstPrice(prices, found) # Never => 
           \E i \in found : FirstPrice(prices, found) = prices[i] /\ prices[i] \in PriceSet
<1>1. SUFFICES ASSUME FirstPrice(prices, found) # Never
               PROVE  \E i \in found : FirstPrice(prices, found) = prices[i] /\ prices[i] \in PriceSet
  OBVIOUS
<1>2. found # {} /\ FirstPrice(prices, found) = prices[Min(found)]
  BY <1>1 DEF FirstPrice
<1>3. PICK n \in Nat : DOMAIN prices \in SUBSET (1..n)
  BY DEF ArePrices
<1>4. found \in SUBSET (1..n)
  BY <1>3
<1>5. Min(found) \in found
  BY ONLY <1>2, <1>4, MinOfIndices
<1>6. prices[Min(found)] \in PriceSet
  BY <1>5 DEF ArePrices
<1>. QED
  BY <1>2, <1>5, <1>6

LEMMA LastIsLast ==
  ASSUME NEW prices, ArePrices(prices), DOMAIN prices # {}
  PROVE  LastPrice(prices) \in PriceSet /\ \A i \in DOMAIN prices : i <= LastPrice(prices).at
<1> DEFINE T == DOMAIN prices
<1>1. PICK n \in Nat : T \in SUBSET (1..n)
  BY DEF ArePrices
<1>2. Max(T) \in T /\ \A y \in T : Max(T) >= y
  <2>. HIDE DEF T
  <2>1. T # {}
    BY DEF T
  <2>. QED
    BY ONLY <1>1, <2>1, MaxOfIndices
<1>. HIDE DEF T
<1>3. prices[Max(T)] \in PriceSet /\ prices[Max(T)].at = Max(T)
  BY <1>2 DEF ArePrices, T
<1>4. \A y \in T : y <= Max(T)
  <2>1. SUFFICES ASSUME NEW y \in T PROVE y <= Max(T)
    OBVIOUS
  <2>2. y \in Nat /\ Max(T) \in Nat
    <3>1. \A z \in T : z \in Nat
      BY <1>1
    <3>. QED
      BY <1>2, <3>1, Zenon
  <2>3. Max(T) >= y
    BY <1>2
  <2>. QED
    BY <2>2, <2>3
<1>. QED
  BY <1>3, <1>4 DEF LastPrice, T


-----------------------------------------------------------------------------
(* Episodes *)

DecisionSet == {d \in [at : Nat, bucket : Int, split : Splits, eligible : BOOLEAN,
                       signalA : BOOLEAN, signalB : BOOLEAN] :
                  d.at < StudyEnd /\ Boundary(d.at) <= StudyEnd}

EpisodeSet == [decision : DecisionSet, entry : PriceSet, exit : PriceSet \cup {Never}, finalAt : Nat]

IsEpisode(prices, e) ==
  /\ e.decision.at < e.entry.priceAt /\ e.entry.at < Boundary(e.decision.at)
  /\ e.exit # Never =>
       /\ e.entry.at + Holding <= e.exit.priceAt
       /\ e.exit.at < Boundary(e.decision.at)
  /\ e.entry.at <= e.finalAt
  /\ e.exit # Never => e.exit \in PriceSet
  /\ \A at \in SettlementsIn(e.entry.at, e.finalAt) : PricesBy(prices, at) # {}

IsSeparate(prices, state) ==
  /\ \A i \in DOMAIN state.episodes :
       LET e == state.episodes[i] IN
       /\ IsEpisode(prices, e)
       /\ state.reserved # Never
       /\ IF e.exit = Never THEN state.reserved = StudyEnd ELSE e.exit.at <= state.reserved
       /\ \A j \in i + 1..Len(state.episodes) :
            e.exit # Never /\ e.exit.at < state.episodes[j].decision.at

StateSet(prices) ==
  {state \in [episodes : Seq(EpisodeSet), reserved : Nat \cup {Never}] : IsSeparate(prices, state)}

LEMMA BoundaryIsASplitsEnd ==
  ASSUME NEW at \in Nat
  PROVE  Boundary(at) \in Nat /\ Boundary(at) <= StudyEnd /\ SplitOf(at) \in Splits
<1>1. /\ TrainEnd \in Nat /\ ValidationEnd \in Nat /\ StudyEnd \in Nat
      /\ TrainEnd < ValidationEnd /\ ValidationEnd < StudyEnd
  BY TrialAssumption
<1>2. CASE at < TrainEnd
  BY <1>1, <1>2 DEF Boundary, SplitOf, Splits
<1>3. CASE at >= TrainEnd /\ at < ValidationEnd
  BY <1>1, <1>3 DEF Boundary, SplitOf, Splits
<1>4. CASE at >= ValidationEnd
  BY <1>1, <1>4 DEF Boundary, SplitOf, Splits
<1>. QED
  BY <1>1, <1>2, <1>3, <1>4

LEMMA DecisionsAreTyped ==
  ASSUME NEW trace, IsTrace(trace), NEW i \in InStudy(trace)
  PROVE  DecisionOf(trace, i) \in DecisionSet
<1> DEFINE at == trace[i].at
           bucket == NewestBucket(trace, i)
           complete == bucket - 1 \in KnownBuckets(trace, at) /\ bucket + 1 <= at
           newest == KnownRow(trace, at, bucket)
           before == KnownRow(trace, at, bucket - 1)
           eligible == complete /\ at + Holding < Boundary(at)
           signalA == complete /\ newest.price > before.price
           signalB == complete /\ newest.price > before.price /\ newest.oi > before.oi
<1>1. i \in DOMAIN trace /\ at \in Nat /\ at < StudyEnd
  BY TraceIsTyped DEF RowSet, InStudy
<1>2. bucket \in Int
  BY <1>1, NewestIsKnown
<1>3. DecisionOf(trace, i) = [at |-> at, bucket |-> bucket, split |-> SplitOf(at),
        eligible |-> eligible, signalA |-> signalA, signalB |-> signalB]
  BY DEF DecisionOf
<1>4. eligible \in BOOLEAN /\ signalA \in BOOLEAN /\ signalB \in BOOLEAN
  OBVIOUS
<1>. HIDE DEF at, bucket, eligible, signalA, signalB
<1>5. SplitOf(at) \in Splits /\ Boundary(at) <= StudyEnd
  BY <1>1, BoundaryIsASplitsEnd
<1>. QED
  BY <1>1, <1>2, <1>3, <1>4, <1>5 DEF DecisionSet

(* A decision adds an episode behind what is reserved, or nothing. *)
LEMMA ConsiderKeeps ==
  ASSUME NEW prices, ArePrices(prices), NEW state \in StateSet(prices), NEW d \in DecisionSet
  PROVE  Consider(prices, state, d) \in StateSet(prices)
<1> DEFINE entry == FirstPrice(prices, EntryPrices(prices, d))
           target == entry.at + Holding
           exit == FirstPrice(prices, ExitPrices(prices, target))
           finalAt == IF exit = Never THEN LastPrice(prices).at ELSE exit.at
           free == state.reserved = Never \/ d.at > state.reserved
           purged == \/ entry.at >= Boundary(d.at)
                     \/ target >= Boundary(d.at)
                     \/ exit # Never /\ exit.at >= Boundary(d.at)
           funded == \A at \in SettlementsIn(entry.at, finalAt) :
                       at \in FundingRows /\ PricesBy(prices, at) # {}
           e == [decision |-> d, entry |-> entry, exit |-> exit, finalAt |-> finalAt]
           reserved == IF exit = Never THEN StudyEnd ELSE exit.at
           next == [episodes |-> Append(state.episodes, e), reserved |-> reserved]
<1>1. Consider(prices, state, d) =
        IF d.eligible /\ d.signalA /\ free /\ entry # Never /\ ~purged /\ funded THEN next ELSE state
  BY DEF Consider
<1>2. SUFFICES ASSUME free, entry # Never, ~purged, funded
               PROVE  next \in StateSet(prices)
  BY <1>1
<1>3. /\ StudyEnd \in Nat /\ Holding \in Nat /\ Holding > 0 /\ Never \notin Int
      /\ d.at \in Nat /\ d.at < StudyEnd
      /\ Boundary(d.at) \in Nat /\ Boundary(d.at) <= StudyEnd
  BY TrialAssumption, NeverIsNone, BoundaryIsASplitsEnd DEF DecisionSet
<1>4. PICK i \in EntryPrices(prices, d) : entry = prices[i] /\ prices[i] \in PriceSet
  <2>1. EntryPrices(prices, d) \in SUBSET (DOMAIN prices)
    BY DEF EntryPrices
  <2>. QED
    BY <1>2, <2>1, FirstIsOne
<1>5. /\ entry \in PriceSet /\ entry.at > d.at /\ entry.priceAt > d.at
      /\ i \in DOMAIN prices /\ entry.at = i /\ entry.at \in Nat /\ entry.priceAt \in Int
      /\ entry.priceAt <= entry.at
  BY <1>4 DEF EntryPrices, ArePrices, PriceSet
<1>. HIDE DEF entry
<1>6. target \in Nat /\ target = entry.at + Holding
  BY <1>3, <1>5
<1>. HIDE DEF target
<1>7. exit # Never => /\ exit \in PriceSet /\ exit.at >= target /\ exit.priceAt >= target
                      /\ exit.at \in Nat /\ exit.priceAt \in Int
  <2>1. SUFFICES ASSUME exit # Never
                 PROVE  /\ exit \in PriceSet /\ exit.at >= target /\ exit.priceAt >= target
                        /\ exit.at \in Nat /\ exit.priceAt \in Int
    OBVIOUS
  <2>2. ExitPrices(prices, target) \in SUBSET (DOMAIN prices)
    BY DEF ExitPrices
  <2>3. PICK k \in ExitPrices(prices, target) : exit = prices[k] /\ prices[k] \in PriceSet
    BY <2>1, <2>2, FirstIsOne
  <2>. QED
    BY <2>3 DEF ExitPrices, PriceSet
<1>. HIDE DEF exit
<1>8. finalAt \in Nat /\ entry.at <= finalAt
  <2>1. CASE exit = Never
    <3>1. DOMAIN prices # {}
      BY <1>5
    <3>2. LastPrice(prices) \in PriceSet /\ i <= LastPrice(prices).at
      BY <1>5, <3>1, LastIsLast
    <3>. QED
      BY <1>5, <2>1, <3>2 DEF PriceSet
  <2>2. CASE exit # Never
    BY <1>3, <1>5, <1>6, <1>7, <2>2
  <2>. QED
    BY <2>1, <2>2
<1>9. /\ \A at \in SettlementsIn(entry.at, finalAt) : PricesBy(prices, at) # {}
      /\ entry.at < Boundary(d.at)
      /\ exit # Never => exit.at < Boundary(d.at)
  BY <1>2, <1>3, <1>5, <1>7
<1>10. e \in EpisodeSet
  BY <1>5, <1>7, <1>8 DEF EpisodeSet
<1>11. /\ e.decision = d /\ e.entry = entry /\ e.exit = exit /\ e.finalAt = finalAt
  OBVIOUS
<1>. HIDE DEF e, finalAt, free, purged, funded
<1>12. IsEpisode(prices, e)
  BY <1>5, <1>6, <1>7, <1>8, <1>9, <1>11 DEF IsEpisode
<1>13. /\ reserved \in Nat /\ reserved # Never
       /\ IF exit = Never THEN reserved = StudyEnd ELSE exit.at <= reserved
  BY <1>3, <1>7
<1> DEFINE old == state.episodes
           n == Len(old)
<1>14. /\ state.episodes \in Seq(EpisodeSet) /\ state.reserved \in Nat \cup {Never}
       /\ IsSeparate(prices, state)
  BY DEF StateSet
<1>15. n \in Nat /\ DOMAIN old = 1..n /\ \A k \in 1..n : old[k] \in EpisodeSet
  BY <1>14
<1>16. \A k \in 1..n : /\ old[k].exit # Never
                        /\ old[k].exit.at < d.at /\ old[k].exit.at <= reserved
  <2>1. SUFFICES ASSUME NEW k \in 1..n
                 PROVE  /\ old[k].exit # Never
                        /\ old[k].exit.at < d.at /\ old[k].exit.at <= reserved
    OBVIOUS
  <2>2. /\ state.reserved # Never /\ IsEpisode(prices, old[k])
        /\ IF old[k].exit = Never THEN state.reserved = StudyEnd
           ELSE old[k].exit.at <= state.reserved
    BY <1>14, <1>15, <2>1 DEF IsSeparate
  <2>3. d.at > state.reserved /\ state.reserved \in Nat
    BY <1>2, <1>14, <2>2 DEF free
  <2>4. old[k].exit # Never
    BY <1>3, <2>2, <2>3
  <2>5. old[k].exit.at \in Nat
    BY <2>2, <2>4 DEF IsEpisode, PriceSet
  <2>6. old[k].exit.at < d.at
    BY <1>3, <2>2, <2>5, <2>3, <2>4
  <2>7. old[k].exit.at <= reserved
    <3>1. CASE exit = Never
      <4>1. old[k].decision \in DecisionSet /\ old[k].exit.at < Boundary(old[k].decision.at)
        BY <1>15, <2>1, <2>2, <2>4 DEF EpisodeSet, IsEpisode
      <4>2. old[k].decision.at \in Nat
        BY <4>1 DEF DecisionSet
      <4>3. Boundary(old[k].decision.at) \in Nat /\ Boundary(old[k].decision.at) <= StudyEnd
        BY <4>2, BoundaryIsASplitsEnd
      <4>. QED
        BY <1>3, <2>5, <3>1, <4>1, <4>3
    <3>2. CASE exit # Never
      <4>1. reserved = exit.at /\ exit.at \in Nat /\ exit.at >= entry.at + Holding
        BY <1>6, <1>7, <3>2
      <4>2. old[k].exit.at < entry.at
        BY <1>3, <1>5, <2>5, <2>6
      <4>. HIDE DEF reserved
      <4>. QED
        BY <1>3, <1>5, <2>5, <4>1, <4>2
    <3>. QED
      BY <3>1, <3>2
  <2>. QED
    BY <2>6, <2>7, <2>4
<1>. HIDE DEF reserved
<1> DEFINE new == Append(old, e)
<1>17. /\ new \in Seq(EpisodeSet) /\ Len(new) = n + 1 /\ DOMAIN new = 1..(n + 1)
       /\ new[n + 1] = e /\ \A k \in 1..n : new[k] = old[k]
  BY <1>10, <1>14
<1>18. next.episodes = new /\ next.reserved = reserved
       /\ next \in [episodes : Seq(EpisodeSet), reserved : Nat \cup {Never}]
  BY <1>13, <1>17
<1>. HIDE DEF new, next, old, n
<1>19. ASSUME NEW k \in 1..(n + 1)
       PROVE  /\ IsEpisode(prices, new[k])
              /\ reserved # Never
              /\ IF new[k].exit = Never THEN reserved = StudyEnd ELSE new[k].exit.at <= reserved
              /\ \A j \in k + 1..(n + 1) : new[k].exit # Never /\ new[k].exit.at < new[j].decision.at
  <2>1. CASE k = n + 1
    <3>1. \A j \in k + 1..(n + 1) : FALSE
      BY <1>15, <2>1
    <3>2. new[k] = e /\ e.exit = exit
      BY <1>11, <1>17, <2>1
    <3>. QED
      BY <1>12, <1>13, <3>1, <3>2
  <2>2. CASE k # n + 1
    <3>1. k \in 1..n /\ new[k] = old[k]
      BY <1>15, <1>17, <2>2
    <3>2. /\ IsEpisode(prices, old[k])
          /\ \A j \in k + 1..n : old[k].exit # Never /\ old[k].exit.at < old[j].decision.at
      BY <1>14, <1>15, <3>1 DEF IsSeparate, old, n
    <3>3. \A j \in k + 1..(n + 1) : (j = n + 1 /\ new[j].decision = d) \/ (j \in k + 1..n /\ new[j] = old[j])
      <4>1. \A j \in k + 1..(n + 1) : j = n + 1 \/ (j \in k + 1..n /\ j \in 1..n)
        BY <1>15, <3>1
      <4>. QED
        BY <1>11, <1>17, <4>1
    <3>4. \A j \in k + 1..(n + 1) : new[k].exit # Never /\ new[k].exit.at < new[j].decision.at
      BY <1>16, <3>1, <3>2, <3>3
    <3>. QED
      BY <1>13, <1>16, <3>1, <3>2, <3>4
  <2>. QED
    BY <2>1, <2>2
<1>20. IsSeparate(prices, next)
  BY <1>17, <1>18, <1>19 DEF IsSeparate
<1>. QED
  BY <1>18, <1>20 DEF StateSet


(* The decisions of a trace, one after the other, leave episodes that are separate. *)
LEMMA EpisodesAreFound ==
  ASSUME NEW trace, IsTrace(trace)
  PROVE  \E state \in StateSet(PricesOf(trace)) : Episodes(trace) = state.episodes
<1> DEFINE prices == PricesOf(trace)
           decisions == Decisions(trace)
           n == Len(trace)
           S == StateSet(prices)
           start == [episodes |-> <<>>, reserved |-> Never]
           Going(i, state) == IF i \in DOMAIN decisions THEN Consider(prices, state, decisions[i]) ELSE state
           step == [i \in 1..n |-> [state \in S |-> Going(i, state)]]
           IsRun(f) == f = [i \in 0..n |-> IF i = 0 THEN start
                              ELSE IF i \in DOMAIN decisions THEN Consider(prices, f[i - 1], decisions[i])
                              ELSE f[i - 1]]
           run == CHOOSE f : IsRun(f)
<1>1. n \in Nat
  BY TraceIsTyped
<1>2. Episodes(trace) = run[n].episodes
  BY DEF Episodes
<1>3. start \in S
  <2>1. start.episodes = <<>> /\ DOMAIN start.episodes = {}
    OBVIOUS
  <2>2. IsSeparate(prices, start)
    BY <2>1 DEF IsSeparate
  <2>3. start \in [episodes : Seq(EpisodeSet), reserved : Nat \cup {Never}]
    OBVIOUS
  <2>. QED
    BY <2>2, <2>3 DEF StateSet
<1>4. ArePrices(prices)
  BY PricesAreMarks
<1>5. \A i \in DOMAIN decisions : decisions[i] \in DecisionSet
  <2>1. DecidedAt(trace) \in SUBSET InStudy(trace)
    BY DEF DecidedAt
  <2>. QED
    BY <2>1, DecisionsAreTyped DEF Decisions
<1>. HIDE DEF prices, decisions, start
<1>6. \A state \in S, i \in 1..n : Going(i, state) \in S
  <2>1. SUFFICES ASSUME NEW state \in S, NEW i \in 1..n PROVE Going(i, state) \in S
    OBVIOUS
  <2>2. CASE i \in DOMAIN decisions
    <3>1. decisions[i] \in DecisionSet
      BY <1>5, <2>2
    <3>2. Consider(prices, state, decisions[i]) \in S
      BY <1>4, <2>1, <3>1, ConsiderKeeps
    <3>. QED
      BY <2>2, <3>2
  <2>3. CASE i \notin DOMAIN decisions
    BY <2>1, <2>3
  <2>. QED
    BY <2>2, <2>3
<1>7. \A state \in S, i \in 1..n : step[i][state] = Going(i, state)
  OBVIOUS
<1>. HIDE DEF S, n
<1>8. step \in [1..n -> [S -> S]]
  <2>. HIDE DEF Going
  <2>. QED
    BY <1>6
<1>. HIDE DEF step
<1>9. \E f : IsIteration(f, n, S, start, step)
  BY ONLY <1>1, <1>3, <1>8, IterationExists
<1>10. \E f : IsRun(f)
  <2>1. PICK f : IsIteration(f, n, S, start, step)
    BY <1>9
  <2>2. f \in [0..n -> S] /\ f[0] = start /\ \A i \in 1..n : f[i] = step[i][f[i - 1]]
    BY <2>1 DEF IsIteration
  <2>3. \A i \in 1..n : i - 1 \in 0..n
    BY <1>1
  <2>4. \A i \in 1..n : f[i] = Going(i, f[i - 1])
    <3>. HIDE DEF Going
    <3>1. \A i \in 1..n : f[i - 1] \in S
      BY <2>2, <2>3
    <3>. QED
      BY <1>7, <2>2, <3>1
  <2>5. \A i \in 0..n : i # 0 => i \in 1..n
    BY <1>1
  <2>6. \A i \in 0..n : f[i] = IF i = 0 THEN start
                            ELSE IF i \in DOMAIN decisions THEN Consider(prices, f[i - 1], decisions[i])
                            ELSE f[i - 1]
    BY <2>2, <2>4, <2>5
  <2>7. IsRun(f)
    BY <2>2, <2>6
  <2>. HIDE DEF IsRun
  <2>. QED
    BY <2>7
<1>11. IsRun(run)
  <2>. HIDE DEF IsRun
  <2>. QED
    BY <1>10
<1>. HIDE DEF run
<1>12. run[0] = start /\ \A i \in 1..n : run[i] = Going(i, run[i - 1])
  <2>1. 0 \in 0..n /\ \A i \in 1..n : i \in 0..n /\ i # 0
    BY <1>1
  <2>. QED
    BY <1>11, <2>1
<1>. HIDE DEF IsRun, Going
<1>13. \A i \in 0..n : i \in {k \in 0..n : run[k] \in S}
  <2> DEFINE T == {k \in 0..n : run[k] \in S}
  <2>1. 0 \in T
    BY <1>1, <1>3, <1>12
  <2>2. \A i \in 0..(n - 1) : i \in T => i + 1 \in T
    <3>1. SUFFICES ASSUME NEW i \in 0..(n - 1), run[i] \in S PROVE i + 1 \in 0..n /\ run[i + 1] \in S
      OBVIOUS
    <3>2. i + 1 \in 1..n /\ i + 1 \in 0..n /\ (i + 1) - 1 = i
      BY <1>1
    <3>. QED
      BY <1>6, <1>12, <3>1, <3>2
  <2>. HIDE DEF T
  <2>3. \A i \in 0..n : i \in T
    BY <1>1, <2>1, <2>2, StepByStep
  <2>. QED
    BY <2>3 DEF T
<1>14. run[n] \in S
  <2>1. n \in 0..n
    BY <1>1
  <2>. QED
    BY <1>13, <2>1
<1>. QED
  BY <1>2, <1>14 DEF S, prices, n

(* The episodes of a trace are separate, and each has its prices. *)
LEMMA EpisodesAreSound ==
  ASSUME NEW trace, IsTrace(trace)
  PROVE  /\ Episodes(trace) \in Seq(EpisodeSet)
         /\ \A i \in DOMAIN Episodes(trace) :
              LET e == Episodes(trace)[i] IN
              /\ IsEpisode(PricesOf(trace), e)
              /\ \A j \in i + 1..Len(Episodes(trace)) :
                   e.exit # Never /\ e.exit.at < Episodes(trace)[j].decision.at
<1>1. PICK state \in StateSet(PricesOf(trace)) : Episodes(trace) = state.episodes
  BY EpisodesAreFound
<1>2. state.episodes \in Seq(EpisodeSet) /\ IsSeparate(PricesOf(trace), state)
  BY DEF StateSet
<1>. QED
  BY <1>1, <1>2 DEF IsSeparate

-----------------------------------------------------------------------------
(* Arms *)

ArmSet ==
  {arm \in [cash : Int, quantity : Int, failed : BOOLEAN, openIn : Splits \cup {Never},
            earned : [Splits -> Int]] :
     /\ arm.cash = InitialCapital + arm.earned["train"] + arm.earned["validation"] + arm.earned["test"]
     /\ arm.quantity # 0 => arm.openIn \in Splits}

(* Dividing by what is not zero. *)
LEMMA QuotientIsInt ==
  ASSUME NEW a \in Int, NEW b \in Nat \ {0}
  PROVE  a \div b \in Int
BY SMT

(* What an event earns is added to the cash and to its split. *)
LEMMA EarnAdds ==
  ASSUME NEW arm \in ArmSet, NEW split \in Splits, NEW delta \in Int
  PROVE  Earn(arm, split, delta) \in ArmSet /\ Earn(arm, split, delta).failed = arm.failed
<1> DEFINE earned == [arm.earned EXCEPT ![split] = arm.earned[split] + delta]
           new == Earn(arm, split, delta)
<1>1. /\ arm \in [cash : Int, quantity : Int, failed : BOOLEAN, openIn : Splits \cup {Never},
                  earned : [Splits -> Int]]
      /\ arm.cash = InitialCapital + arm.earned["train"] + arm.earned["validation"] + arm.earned["test"]
      /\ arm.quantity # 0 => arm.openIn \in Splits
  BY DEF ArmSet
<1>2. InitialCapital \in Int
  BY TrialAssumption
<1>3. earned \in [Splits -> Int]
  BY <1>1
<1>4. "train" \in Splits /\ "validation" \in Splits /\ "test" \in Splits
  BY DEF Splits
<1>5. earned["train"] + earned["validation"] + earned["test"]
        = arm.earned["train"] + arm.earned["validation"] + arm.earned["test"] + delta
  <2>1. /\ arm.earned["train"] \in Int /\ arm.earned["validation"] \in Int /\ arm.earned["test"] \in Int
    BY <1>1, <1>4
  <2>2. \A s \in Splits : earned[s] = IF s = split THEN arm.earned[s] + delta ELSE arm.earned[s]
    BY <1>1
  <2>. HIDE DEF earned
  <2>3. CASE split = "train"
    BY <1>4, <2>1, <2>2, <2>3
  <2>4. CASE split = "validation"
    BY <1>4, <2>1, <2>2, <2>4
  <2>5. CASE split = "test"
    BY <1>4, <2>1, <2>2, <2>5
  <2>. QED
    BY <2>3, <2>4, <2>5 DEF Splits
<1>6. new = [arm EXCEPT !.cash = arm.cash + delta, !.earned = earned]
  BY DEF Earn
<1>. HIDE DEF earned, new
<1>7. /\ new \in [cash : Int, quantity : Int, failed : BOOLEAN, openIn : Splits \cup {Never},
                  earned : [Splits -> Int]]
      /\ new.cash = arm.cash + delta /\ new.earned = earned /\ new.quantity = arm.quantity
      /\ new.openIn = arm.openIn /\ new.failed = arm.failed
  <2>1. new = [cash |-> arm.cash + delta, quantity |-> arm.quantity, failed |-> arm.failed,
               openIn |-> arm.openIn, earned |-> earned]
    BY <1>1, <1>6
  <2>2. arm.cash + delta \in Int /\ arm.quantity \in Int /\ arm.failed \in BOOLEAN
        /\ arm.openIn \in Splits \cup {Never}
    BY <1>1
  <2>. QED
    BY <1>3, <2>1, <2>2
<1>8. new.cash = InitialCapital + new.earned["train"] + new.earned["validation"] + new.earned["test"]
  <2>1. /\ arm.earned["train"] \in Int /\ arm.earned["validation"] \in Int /\ arm.earned["test"] \in Int
        /\ earned["train"] \in Int /\ earned["validation"] \in Int /\ earned["test"] \in Int
    BY <1>1, <1>3, <1>4
  <2>. QED
    BY <1>1, <1>2, <1>5, <1>7, <2>1
<1>. QED
  BY <1>1, <1>7, <1>8 DEF ArmSet, new

LEMMA EnterAdds ==
  ASSUME NEW arm \in ArmSet, NEW e \in EpisodeSet
  PROVE  EnterPosition(arm, e) \in ArmSet
<1> DEFINE paid == TradeNotional + FeeOf(TradeNotional)
           split == e.decision.split
           earned == Earn(arm, split, 0 - paid)
<1>1. paid \in Int
  <2>1. TradeNotional \in Int /\ FeeDivisor \in Nat \ {0}
    BY TrialAssumption
  <2>2. FeeOf(TradeNotional) \in Int
    BY <2>1, QuotientIsInt DEF FeeOf
  <2>. QED
    BY <2>1, <2>2
<1>2. split \in Splits /\ e.entry.price \in Nat \ {0}
  BY DEF EpisodeSet, DecisionSet, PriceSet
<1>. HIDE DEF paid, split
<1>3. earned \in ArmSet
  BY <1>1, <1>2, EarnAdds
<1>4. TradeNotional \div e.entry.price \in Int
  BY <1>2, QuotientIsInt, TrialAssumption
<1>. HIDE DEF earned
<1>5. CASE arm.cash < paid
  <2>1. EnterPosition(arm, e) = [arm EXCEPT !.failed = TRUE]
    BY <1>5 DEF EnterPosition, paid
  <2>. QED
    BY <2>1 DEF ArmSet
<1>6. CASE ~(arm.cash < paid)
  <2> DEFINE quantity == TradeNotional \div e.entry.price
  <2>1. EnterPosition(arm, e) = [earned EXCEPT !.quantity = quantity, !.openIn = split]
    BY <1>6 DEF EnterPosition, paid, split, earned
  <2>2. quantity \in Int
    BY <1>4
  <2>. HIDE DEF quantity
  <2>. QED
    BY <1>2, <1>3, <2>1, <2>2 DEF ArmSet
<1>. QED
  BY <1>5, <1>6

LEMMA FundingAdds ==
  ASSUME NEW prices, ArePrices(prices), NEW arm \in ArmSet, NEW e \in EpisodeSet,
         NEW at, PricesBy(prices, at) # {}
  PROVE  PayFunding(prices, arm, e, at) \in ArmSet
<1> DEFINE T == PricesBy(prices, at)
           known == prices[Max(T)].price
           payment == (arm.quantity * known) \div FeeDivisor
<1>1. known \in Int
  <2>1. PICK n \in Nat : DOMAIN prices \in SUBSET (1..n)
    BY DEF ArePrices
  <2>2. T \in SUBSET (1..n) /\ T \in SUBSET (DOMAIN prices)
    BY <2>1 DEF PricesBy
  <2>. HIDE DEF T
  <2>3. T # {}
    BY DEF T
  <2>4. Max(T) \in T
    BY ONLY <2>2, <2>3, MaxOfIndices
  <2>5. prices[Max(T)] \in PriceSet
    BY <2>2, <2>4 DEF ArePrices
  <2>. QED
    BY <2>5 DEF PriceSet
<1>. HIDE DEF T, known
<1>2. arm.quantity \in Int /\ FeeDivisor \in Nat \ {0}
  BY TrialAssumption DEF ArmSet
<1>3. arm.quantity * known \in Int
  BY <1>1, <1>2
<1>4. payment \in Int
  BY <1>2, <1>3, QuotientIsInt
<1>5. PayFunding(prices, arm, e, at) =
        IF arm.failed THEN arm
        ELSE IF payment > arm.cash THEN [arm EXCEPT !.failed = TRUE]
        ELSE Earn(arm, e.decision.split, 0 - payment)
  BY DEF PayFunding, known, T
<1>. HIDE DEF payment
<1>6. [arm EXCEPT !.failed = TRUE] \in ArmSet
  BY DEF ArmSet
<1>7. Earn(arm, e.decision.split, 0 - payment) \in ArmSet
  <2>1. e.decision.split \in Splits /\ 0 - payment \in Int
    BY <1>4 DEF EpisodeSet, DecisionSet
  <2>. QED
    BY <2>1, EarnAdds
<1>. QED
  BY <1>5, <1>6, <1>7

LEMMA ExitAdds ==
  ASSUME NEW arm \in ArmSet, NEW e \in EpisodeSet
  PROVE  ExitPosition(arm, e) \in ArmSet
<1>1. SUFFICES ASSUME ~(arm.failed \/ e.exit = Never) PROVE ExitPosition(arm, e) \in ArmSet
  BY DEF ExitPosition
<1> DEFINE proceeds == arm.quantity * e.exit.price
           gained == proceeds - FeeOf(proceeds)
           earned == Earn(arm, e.decision.split, gained)
<1>2. proceeds \in Int
  <2>1. arm.quantity \in Int /\ e.exit.price \in Int
    BY <1>1 DEF ArmSet, EpisodeSet, PriceSet
  <2>. QED
    BY <2>1
<1>3. ExitPosition(arm, e) = [earned EXCEPT !.quantity = 0]
  BY <1>1 DEF ExitPosition
<1>. HIDE DEF proceeds
<1>4. gained \in Int
  <2>1. FeeDivisor \in Nat \ {0}
    BY TrialAssumption
  <2>2. FeeOf(proceeds) \in Int
    BY <1>2, <2>1, QuotientIsInt DEF FeeOf
  <2>. QED
    BY <1>2, <2>2
<1>5. e.decision.split \in Splits
  BY DEF EpisodeSet, DecisionSet
<1>. HIDE DEF gained
<1>6. earned \in ArmSet
  BY <1>4, <1>5, EarnAdds
<1>. HIDE DEF earned
<1>. QED
  BY <1>3, <1>6 DEF ArmSet

(* An episode traded by an arm leaves it adding up, the funding it pays included. *)
LEMMA TradeAdds ==
  ASSUME NEW prices, ArePrices(prices), NEW arm \in ArmSet,
         NEW e \in EpisodeSet, IsEpisode(prices, e)
  PROVE  TradeEpisode(prices, arm, e) \in ArmSet
<1> DEFINE n == e.finalAt - e.entry.at
           dues == SettlementsIn(e.entry.at, e.finalAt)
           start == EnterPosition(arm, e)
           Going(i, a) == IF e.entry.at + i \in dues THEN PayFunding(prices, a, e, e.entry.at + i) ELSE a
           step == [i \in 1..n |-> [a \in ArmSet |-> Going(i, a)]]
           IsRun(f) == f = [i \in 0..n |-> IF i = 0 THEN start
                              ELSE IF e.entry.at + i \in dues THEN PayFunding(prices, f[i - 1], e, e.entry.at + i)
                              ELSE f[i - 1]]
           run == CHOOSE f : IsRun(f)
<1>1. n \in Nat
  BY DEF IsEpisode, EpisodeSet, PriceSet
<1>2. TradeEpisode(prices, arm, e) = IF arm.failed THEN arm ELSE ExitPosition(run[n], e)
  BY DEF TradeEpisode
<1>3. start \in ArmSet
  BY EnterAdds
<1>4. \A at \in dues : PricesBy(prices, at) # {}
  BY DEF IsEpisode
<1>. HIDE DEF start, n, dues
<1>5. \A a \in ArmSet, i \in 1..n : Going(i, a) \in ArmSet
  <2>1. SUFFICES ASSUME NEW a \in ArmSet, NEW i \in 1..n PROVE Going(i, a) \in ArmSet
    OBVIOUS
  <2>2. CASE e.entry.at + i \in dues
    <3> DEFINE at == e.entry.at + i
    <3>1. PricesBy(prices, at) # {}
      BY <1>4, <2>2
    <3>. HIDE DEF at
    <3>2. PayFunding(prices, a, e, at) \in ArmSet
      BY <2>1, <3>1, FundingAdds
    <3>. QED
      BY <2>2, <3>2 DEF at
  <2>3. CASE e.entry.at + i \notin dues
    BY <2>1, <2>3
  <2>. QED
    BY <2>2, <2>3
<1>6. \A a \in ArmSet, i \in 1..n : step[i][a] = Going(i, a)
  OBVIOUS
<1>7. step \in [1..n -> [ArmSet -> ArmSet]]
  <2>. HIDE DEF Going
  <2>. QED
    BY <1>5
<1>. HIDE DEF step
<1>8. \E f : IsIteration(f, n, ArmSet, start, step)
  BY ONLY <1>1, <1>3, <1>7, IterationExists
<1>9. \E f : IsRun(f)
  <2>1. PICK f : IsIteration(f, n, ArmSet, start, step)
    BY <1>8
  <2>2. f \in [0..n -> ArmSet] /\ f[0] = start /\ \A i \in 1..n : f[i] = step[i][f[i - 1]]
    BY <2>1 DEF IsIteration
  <2>3. \A i \in 1..n : i - 1 \in 0..n
    BY <1>1
  <2>4. \A i \in 1..n : f[i] = Going(i, f[i - 1])
    <3>. HIDE DEF Going
    <3>1. \A i \in 1..n : f[i - 1] \in ArmSet
      BY <2>2, <2>3
    <3>. QED
      BY <1>6, <2>2, <3>1
  <2>5. \A i \in 0..n : i # 0 => i \in 1..n
    BY <1>1
  <2>6. \A i \in 0..n : f[i] = IF i = 0 THEN start
                            ELSE IF e.entry.at + i \in dues THEN PayFunding(prices, f[i - 1], e, e.entry.at + i)
                            ELSE f[i - 1]
    BY <2>2, <2>4, <2>5
  <2>7. IsRun(f)
    BY <2>2, <2>6
  <2>. HIDE DEF IsRun
  <2>. QED
    BY <2>7
<1>10. IsRun(run)
  <2>. HIDE DEF IsRun
  <2>. QED
    BY <1>9
<1>. HIDE DEF run
<1>11. run[0] = start /\ \A i \in 1..n : run[i] = Going(i, run[i - 1])
  <2>1. 0 \in 0..n /\ \A i \in 1..n : i \in 0..n /\ i # 0
    BY <1>1
  <2>. QED
    BY <1>10, <2>1
<1>. HIDE DEF IsRun, Going
<1>12. \A i \in 0..n : i \in {k \in 0..n : run[k] \in ArmSet}
  <2> DEFINE T == {k \in 0..n : run[k] \in ArmSet}
  <2>1. 0 \in T
    BY <1>1, <1>3, <1>11
  <2>2. \A i \in 0..(n - 1) : i \in T => i + 1 \in T
    <3>1. SUFFICES ASSUME NEW i \in 0..(n - 1), run[i] \in ArmSet
                   PROVE  i + 1 \in 0..n /\ run[i + 1] \in ArmSet
      OBVIOUS
    <3>2. i + 1 \in 1..n /\ i + 1 \in 0..n /\ (i + 1) - 1 = i
      BY <1>1
    <3>. QED
      BY <1>5, <1>11, <3>1, <3>2
  <2>. HIDE DEF T
  <2>3. \A i \in 0..n : i \in T
    BY <1>1, <2>1, <2>2, StepByStep
  <2>. QED
    BY <2>3 DEF T
<1>13. run[n] \in ArmSet
  <2>1. n \in 0..n
    BY <1>1
  <2>. QED
    BY <1>12, <2>1
<1>14. ExitPosition(run[n], e) \in ArmSet
  BY <1>13, ExitAdds
<1>. QED
  BY <1>2, <1>14 DEF n

(* What an arm has in the end is its capital and what it earned in each split. *)
LEMMA ArmAddsUp ==
  ASSUME NEW trace, IsTrace(trace), NEW name
  PROVE  SplitEquity(ArmOf(trace, name)).test - SplitEquity(ArmOf(trace, name)).validation
           = DeltaOf(ArmOf(trace, name), "test")
<1> DEFINE prices == PricesOf(trace)
           found == Episodes(trace)
           n == Len(found)
           Going(i, a) == IF name = "B" /\ ~found[i].decision.signalB THEN a
                          ELSE TradeEpisode(prices, a, found[i])
           step == [i \in 1..n |-> [a \in ArmSet |-> Going(i, a)]]
           IsRun(f) == f = [i \in 0..n |-> IF i = 0 THEN NewArm
                              ELSE IF name = "B" /\ ~found[i].decision.signalB THEN f[i - 1]
                              ELSE TradeEpisode(prices, f[i - 1], found[i])]
           run == CHOOSE f : IsRun(f)
           final == run[n]
           open == IF DOMAIN prices = {} THEN 0 ELSE final.quantity * LastPrice(prices).price
           arm == [earned |-> final.earned, open |-> open, equity |-> final.cash + open,
                   openIn |-> IF final.quantity = 0 THEN Never ELSE final.openIn]
<1>1. ArmOf(trace, name) = arm
  BY DEF ArmOf
<1>2. /\ n \in Nat /\ DOMAIN found = 1..n /\ ArePrices(prices)
      /\ \A i \in 1..n : found[i] \in EpisodeSet /\ IsEpisode(prices, found[i])
  <2>1. /\ found \in Seq(EpisodeSet)
        /\ \A i \in DOMAIN found : IsEpisode(prices, found[i])
    BY EpisodesAreSound
  <2>2. ArePrices(prices)
    BY PricesAreMarks
  <2>. HIDE DEF found, prices
  <2>. QED
    BY <2>1, <2>2
<1>3. NewArm \in ArmSet
  <2>1. /\ "train" \in Splits /\ "validation" \in Splits /\ "test" \in Splits
    BY DEF Splits
  <2> DEFINE earned == [split \in Splits |-> 0]
  <2>2. /\ earned \in [Splits -> Int] /\ earned["train"] = 0 /\ earned["validation"] = 0
        /\ earned["test"] = 0
    BY <2>1
  <2>3. InitialCapital \in Int
    BY TrialAssumption
  <2>4. NewArm = [cash |-> InitialCapital, quantity |-> 0, failed |-> FALSE, openIn |-> Never,
                  earned |-> earned]
    BY DEF NewArm
  <2>. HIDE DEF earned
  <2>. QED
    BY <2>2, <2>3, <2>4 DEF ArmSet
<1>. HIDE DEF prices, found, n
<1>4. \A a \in ArmSet, i \in 1..n : Going(i, a) \in ArmSet
  BY <1>2, TradeAdds
<1>5. \A a \in ArmSet, i \in 1..n : step[i][a] = Going(i, a)
  OBVIOUS
<1>6. step \in [1..n -> [ArmSet -> ArmSet]]
  <2>. HIDE DEF Going
  <2>. QED
    BY <1>4
<1>. HIDE DEF step
<1>7. \E f : IsIteration(f, n, ArmSet, NewArm, step)
  <2>1. n \in Nat
    BY <1>2
  <2>. QED
    BY ONLY <2>1, <1>3, <1>6, IterationExists
<1>8. \E f : IsRun(f)
  <2>1. PICK f : IsIteration(f, n, ArmSet, NewArm, step)
    BY <1>7
  <2>2. f \in [0..n -> ArmSet] /\ f[0] = NewArm /\ \A i \in 1..n : f[i] = step[i][f[i - 1]]
    BY <2>1 DEF IsIteration
  <2>3. \A i \in 1..n : i - 1 \in 0..n
    BY <1>2
  <2>4. \A i \in 1..n : f[i] = Going(i, f[i - 1])
    <3>. HIDE DEF Going
    <3>1. \A i \in 1..n : f[i - 1] \in ArmSet
      BY <2>2, <2>3
    <3>. QED
      BY <1>5, <2>2, <3>1
  <2>5. \A i \in 0..n : i # 0 => i \in 1..n
    BY <1>2
  <2>6. \A i \in 0..n : f[i] = IF i = 0 THEN NewArm
                            ELSE IF name = "B" /\ ~found[i].decision.signalB THEN f[i - 1]
                            ELSE TradeEpisode(prices, f[i - 1], found[i])
    BY <2>2, <2>4, <2>5
  <2>7. IsRun(f)
    BY <2>2, <2>6
  <2>. HIDE DEF IsRun
  <2>. QED
    BY <2>7
<1>9. IsRun(run)
  <2>. HIDE DEF IsRun
  <2>. QED
    BY <1>8
<1>. HIDE DEF run
<1>10. run[0] = NewArm /\ \A i \in 1..n : run[i] = Going(i, run[i - 1])
  <2>1. 0 \in 0..n /\ \A i \in 1..n : i \in 0..n /\ i # 0
    BY <1>2
  <2>. QED
    BY <1>9, <2>1
<1>. HIDE DEF IsRun, Going
<1>11. \A i \in 0..n : i \in {k \in 0..n : run[k] \in ArmSet}
  <2> DEFINE T == {k \in 0..n : run[k] \in ArmSet}
  <2>1. 0 \in T
    BY <1>2, <1>3, <1>10
  <2>2. \A i \in 0..(n - 1) : i \in T => i + 1 \in T
    <3>1. SUFFICES ASSUME NEW i \in 0..(n - 1), run[i] \in ArmSet
                   PROVE  i + 1 \in 0..n /\ run[i + 1] \in ArmSet
      OBVIOUS
    <3>2. i + 1 \in 1..n /\ i + 1 \in 0..n /\ (i + 1) - 1 = i
      BY <1>2
    <3>. QED
      BY <1>4, <1>10, <3>1, <3>2
  <2>. HIDE DEF T
  <2>3. \A i \in 0..n : i \in T
    BY <1>2, <2>1, <2>2, StepByStep
  <2>. QED
    BY <2>3 DEF T
<1>12. final \in ArmSet
  <2>1. n \in 0..n
    BY <1>2
  <2>. QED
    BY <1>11, <2>1
<1>. HIDE DEF final
<1>13. open \in Int /\ (final.quantity = 0 => open = 0)
  <2>1. CASE DOMAIN prices = {}
    BY <2>1
  <2>2. CASE DOMAIN prices # {}
    <3>1. LastPrice(prices).price \in Int
      BY <1>2, <2>2, LastIsLast DEF PriceSet
    <3>2. final.quantity \in Int
      BY <1>12 DEF ArmSet
    <3>. QED
      BY <2>2, <3>1, <3>2
  <2>. QED
    BY <2>1, <2>2
<1>. HIDE DEF open
<1>14. /\ final.earned["train"] \in Int /\ final.earned["validation"] \in Int
       /\ final.earned["test"] \in Int /\ InitialCapital \in Int /\ final.cash \in Int
       /\ final.cash = InitialCapital + final.earned["train"] + final.earned["validation"]
                         + final.earned["test"]
       /\ final.quantity # 0 => final.openIn \in Splits
  BY <1>12, TrialAssumption DEF ArmSet, Splits
<1>15. /\ arm.earned = final.earned /\ arm.open = open /\ arm.equity = final.cash + open
       /\ final.quantity # 0 => arm.openIn \in Splits
  BY <1>14
<1>. HIDE DEF arm
<1> DEFINE kept(split) == IF arm.openIn = split THEN arm.open ELSE 0
<1>16. /\ kept("train") \in Int /\ kept("validation") \in Int /\ kept("test") \in Int
       /\ kept("train") + kept("validation") + kept("test") = open
  <2>1. CASE final.quantity = 0
    BY <1>13, <1>15, <2>1
  <2>2. CASE final.quantity # 0
    <3>1. arm.openIn \in {"train", "validation", "test"}
      BY <1>15, <2>2 DEF Splits
    <3>. QED
      BY <1>13, <1>15, <3>1
  <2>. QED
    BY <2>1, <2>2
<1>17. /\ SplitEquity(arm).test = arm.equity
       /\ SplitEquity(arm).validation = InitialCapital + DeltaOf(arm, "train") + DeltaOf(arm, "validation")
  BY DEF SplitEquity
<1>18. /\ DeltaOf(arm, "train") = final.earned["train"] + kept("train")
       /\ DeltaOf(arm, "validation") = final.earned["validation"] + kept("validation")
       /\ DeltaOf(arm, "test") = final.earned["test"] + kept("test")
  BY <1>15 DEF DeltaOf
<1>. HIDE DEF kept
<1>19. SplitEquity(arm).test - SplitEquity(arm).validation = DeltaOf(arm, "test")
  BY <1>13, <1>14, <1>15, <1>16, <1>17, <1>18
<1>. QED
  BY <1>1, <1>19

LEMMA TrialIsTrue ==
  ASSUME TrialInv
  PROVE  TrialHolds
<1>1. IsTrace(observations)
  BY DEF TrialInv
<1>2. SplitsAddUp
  BY <1>1, ArmAddsUp DEF SplitsAddUp, Arms
<1>3. EpisodesAreSeparate
  <2> DEFINE found == Episodes(observations)
             prices == PricesOf(observations)
  <2>1. \A i \in DOMAIN found :
          /\ IsEpisode(prices, found[i])
          /\ \A j \in i + 1..Len(found) :
               found[i].exit # Never /\ found[i].exit.at < found[j].decision.at
    BY <1>1, EpisodesAreSound
  <2>. HIDE DEF found, prices
  <2>2. \A i \in DOMAIN found :
          /\ found[i].decision.at < found[i].entry.priceAt
          /\ found[i].entry.at < Boundary(found[i].decision.at)
          /\ found[i].exit # Never =>
               /\ found[i].entry.at + Holding <= found[i].exit.priceAt
               /\ found[i].exit.at < Boundary(found[i].decision.at)
    BY <2>1 DEF IsEpisode
  <2>. QED
    BY <2>1, <2>2 DEF EpisodesAreSeparate, found
<1>. QED
  BY <1>2, <1>3 DEF TrialHolds

-----------------------------------------------------------------------------
(* Observing *)

LEMMA TrialStarts ==
  ASSUME TrialInit
  PROVE  TrialInv
<1>1. PICK row \in RowKinds : observations = <<TrialRow(1, row)>>
  BY DEF TrialInit
<1>2. row \in [lag : Nat, price : Nat \ {0}, oi : Nat]
  BY TrialAssumption
<1>3. TrialRow(1, row) \in RowSet /\ TrialRow(1, row).at = 1 /\ TrialRow(1, row).bucket <= 1
  BY <1>2 DEF TrialRow, RowSet
<1>. QED
  BY <1>1, <1>3 DEF TrialInv, IsTrace

LEMMA TrialSteps ==
  ASSUME TrialInv, ObserveRow
  PROVE  TrialInv' /\ \E row \in RowSet : row.at = Len(observations) + 1 /\ row.bucket <= row.at
           /\ observations' = Append(observations, row)
<1> DEFINE n == Len(observations)
<1>1. PICK seen \in RowKinds : observations' = Append(observations, TrialRow(Last(observations).at + 1, seen))
  BY DEF ObserveRow
<1>2. /\ observations \in Seq(RowSet) /\ n \in Nat /\ n >= 1
      /\ \A i \in 1..n : observations[i].at = i /\ observations[i].bucket <= i
  BY DEF TrialInv, IsTrace
<1>3. Last(observations).at = n
  BY <1>2 DEF Last
<1> DEFINE row == TrialRow(n + 1, seen)
<1>4. row \in RowSet /\ row.at = n + 1 /\ row.bucket <= n + 1
  <2>1. seen \in [lag : Nat, price : Nat \ {0}, oi : Nat]
    BY TrialAssumption
  <2>. QED
    BY <1>2, <2>1 DEF TrialRow, RowSet
<1>. HIDE DEF row
<1>5. observations' = Append(observations, row)
  BY <1>1, <1>3 DEF row
<1>6. TrialInv'
  BY <1>2, <1>4, <1>5 DEF TrialInv, IsTrace
<1>. QED
  BY <1>4, <1>5, <1>6

(* What was known at a time is not changed by a later observation. *)
LEMMA KnownStays ==
  ASSUME NEW trace, IsTrace(trace), NEW row \in RowSet, row.at = Len(trace) + 1,
         NEW later, IsTrace(later), later = Append(trace, row)
  PROVE  /\ DOMAIN trace = {i \in DOMAIN later : i <= Len(trace)}
         /\ \A i \in DOMAIN trace : later[i] = trace[i]
         /\ \A at \in 0..Len(trace) :
              /\ KnownBuckets(later, at) = KnownBuckets(trace, at)
              /\ \A bucket \in KnownBuckets(trace, at) :
                   KnownRow(later, at, bucket) = KnownRow(trace, at, bucket)
<1> DEFINE n == Len(trace)
<1>1. /\ n \in Nat /\ DOMAIN trace = 1..n /\ DOMAIN later = 1..(n + 1)
      /\ later[n + 1] = row /\ \A i \in 1..n : later[i] = trace[i]
  BY DEF IsTrace
<1>2. ASSUME NEW at \in 0..n
      PROVE  {j \in DOMAIN later : later[j].at <= at} = {j \in DOMAIN trace : trace[j].at <= at}
  <2>1. ~(later[n + 1].at <= at)
    BY <1>1, <1>2
  <2>2. \A j \in DOMAIN later : j = n + 1 \/ j \in 1..n
    BY <1>1
  <2>. QED
    BY <1>1, <2>1, <2>2
<1>3. ASSUME NEW at \in 0..n
      PROVE  KnownBuckets(later, at) = KnownBuckets(trace, at)
  <2> DEFINE T == {j \in DOMAIN trace : trace[j].at <= at}
  <2>1. KnownBuckets(later, at) = {later[i].bucket : i \in T}
    BY <1>2, <1>3 DEF KnownBuckets
  <2>2. KnownBuckets(trace, at) = {trace[i].bucket : i \in T}
    BY DEF KnownBuckets
  <2>3. \A i \in T : later[i] = trace[i]
    BY <1>1
  <2>. HIDE DEF T
  <2>4. \A i \in T : later[i].bucket = trace[i].bucket
    BY <2>3
  <2>5. {later[i].bucket : i \in T} = {trace[i].bucket : i \in T}
    BY <2>4, Zenon
  <2>. QED
    BY <2>1, <2>2, <2>5
<1>4. ASSUME NEW at \in 0..n, NEW bucket \in KnownBuckets(trace, at)
      PROVE  KnownRow(later, at, bucket) = KnownRow(trace, at, bucket)
  <2> DEFINE T == {j \in DOMAIN trace : trace[j].at <= at /\ trace[j].bucket = bucket}
             U == {j \in DOMAIN later : later[j].at <= at /\ later[j].bucket = bucket}
  <2>1. U = T
    <3>1. \A j : (j \in DOMAIN later /\ later[j].at <= at) <=> (j \in DOMAIN trace /\ trace[j].at <= at)
      BY <1>2, <1>4
    <3>. QED
      BY <1>1, <3>1
  <2>2. later[Max(T)] = trace[Max(T)]
    <3>1. T # {}
      BY DEF KnownBuckets
    <3>2. T \in SUBSET (1..n)
      BY <1>1
    <3>. HIDE DEF T
    <3>3. Max(T) \in 1..n
      <4>1. n \in Nat
        BY <1>1
      <4>2. Max(T) \in T
        BY ONLY <3>1, <3>2, <4>1, MaxOfIndices
      <4>. QED
        BY <3>2, <4>2
    <3>. QED
      BY <1>1, <3>3
  <2>. QED
    BY <2>1, <2>2 DEF KnownRow
<1>. QED
  BY <1>1, <1>3, <1>4

(* A decision is the same to a reader who knows more later. *)
LEMMA DecisionStays ==
  ASSUME NEW trace, IsTrace(trace), NEW row \in RowSet, row.at = Len(trace) + 1,
         NEW later, IsTrace(later), later = Append(trace, row), NEW i \in DOMAIN trace
  PROVE  /\ NewestBucket(later, i) = NewestBucket(trace, i)
         /\ DecisionOf(later, i) = DecisionOf(trace, i)
<1> DEFINE at == trace[i].at
           bucket == NewestBucket(trace, i)
           known == KnownBuckets(trace, at)
           complete == bucket - 1 \in known /\ bucket + 1 <= at
           newest == KnownRow(trace, at, bucket)
           before == KnownRow(trace, at, bucket - 1)
           beforeLater == KnownRow(later, at, bucket - 1)
<1>1. at \in 0..Len(trace) /\ later[i].at = at
  <2>1. at = i /\ i \in 1..Len(trace) /\ Len(trace) \in Nat
    BY TraceIsTyped DEF IsTrace
  <2>2. later[i] = trace[i]
    BY KnownStays
  <2>. QED
    BY <2>1, <2>2
<1>2. /\ KnownBuckets(later, at) = known
      /\ \A b \in known : KnownRow(later, at, b) = KnownRow(trace, at, b)
  <2>. HIDE DEF at
  <2>. QED
    BY <1>1, KnownStays
<1>3. bucket \in known
  BY NewestIsKnown, Zenon
<1>4. NewestBucket(later, i) = bucket
  BY <1>1, <1>2 DEF NewestBucket
<1>5. KnownRow(later, at, bucket) = newest
  BY <1>2, <1>3
<1>6. complete => beforeLater = before
  BY <1>2
<1>7. DecisionOf(trace, i) =
        [at |-> at, bucket |-> bucket, split |-> SplitOf(at),
         eligible |-> complete /\ at + Holding < Boundary(at),
         signalA |-> complete /\ newest.price > before.price,
         signalB |-> complete /\ newest.price > before.price /\ newest.oi > before.oi]
  BY DEF DecisionOf
<1>8. DecisionOf(later, i) =
        [at |-> at, bucket |-> bucket, split |-> SplitOf(at),
         eligible |-> complete /\ at + Holding < Boundary(at),
         signalA |-> complete /\ newest.price > beforeLater.price,
         signalB |-> complete /\ newest.price > beforeLater.price /\ newest.oi > beforeLater.oi]
  BY <1>1, <1>2, <1>4, <1>5 DEF DecisionOf
<1>. HIDE DEF at, bucket, known, newest, before, beforeLater, complete
<1>9. DecisionOf(later, i) = DecisionOf(trace, i)
  <2>1. CASE complete
    BY <1>6, <1>7, <1>8, <2>1
  <2>2. CASE ~complete
    BY <1>7, <1>8, <2>2
  <2>. QED
    BY <2>1, <2>2
<1>. QED
  BY <1>4, <1>9 DEF bucket

AreTheSame(trace, later) ==
  Decisions(trace) = [i \in DecidedAt(later) \cap DOMAIN trace |-> Decisions(later)[i]]

LEMMA DecisionsStay ==
  ASSUME NEW trace, IsTrace(trace), NEW row \in RowSet, row.at = Len(trace) + 1,
         NEW later, IsTrace(later), later = Append(trace, row)
  PROVE  AreTheSame(trace, later)
<1>1. \A i \in DOMAIN trace : /\ later[i] = trace[i] /\ i \in DOMAIN later
                              /\ \A j \in DOMAIN later : j < i => j \in DOMAIN trace
                              /\ NewestBucket(later, i) = NewestBucket(trace, i)
                              /\ DecisionOf(later, i) = DecisionOf(trace, i)
  <2>1. SUFFICES ASSUME NEW i \in DOMAIN trace
                 PROVE  /\ later[i] = trace[i] /\ i \in DOMAIN later
                        /\ \A j \in DOMAIN later : j < i => j \in DOMAIN trace
                        /\ NewestBucket(later, i) = NewestBucket(trace, i)
                        /\ DecisionOf(later, i) = DecisionOf(trace, i)
    OBVIOUS
  <2>2. DOMAIN trace = {j \in DOMAIN later : j <= Len(trace)} /\ later[i] = trace[i]
    BY KnownStays
  <2>3. Len(trace) \in Nat /\ i \in 1..Len(trace) /\ \A j \in DOMAIN later : j \in Nat
    BY TraceIsTyped
  <2>4. \A j \in DOMAIN later : j < i => j <= Len(trace)
    BY <2>3
  <2>. QED
    BY <2>2, <2>4, DecisionStays
<1>2. \A i \in DOMAIN trace : i \in InStudy(later) <=> i \in InStudy(trace)
  BY <1>1 DEF InStudy
<1>3. \A i \in DOMAIN trace : i \in DecidedAt(later) <=> i \in DecidedAt(trace)
  <2>1. SUFFICES ASSUME NEW i \in DOMAIN trace
                 PROVE  i \in DecidedAt(later) <=> i \in DecidedAt(trace)
    OBVIOUS
  <2>2. InStudy(later) \in SUBSET (DOMAIN later) /\ InStudy(trace) \in SUBSET (DOMAIN trace)
    BY DEF InStudy
  <2>3. \A j : j \in InStudy(later) /\ j < i <=> j \in InStudy(trace) /\ j < i
    BY <1>1, <1>2, <2>1, <2>2
  <2>. QED
    BY <1>1, <1>2, <2>2, <2>3 DEF DecidedAt
<1>4. DecidedAt(later) \cap DOMAIN trace = DecidedAt(trace)
  <2>1. DecidedAt(trace) \in SUBSET (DOMAIN trace)
    BY DEF DecidedAt, InStudy
  <2>. QED
    BY <1>3, <2>1
<1>5. \A i \in DecidedAt(trace) : Decisions(later)[i] = DecisionOf(trace, i)
  BY <1>1, <1>4 DEF Decisions
<1>. QED
  BY <1>4, <1>5 DEF AreTheSame, Decisions

(* No decision is revised by an observation. *)
LEMMA TrialIsCausal ==
  ASSUME TrialInv, ObserveRow
  PROVE  Decisions(observations) =
           [i \in DecidedAt(observations') \cap DOMAIN observations |-> Decisions(observations')[i]]
<1>1. PICK row \in RowSet : /\ row.at = Len(observations) + 1 /\ row.bucket <= row.at
                            /\ observations' = Append(observations, row)
  BY TrialSteps
<1>2. IsTrace(observations) /\ IsTrace(observations')
  BY TrialSteps DEF TrialInv
<1> DEFINE trace == observations
           later == observations'
<1>3. /\ IsTrace(trace) /\ IsTrace(later) /\ row \in RowSet /\ row.at = Len(trace) + 1
      /\ later = Append(trace, row)
  BY <1>1, <1>2
<1>. HIDE DEF trace, later
<1>4. AreTheSame(trace, later)
  BY <1>3, DecisionsStay
<1>. QED
  BY <1>4 DEF trace, later, AreTheSame

-----------------------------------------------------------------------------
(***************************************************************************)
(* The research, each part alone and all of MCRecords' side by side.       *)
(***************************************************************************)

\* The receipts on disk are one chain with their payloads, however the writing broke off, and
\* what a valid replay knows at any cutoff is a beginning of it.
THEOREM JournalStaysWhole == JournalInit /\ [][JournalNext]_journalVars => []JournalHolds
<1>1. JournalInit => JournalInv
  BY JournalStarts
<1>2. JournalInv /\ [JournalNext]_journalVars => JournalInv'
  BY JournalSteps
<1>3. JournalInv => JournalHolds
  BY JournalIsTrue
<1>. QED
  BY <1>1, <1>2, <1>3, PTL

LEMMA TrialKeeps ==
  ASSUME TrialInv, [ObserveRow]_trialVars
  PROVE  TrialInv'
<1>1. CASE UNCHANGED trialVars
  BY <1>1 DEF trialVars, TrialInv, IsTrace
<1>. QED
  BY <1>1, TrialSteps

\* The episodes of a replay never overlap or cross a split, and what each arm earned in the test
\* split is what it traded there.
THEOREM TrialStaysTrue == TrialInit /\ [][ObserveRow]_trialVars => []TrialHolds
<1>1. TrialInit => TrialInv
  BY TrialStarts
<1>2. TrialInv => TrialHolds
  BY TrialIsTrue
<1>. QED
  BY <1>1, <1>2, TrialKeeps, PTL

LEMMA ResearchStepIsTheirs ==
  ASSUME [RecordsNext]_recordsVars
  PROVE  [JournalNext]_journalVars /\ [ObserveRow]_trialVars /\ [FinalNext]_finalVars
<1>1. CASE UNCHANGED recordsVars
  BY <1>1 DEF recordsVars
<1>2. CASE recorder = "journal" /\ JournalNext /\ UNCHANGED <<trialVars, finalVars>>
  BY <1>2
<1>3. CASE recorder = "trial" /\ ObserveRow /\ UNCHANGED <<journalVars, finalVars>>
  BY <1>3
<1>4. CASE recorder = "finalizer" /\ FinalNext /\ UNCHANGED <<journalVars, trialVars>>
  BY <1>4
<1>5. CASE UNCHANGED <<journalVars, trialVars, finalVars>>
  BY <1>5
<1>. QED
  BY <1>1, <1>2, <1>3, <1>4, <1>5, Zenon DEF RecordsNext

LEMMA ResearchKeeps ==
  /\ RecordsInit => JournalInv /\ TrialInv /\ CaptureInv
  /\ JournalInv /\ TrialInv /\ CaptureInv /\ [RecordsNext]_recordsVars =>
       JournalInv' /\ TrialInv' /\ CaptureInv'
<1>1. RecordsInit => JournalInit /\ TrialInit /\ FinalInit
  BY DEF RecordsInit
<1>. QED
  BY <1>1, JournalStarts, TrialStarts, FinalInitHolds, ResearchStepIsTheirs, JournalSteps,
     TrialKeeps, FinalNextKeeps

\* The research stands on what it says, whichever of its parts runs.
THEOREM ResearchStaysTrue == RecordsSpec => []ResearchHolds
<1>1. CaptureInv => CapturesHold
  BY CaptureIsHeld
<1>2. JournalInv /\ TrialInv /\ CaptureInv => ResearchHolds
  BY <1>1, JournalIsTrue, TrialIsTrue DEF ResearchHolds
<1>. QED
  BY <1>2, ResearchKeeps, PTL DEF RecordsSpec

\* No decision of a replay is revised, and none taken later about an earlier observation, by what
\* is observed after it.
THEOREM DecisionsStayCausal == RecordsSpec => DecisionsAreCausal
<1> DEFINE Causal == Decisions(observations) =
             [i \in DecidedAt(observations') \cap DOMAIN observations |-> Decisions(observations')[i]]
<1>1. TrialInv /\ [RecordsNext]_recordsVars => [Causal]_trialVars
  <2>1. [RecordsNext]_recordsVars => ObserveRow \/ UNCHANGED trialVars
    BY ResearchStepIsTheirs
  <2>. QED
    BY <2>1, TrialIsCausal
<1>. QED
  BY <1>1, ResearchKeeps, PTL DEF RecordsSpec, DecisionsAreCausal
=============================================================================
