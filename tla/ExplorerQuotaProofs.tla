------------------------ MODULE ExplorerQuotaProofs ------------------------
(* Proofs about the shared request pacing, for any finite set of clients,   *)
(* any rates and any bounds; about one client; and about the two ways a run *)
(* fetches endpoints, as they become known (Frontier) and from a list       *)
(* (Prefetch).                                                              *)
EXTENDS ExplorerQuota, Sequences, FiniteSetTheorems, WellFoundedInduction, TLAPS

-----------------------------------------------------------------------------
(* Greatest elements                                                       *)

LEMMA LeastNatural ==
  ASSUME NEW S, S \subseteq Nat, S # {}
  PROVE  \E n \in S : \A k \in S : n <= k
<1> DEFINE R == OpToRel(<, Nat)
<1>1. IsWellFoundedOn(R, Nat)
  BY NatLessThanWellFounded
<1>2. \A x, y \in Nat : y < x => <<y, x>> \in R
  BY Zenon DEF R, OpToRel
<1> HIDE DEF R
<1>3. PICK x \in S : \A y \in S : ~ (<<y, x>> \in R)
  BY <1>1, WFMin
<1>4. \A y \in S : ~ (y < x)
  BY <1>2, <1>3
<1>5. \A y \in S : x <= y
  BY <1>4
<1> QED
  BY <1>5

\* A bounded set of naturals that is not empty has a greatest element.
LEMMA Greatest ==
  ASSUME NEW S, S \subseteq Nat, S # {}, NEW b \in Nat, \A s \in S : s <= b
  PROVE  \E n \in S : \A k \in S : k <= n
<1> DEFINE U == {u \in Nat : \A s \in S : s <= u}
<1>1. PICK n \in U : \A u \in U : n <= u
  <2>1. U \subseteq Nat /\ U # {}
    OBVIOUS
  <2> HIDE DEF U
  <2> QED BY <2>1, LeastNatural
<1>2. CASE n \in S
  BY <1>1, <1>2
<1>3. CASE n \notin S
  <2>1. \A s \in S : s <= n - 1 /\ s \in Nat
    BY <1>1, <1>3
  <2>2. n - 1 \in U
    <3>1. PICK s \in S : s <= n - 1 /\ s \in Nat
      BY <2>1
    <3>2. n \in Nat
      BY <1>1
    <3> QED BY <2>1, <3>1, <3>2
  <2> QED
    BY <1>1, <2>2
<1> QED
  BY <1>2, <1>3

\* A function on a finite set has bounded values.
LEMMA Bounded ==
  ASSUME NEW S, IsFiniteSet(S), NEW f \in [S -> Nat]
  PROVE  \E b \in Nat : \A s \in S : f[s] <= b
<1> DEFINE Within(A) == \E b \in Nat : \A s \in A : f[s] <= b
           Counts == {Cardinality(A) : A \in {B \in SUBSET S : ~Within(B)}}
<1> SUFFICES ASSUME ~Within(S) PROVE FALSE
  OBVIOUS
<1>1. \A A \in SUBSET S : IsFiniteSet(A) /\ Cardinality(A) \in Nat
  BY FS_Subset, FS_CardinalityType
<1>2. PICK n \in Counts : \A k \in Counts : n <= k
  <2>1. Counts \subseteq Nat /\ Counts # {}
    BY <1>1
  <2> HIDE DEF Counts
  <2> QED BY <2>1, LeastNatural
<1>3. PICK A \in SUBSET S : ~Within(A) /\ n = Cardinality(A)
  OBVIOUS
<1>4. PICK x : x \in A
  <2>1. A = {} => Within(A)
    OBVIOUS
  <2> QED BY <1>3, <2>1
<1>5. Cardinality(A \ {x}) = Cardinality(A) - 1
  BY <1>1, <1>4, FS_RemoveElement
<1>6. Within(A \ {x})
  <2> SUFFICES ASSUME ~Within(A \ {x}) PROVE FALSE
    OBVIOUS
  <2>1. A \ {x} \in SUBSET S
    BY <1>3
  <2>2. Cardinality(A \ {x}) \in Counts
    BY <2>1
  <2> HIDE DEF Counts
  <2> QED BY <1>1, <1>2, <1>3, <1>5, <2>2
<1>7. PICK b \in Nat : \A s \in A \ {x} : f[s] <= b
  BY <1>6
<1>8. \A s \in A : f[s] \in Nat
  BY <1>3
<1>9. \A s \in A : f[s] <= b + f[x]
  BY <1>4, <1>7, <1>8
<1>10. b + f[x] \in Nat
  BY <1>4, <1>7, <1>8
<1> QED
  BY <1>3, <1>9, <1>10

LEMMA LongestType ==
  /\ Longest \in Nat /\ Slowest \in Nat /\ Slowest <= Longest
  /\ \A c \in Clients : Fixed[c] \in Nat /\ Fixed[c] <= Longest
<1> DEFINE S == {Fixed[c] : c \in Clients} \cup {Slowest}
<1>1. PICK b \in Nat : \A c \in Clients : Fixed[c] <= b
  BY QuotaAssumption, Bounded DEF QuotaAssumption
<1>2. S \subseteq Nat /\ S # {} /\ \A s \in S : s <= b + Slowest
  BY <1>1, QuotaAssumption DEF QuotaAssumption
<1>3. b + Slowest \in Nat
  BY <1>1, QuotaAssumption DEF QuotaAssumption
<1>4. Longest = CHOOSE n \in S : \A m \in S : m <= n
  BY DEF Longest
<1>5. (\A c \in Clients : Fixed[c] \in S) /\ Slowest \in S
  OBVIOUS
<1> HIDE DEF S
<1>6. Longest \in S /\ \A m \in S : m <= Longest
  BY <1>2, <1>3, <1>4, Greatest
<1> QED
  BY <1>2, <1>5, <1>6

\* The slowest registered client paces a start.
LEMMA PaceIsSlowest ==
  ASSUME NEW ls, NEW t \in Nat, NEW c \in Registered(ls)
  PROVE  /\ Pace(c, ls, t) \in Nat
         /\ \A d \in Registered(ls) : IntervalOf(d, t) <= Pace(c, ls, t)
<1> DEFINE S == {IntervalOf(d, t) : d \in Registered(ls)}
<1>1. \A d \in Registered(ls) : IntervalOf(d, t) \in Nat /\ IntervalOf(d, t) <= Longest + t
  BY LongestType, QuotaAssumption DEF QuotaAssumption, IntervalOf, Adaptive, Registered
<1>2. S \subseteq Nat /\ S # {} /\ Longest + t \in Nat /\ \A s \in S : s <= Longest + t
  BY <1>1, LongestType
<1>3. Pace(c, ls, t) = CHOOSE i \in S : \A j \in S : j <= i
  BY DEF Pace
<1>4. \A d \in Registered(ls) : IntervalOf(d, t) \in S
  OBVIOUS
<1> HIDE DEF S
<1>5. Pace(c, ls, t) \in S /\ \A j \in S : j <= Pace(c, ls, t)
  BY <1>2, <1>3, Greatest
<1> QED
  BY <1>2, <1>4, <1>5

-----------------------------------------------------------------------------
(* Types                                                                   *)

ClockType ==
  /\ since \in 0..Longest /\ cool \in Nat /\ blocked \in Nat /\ hold \in Nat /\ window \in Nat
  /\ lease \in [Clients -> 0..Idle] /\ hint \in [Clients -> Nat]
RateType ==
  /\ target \in 1..Slowest /\ successes \in 0..Enough /\ pend \in [Clients -> 0..Enough]
  /\ started \in BOOLEAN /\ earned \in 0..Enough
FlightType ==
  /\ fresh \in [Clients -> Nat] /\ stale \in [Clients -> Nat]
  /\ \A c \in Clients : fresh[c] + stale[c] <= MaxInFlight
  /\ status \in [Clients -> {"new", "open", "closed", "crashed"}]
  /\ rejections \in 0..MaxRejections

LEMMA TypeParts == TypeOK <=> ClockType /\ RateType /\ FlightType
  BY DEF TypeOK, ClockType, RateType, FlightType

LEMMA TypeInit == Init => TypeOK
<1> SUFFICES ASSUME Init PROVE TypeOK
  OBVIOUS
<1>1. ClockType
  BY LongestType, QuotaAssumption DEF Init, ClockType, QuotaAssumption
<1>2. RateType
  <2>1. started \in BOOLEAN
    BY Zenon DEF Init
  <2> QED
    BY <2>1, QuotaAssumption DEF Init, RateType, QuotaAssumption
<1>3. FlightType
  BY QuotaAssumption DEF Init, FlightType, QuotaAssumption
<1> QED
  BY <1>1, <1>2, <1>3, TypeParts

\* What a client has counted, and the interval after it, stay in their bounds.
LEMMA LearnType ==
  ASSUME RateType, NEW c \in Clients, Learn(c)
  PROVE  /\ target' \in 1..Slowest /\ successes' \in 0..Enough /\ pend' \in [Clients -> 0..Enough]
         /\ target' \in Nat /\ target' <= target
         /\ hold' = hold /\ (window' = 0 \/ window' = window)
<1>1. Enough \in Nat \ {0} /\ Slowest \in Nat
  BY QuotaAssumption DEF QuotaAssumption
<1>2. target \in 1..Slowest /\ successes \in 0..Enough /\ pend[c] \in 0..Enough
  BY DEF RateType
<1>3. Counted(c) \in 0..Enough
  BY <1>1, <1>2 DEF Counted, Min2
<1>4. target' = target \/ (target > 1 /\ target' = target - 1)
  BY DEF Learn
<1>5. successes' = 0 \/ successes' = Counted(c)
  BY DEF Learn
<1>6. pend' = [pend EXCEPT ![c] = 0] /\ hold' = hold /\ (window' = 0 \/ window' = window)
  BY DEF Learn
<1>7. pend' \in [Clients -> 0..Enough]
  BY <1>1, <1>6 DEF RateType
<1> QED
  BY <1>1, <1>2, <1>3, <1>4, <1>5, <1>6, <1>7

\* A cached denial is checked again within half a lease.
LEMMA HintType ==
  ASSUME NEW c, NEW ls, NEW deadline \in Nat
  PROVE  HintFor(c, ls, deadline) \in Nat /\ HintFor(c, ls, deadline) < Idle
<1>1. Idle \in Nat \ {0}
  BY QuotaAssumption DEF QuotaAssumption
<1>2. Idle \div 2 \in Nat /\ Idle \div 2 < Idle
  BY <1>1
<1> DEFINE half == Idle \div 2
<1> HIDE DEF half
<1>3. half \in Nat /\ half < Idle
  BY <1>2 DEF half
<1>4. HintFor(c, ls, deadline) = 0 \/ HintFor(c, ls, deadline) = Min2(deadline, Min2(1, half))
  BY DEF HintFor, half
<1> QED
  BY <1>1, <1>3, <1>4 DEF Min2

\* A reservation renews its lease, and either waits or takes the next start.
Waits(c) ==
  /\ hint' = [hint EXCEPT ![c] = HintFor(c, lease', Max2(Pace(c, lease', target') - since, cool))]
  /\ UNCHANGED <<since, fresh, started>>
Goes(c) ==
  /\ ~(cool > 0) /\ ~(Pace(c, lease', target') > since)
  /\ since' = 0 /\ fresh' = [fresh EXCEPT ![c] = @ + 1] /\ started' = TRUE /\ UNCHANGED hint

LEMMA ReserveCases ==
  ASSUME NEW c \in Clients, Reserve(c)
  PROVE  /\ status[c] = "open" /\ hint[c] = 0 /\ fresh[c] + stale[c] < MaxInFlight
         /\ lease' = [lease EXCEPT ![c] = Idle]
         /\ Learn(c) \/ UNCHANGED <<controller, pend>>
         /\ Waits(c) \/ Goes(c)
         /\ UNCHANGED <<cool, stale, status, rejections, blocked, earned>>
  BY Zenon DEF Reserve, Waits, Goes

LEMMA ReserveRate ==
  ASSUME RateType, NEW c \in Clients, Reserve(c)
  PROVE  /\ target' \in 1..Slowest /\ successes' \in 0..Enough /\ pend' \in [Clients -> 0..Enough]
         /\ target' \in Nat /\ target' <= target
         /\ hold' = hold /\ (window' = 0 \/ window' = window)
<1>1. CASE Learn(c)
  BY <1>1, LearnType
<1>2. CASE UNCHANGED <<controller, pend>>
  BY <1>2, QuotaAssumption DEF RateType, controller, QuotaAssumption
<1> QED
  BY <1>1, <1>2, ReserveCases

LEMMA ReservePace ==
  ASSUME TypeOK, NEW c \in Clients, Reserve(c)
  PROVE  /\ lease' \in [Clients -> 0..Idle] /\ c \in Registered(lease')
         /\ Registered(lease) \subseteq Registered(lease')
         /\ Pace(c, lease', target') \in Nat
         /\ \A d \in Registered(lease) : IntervalOf(d, target') <= Pace(c, lease', target')
<1>1. lease \in [Clients -> 0..Idle] /\ Idle \in Nat \ {0}
  BY QuotaAssumption DEF TypeOK, QuotaAssumption
<1>2. lease' = [lease EXCEPT ![c] = Idle]
  BY ReserveCases
<1>3. lease' \in [Clients -> 0..Idle] /\ c \in Registered(lease') /\ Registered(lease) \subseteq Registered(lease')
  BY <1>1, <1>2 DEF Registered
<1>4. target' \in Nat
  BY ReserveRate, TypeParts
<1>5. /\ Pace(c, lease', target') \in Nat
      /\ \A d \in Registered(lease') : IntervalOf(d, target') <= Pace(c, lease', target')
  BY <1>3, <1>4, PaceIsSlowest
<1> QED
  BY <1>3, <1>5

LEMMA ReserveType ==
  ASSUME TypeOK, NEW c \in Clients, Reserve(c)
  PROVE  TypeOK'
<1>1. /\ lease' \in [Clients -> 0..Idle] /\ Pace(c, lease', target') \in Nat
  BY ReservePace
<1>2. RateType /\ ClockType /\ FlightType
  BY TypeParts
<1> DEFINE pace == Pace(c, lease', target')
<1>3. since \in Nat /\ since <= Longest /\ cool \in Nat /\ hint \in [Clients -> Nat] /\ Longest \in Nat
  BY <1>2, LongestType DEF ClockType
<1>4. Waits(c) \/ Goes(c)
  BY ReserveCases
<1>5. hint' \in [Clients -> Nat]
  <2>1. CASE Goes(c)
    BY <1>3, <2>1 DEF Goes
  <2>2. CASE Waits(c)
    <3> DEFINE deadline == Max2(pace - since, cool)
    <3>1. deadline \in Nat
      <4> HIDE DEF pace
      <4>1. pace \in Nat
        BY <1>1 DEF pace
      <4> QED BY <1>3, <4>1 DEF Max2
    <3>2. hint' = [hint EXCEPT ![c] = HintFor(c, lease', deadline)]
      BY <2>2 DEF Waits
    <3> HIDE DEF deadline
    <3>3. HintFor(c, lease', deadline) \in Nat
      BY <3>1, HintType
    <3> QED
      BY <1>3, <3>2, <3>3
  <2> QED
    BY <1>4, <2>1, <2>2
<1>6. since' \in 0..Longest /\ started' \in BOOLEAN /\ fresh' \in [Clients -> Nat]
      /\ \A d \in Clients : fresh'[d] + stale[d] <= MaxInFlight
  <2>1. CASE UNCHANGED <<since, fresh, started>>
    <3>1. started' \in BOOLEAN
      BY <1>2, <2>1 DEF RateType
    <3> QED
      BY <1>2, <1>3, <2>1, <3>1 DEF FlightType
  <2>2. CASE since' = 0 /\ fresh' = [fresh EXCEPT ![c] = @ + 1] /\ started' = TRUE
    <3>1. fresh[c] + stale[c] < MaxInFlight
      BY ReserveCases
    <3>2. fresh \in [Clients -> Nat] /\ stale \in [Clients -> Nat] /\ MaxInFlight \in Nat
          /\ \A d \in Clients : fresh[d] + stale[d] <= MaxInFlight
      BY <1>2, QuotaAssumption DEF FlightType, QuotaAssumption
    <3>3. fresh' \in [Clients -> Nat] /\ \A d \in Clients : fresh'[d] + stale[d] <= MaxInFlight
      BY <2>2, <3>1, <3>2
    <3>4. started' \in BOOLEAN
      BY <2>2, Zenon
    <3> QED
      BY <1>3, <2>2, <3>3, <3>4
  <2> QED
    BY <1>4, <2>1, <2>2, Zenon DEF Waits, Goes
<1>7. /\ target' \in 1..Slowest /\ successes' \in 0..Enough /\ pend' \in [Clients -> 0..Enough]
      /\ hold' = hold /\ (window' = 0 \/ window' = window)
  BY <1>2, ReserveRate
<1>8. UNCHANGED <<cool, stale, status, rejections, blocked, earned>>
  BY ReserveCases
<1>9. ClockType'
  BY <1>1, <1>2, <1>5, <1>6, <1>7, <1>8 DEF ClockType
<1>10. RateType'
  <2>1. earned' \in 0..Enough
    BY <1>2, <1>8 DEF RateType
  <2> QED
    BY <1>6, <1>7, <2>1 DEF RateType
<1>11. FlightType'
  BY <1>2, <1>6, <1>8 DEF FlightType
<1> QED
  BY <1>9, <1>10, <1>11 DEF TypeOK, ClockType, RateType, FlightType

\* One request less in flight.
LEMMA LessInFlight ==
  ASSUME FlightType, NEW c \in Clients,
         \/ fresh[c] > 0 /\ fresh' = [fresh EXCEPT ![c] = @ - 1] /\ UNCHANGED stale
         \/ stale[c] > 0 /\ stale' = [stale EXCEPT ![c] = @ - 1] /\ UNCHANGED fresh
  PROVE  /\ fresh' \in [Clients -> Nat] /\ stale' \in [Clients -> Nat]
         /\ \A d \in Clients : fresh'[d] + stale'[d] <= MaxInFlight
<1>1. /\ fresh \in [Clients -> Nat] /\ stale \in [Clients -> Nat] /\ MaxInFlight \in Nat
      /\ \A d \in Clients : fresh[d] + stale[d] <= MaxInFlight
  BY QuotaAssumption DEF FlightType, QuotaAssumption
<1>2. CASE fresh[c] > 0 /\ fresh' = [fresh EXCEPT ![c] = @ - 1] /\ UNCHANGED stale
  BY <1>1, <1>2
<1>3. CASE stale[c] > 0 /\ stale' = [stale EXCEPT ![c] = @ - 1] /\ UNCHANGED fresh
  BY <1>1, <1>3
<1> QED
  BY <1>2, <1>3

LEMMA SuccessType ==
  ASSUME TypeOK, NEW c \in Clients, Success(c)
  PROVE  TypeOK'
<1>1. ClockType /\ RateType /\ FlightType
  BY TypeParts
<1>2. UNCHANGED <<shared, controller, hint, status, rejections, blocked, started>>
  BY DEF Success
<1>3. /\ fresh' \in [Clients -> Nat] /\ stale' \in [Clients -> Nat]
      /\ \A d \in Clients : fresh'[d] + stale'[d] <= MaxInFlight
  BY <1>1, LessInFlight, Zenon DEF Success
<1>4. pend' \in [Clients -> 0..Enough] /\ earned' \in 0..Enough
  <2>1. Enough \in Nat /\ pend \in [Clients -> 0..Enough] /\ earned \in 0..Enough
    BY <1>1, QuotaAssumption DEF RateType, QuotaAssumption
  <2>2. CASE UNCHANGED <<pend, earned>>
    BY <2>1, <2>2
  <2>3. CASE pend' = [pend EXCEPT ![c] = Min2(Enough, @ + 1)] /\ earned' = Min2(Enough, earned + 1)
    BY <2>1, <2>3 DEF Min2
  <2> QED
    BY <2>2, <2>3, Zenon DEF Success
<1>5. ClockType'
  BY <1>1, <1>2 DEF ClockType, shared, controller
<1>6. FlightType'
  BY <1>1, <1>2, <1>3 DEF FlightType
<1>7. RateType'
  BY <1>1, <1>2, <1>4 DEF RateType, controller
<1> QED
  BY <1>5, <1>6, <1>7 DEF TypeOK, ClockType, RateType, FlightType

LEMMA OtherType ==
  ASSUME TypeOK, NEW c \in Clients, Other(c)
  PROVE  TypeOK'
<1>1. ClockType /\ RateType /\ FlightType
  BY TypeParts
<1>2. UNCHANGED <<shared, controller, pend, hint, status, rejections, history>>
  BY DEF Other
<1>3. /\ fresh' \in [Clients -> Nat] /\ stale' \in [Clients -> Nat]
      /\ \A d \in Clients : fresh'[d] + stale'[d] <= MaxInFlight
  BY <1>1, LessInFlight, Zenon DEF Other
<1>4. ClockType' /\ FlightType' /\ RateType'
  <2>1. ClockType'
    BY <1>1, <1>2 DEF ClockType, shared, controller, history
  <2>2. RateType'
    BY <1>1, <1>2 DEF RateType, controller, history
  <2> QED
    BY <1>1, <1>2, <1>3, <2>1, <2>2 DEF FlightType
<1> QED
  BY <1>4 DEF TypeOK, ClockType, RateType, FlightType

\* What a rejection does to the rate and the requests in flight.
Cuts(c, seconds) ==
  /\ fresh[c] > 0
  /\ target' = Min2(Slowest, target + 1) /\ successes' = 0 /\ window' = 0
  /\ hold' = Max2(MinHold, seconds)
  /\ pend' = [d \in Clients |-> 0] /\ earned' = 0 /\ started' = FALSE
  /\ fresh' = [d \in Clients |-> 0]
  /\ stale' = [d \in Clients |-> fresh[d] + stale[d] - (IF d = c THEN 1 ELSE 0)]
Spares(c) ==
  /\ \/ fresh[c] > 0 /\ fresh' = [fresh EXCEPT ![c] = @ - 1] /\ UNCHANGED stale
     \/ stale[c] > 0 /\ stale' = [stale EXCEPT ![c] = @ - 1] /\ UNCHANGED fresh
  /\ successes' \in {0, successes} /\ window' \in {0, window}
  /\ UNCHANGED <<target, hold, pend, earned, started>>

LEMMA RejectCases ==
  ASSUME TypeOK, NEW c \in Clients, NEW seconds \in Delays, Reject(c, seconds)
  PROVE  /\ rejections < MaxRejections /\ rejections' = rejections + 1
         /\ cool' = Max2(cool, Max2(1, seconds)) /\ blocked' = Max2(blocked, Max2(1, seconds))
         /\ hint' = [hint EXCEPT ![c] = 0]
         /\ Cuts(c, Max2(1, seconds)) \/ Spares(c)
         /\ UNCHANGED <<since, lease, status>>
<1> DEFINE s == Max2(1, seconds)
<1>1. fresh[c] \in Nat /\ stale[c] \in Nat /\ fresh[c] + stale[c] > 0
  BY DEF TypeOK, Reject
<1>2. ASSUME NEW isFresh \in BOOLEAN, IF isFresh THEN fresh[c] > 0 ELSE stale[c] > 0, Cut(c, isFresh, s)
      PROVE  Cuts(c, s) \/ Spares(c)
  <2>1. CASE isFresh
    BY <1>2, <2>1, Zenon DEF Cut, Cuts
  <2>2. CASE ~isFresh
    <3>1. /\ stale[c] > 0 /\ stale' = [stale EXCEPT ![c] = @ - 1]
          /\ successes' = (IF Rested THEN 0 ELSE successes)
          /\ window' = (IF Rested THEN 0 ELSE window)
          /\ UNCHANGED <<target, hold, pend, fresh, earned, started>>
      BY <1>2, <2>2, Zenon DEF Cut
    <3>2. successes' \in {0, successes} /\ window' \in {0, window}
      BY <3>1, Zenon
    <3> QED
      BY <3>1, <3>2, Zenon DEF Spares
  <2> QED BY <2>1, <2>2
<1>3. ASSUME ~Adaptive(c) PROVE Spares(c)
  <2>1. /\ IF fresh[c] > 0 THEN fresh' = [fresh EXCEPT ![c] = @ - 1] /\ UNCHANGED stale
           ELSE stale' = [stale EXCEPT ![c] = @ - 1] /\ UNCHANGED fresh
        /\ UNCHANGED <<controller, pend, earned, started>>
    BY <1>3, Zenon DEF Reject
  <2>2. ~(fresh[c] > 0) => stale[c] > 0
    BY <1>1
  <2>3. \/ fresh[c] > 0 /\ fresh' = [fresh EXCEPT ![c] = @ - 1] /\ UNCHANGED stale
        \/ stale[c] > 0 /\ stale' = [stale EXCEPT ![c] = @ - 1] /\ UNCHANGED fresh
    BY <2>1, <2>2, Zenon
  <2>4. /\ successes' = successes /\ window' = window
        /\ UNCHANGED <<target, hold, pend, earned, started>>
    BY <2>1, Zenon DEF controller
  <2>5. successes' \in {0, successes} /\ window' \in {0, window}
    BY <2>4, Zenon
  <2> QED
    BY <2>3, <2>4, <2>5, Zenon DEF Spares
<1>4. Cuts(c, s) \/ Spares(c)
  BY <1>2, <1>3, Zenon DEF Reject
<1> QED
  BY <1>4, Zenon DEF Reject, Cool

LEMMA RejectType ==
  ASSUME TypeOK, NEW c \in Clients, NEW seconds \in Delays, Reject(c, seconds)
  PROVE  TypeOK'
<1> DEFINE s == Max2(1, seconds)
<1>1. ClockType /\ RateType /\ FlightType
  BY TypeParts
<1>2. s \in Nat
  BY QuotaAssumption DEF QuotaAssumption, Max2
<1>3. /\ rejections < MaxRejections /\ rejections' = rejections + 1
      /\ cool' = Max2(cool, s) /\ blocked' = Max2(blocked, s)
      /\ hint' = [hint EXCEPT ![c] = 0]
      /\ Cuts(c, s) \/ Spares(c)
      /\ UNCHANGED <<since, lease, status>>
  BY RejectCases
<1> HIDE DEF s
<1>4. cool' \in Nat /\ blocked' \in Nat /\ hint' \in [Clients -> Nat] /\ rejections' \in 0..MaxRejections
  BY <1>1, <1>2, <1>3, QuotaAssumption DEF ClockType, FlightType, Max2, QuotaAssumption
<1>5. hold' \in Nat /\ window' \in Nat
  <2>1. CASE Cuts(c, s)
    BY <1>2, <2>1, QuotaAssumption DEF Cuts, Max2, QuotaAssumption
  <2>2. CASE Spares(c)
    BY <1>1, <2>2 DEF Spares, ClockType
  <2> QED BY <1>3, <2>1, <2>2
<1>6. RateType'
  <2>1. CASE Cuts(c, s)
    <3>1. started' \in BOOLEAN
      BY <2>1, Zenon DEF Cuts
    <3>2. Slowest \in Nat \ {0} /\ Enough \in Nat
      BY QuotaAssumption DEF QuotaAssumption
    <3>3. target' = Min2(Slowest, target + 1) /\ successes' = 0 /\ pend' = [d \in Clients |-> 0] /\ earned' = 0
      BY <2>1, Zenon DEF Cuts
    <3>4. target' \in 1..Slowest
      BY <1>1, <3>2, <3>3 DEF RateType, Min2
    <3> QED
      BY <3>1, <3>2, <3>3, <3>4 DEF RateType
  <2>2. CASE Spares(c)
    <3>1. successes' = 0 \/ successes' = successes
      BY <2>2 DEF Spares
    <3>2. UNCHANGED <<target, hold, pend, earned, started>>
      BY <2>2 DEF Spares
    <3>3. successes' \in 0..Enough
      BY <1>1, <3>1, QuotaAssumption DEF RateType, QuotaAssumption
    <3> QED
      BY <1>1, <3>2, <3>3 DEF RateType
  <2> QED BY <1>3, <2>1, <2>2
<1>7. /\ fresh' \in [Clients -> Nat] /\ stale' \in [Clients -> Nat]
      /\ \A d \in Clients : fresh'[d] + stale'[d] <= MaxInFlight
  <2>1. CASE Cuts(c, s)
    <3>1. fresh[c] > 0 /\ fresh' = [d \in Clients |-> 0]
          /\ stale' = [d \in Clients |-> fresh[d] + stale[d] - (IF d = c THEN 1 ELSE 0)]
      BY <2>1, Zenon DEF Cuts
    <3>2. \A d \in Clients : fresh[d] \in Nat /\ stale[d] \in Nat /\ fresh[d] + stale[d] <= MaxInFlight
      BY <1>1 DEF FlightType
    <3>3. MaxInFlight \in Nat
      BY QuotaAssumption DEF QuotaAssumption
    <3>4. \A d \in Clients : /\ fresh[d] + stale[d] - (IF d = c THEN 1 ELSE 0) \in Nat
                             /\ fresh[d] + stale[d] - (IF d = c THEN 1 ELSE 0) <= MaxInFlight
      BY <3>1, <3>2, <3>3
    <3> QED
      BY <3>1, <3>4
  <2>2. CASE Spares(c)
    BY <1>1, <2>2, LessInFlight, Zenon DEF Spares
  <2> QED BY <1>3, <2>1, <2>2
<1>8. ClockType'
  BY <1>1, <1>3, <1>4, <1>5 DEF ClockType
<1>9. FlightType'
  BY <1>1, <1>3, <1>4, <1>7 DEF FlightType
<1> QED
  BY <1>6, <1>8, <1>9 DEF TypeOK, ClockType, RateType, FlightType

LEMMA StepType ==
  ASSUME TypeOK, [Next]_vars
  PROVE  TypeOK'
<1>1. ASSUME NEW c \in Clients, Answer(c) PROVE TypeOK'
  BY <1>1, SuccessType, OtherType, RejectType DEF Answer
<1>2. ASSUME NEW c \in Clients, Open(c) PROVE TypeOK'
  BY <1>2 DEF TypeOK, Open, shared, controller, history
<1>3. ASSUME NEW c \in Clients, Close(c) PROVE TypeOK'
  <2>1. lease' \in [Clients -> 0..Idle]
    BY <1>3, QuotaAssumption DEF TypeOK, Close, QuotaAssumption
  <2>2. status' \in [Clients -> {"new", "open", "closed", "crashed"}]
    BY <1>3 DEF TypeOK, Close
  <2>3. UNCHANGED <<since, cool, controller, pend, fresh, stale, hint, rejections, history>>
    BY <1>3 DEF Close
  <2> QED
    BY <2>1, <2>2, <2>3 DEF TypeOK, controller, history
<1>4. ASSUME NEW c \in Clients, Crash(c) PROVE TypeOK'
  <2>1. ClockType /\ RateType /\ FlightType
    BY TypeParts
  <2>2. /\ status' = [status EXCEPT ![c] = "crashed"]
        /\ fresh' = [fresh EXCEPT ![c] = 0] /\ stale' = [stale EXCEPT ![c] = 0]
        /\ pend' = [pend EXCEPT ![c] = 0] /\ hint' = [hint EXCEPT ![c] = 0]
        /\ UNCHANGED <<shared, controller, rejections, history>>
    BY <1>4 DEF Crash
  <2>3. ClockType'
    BY <2>1, <2>2 DEF ClockType, shared, controller, history
  <2>4. RateType'
    BY <2>1, <2>2, QuotaAssumption DEF RateType, controller, history, QuotaAssumption
  <2>5. FlightType'
    BY <2>1, <2>2, QuotaAssumption DEF FlightType, QuotaAssumption
  <2> QED
    BY <2>3, <2>4, <2>5 DEF TypeOK, ClockType, RateType, FlightType
<1>5. CASE Tick
  <2>1. ClockType /\ RateType /\ FlightType
    BY TypeParts
  <2>2. Longest \in Nat /\ Idle \in Nat /\ Window \in Nat
    BY LongestType, QuotaAssumption DEF QuotaAssumption
  <2>3. ClockType'
    <3>1. since' \in 0..Longest /\ cool' \in Nat /\ blocked' \in Nat /\ hold' \in Nat
      BY <1>5, <2>1, <2>2 DEF Tick, ClockType, Min2, Less
    <3>2. window' \in Nat
      BY <1>5, <2>1, <2>2 DEF Tick, ClockType, Min2, Max2
    <3>3. lease' \in [Clients -> 0..Idle] /\ hint' \in [Clients -> Nat]
      BY <1>5, <2>1, <2>2 DEF Tick, ClockType, Less
    <3> QED BY <3>1, <3>2, <3>3 DEF ClockType
  <2>4. RateType' /\ FlightType'
    BY <1>5, <2>1 DEF Tick, RateType, FlightType
  <2> QED
    BY <2>3, <2>4 DEF TypeOK, ClockType, RateType, FlightType
<1>6. CASE UNCHANGED vars
  BY <1>6 DEF TypeOK, vars, shared, controller, local, history
<1> QED
  BY <1>1, <1>2, <1>3, <1>4, <1>5, <1>6, ReserveType DEF Next

\* Every variable keeps its type, whatever clients, intervals and delays there
\* are: counts are bounded, and no client holds more requests than it may.
THEOREM TypeCorrect == Spec => []TypeOK
  BY TypeInit, StepType, PTL DEF Spec

-----------------------------------------------------------------------------
(* The gate, and cuts                                                      *)

\* The gate covers every reported cooldown, and a request of the current
\* generation is in flight only after a start since the last cut.
GateInv ==
  /\ cool \in Nat /\ blocked \in Nat /\ blocked <= cool
  /\ fresh \in [Clients -> Nat]
  /\ started \in BOOLEAN
  /\ \A c \in Clients : fresh[c] > 0 => started

\* The shared interval is a number.
TargetInv == target \in Int

LEMMA InitGate == Init => GateInv
<1> SUFFICES ASSUME Init PROVE GateInv
  OBVIOUS
<1>1. started \in BOOLEAN
  BY Zenon DEF Init
<1>2. fresh = [c \in Clients |-> 0] /\ cool = 0 /\ blocked = 0
  BY DEF Init
<1>3. QED
  BY <1>1, <1>2 DEF GateInv

\* Reserving a start leaves the gate and only starts where it is open.
LEMMA ReserveGate ==
  ASSUME GateInv, NEW c \in Clients, Reserve(c)
  PROVE  GateInv' /\ cool' = cool /\ blocked' = blocked /\ (fresh' # fresh => cool = 0)
<1>1. cool' = cool /\ blocked' = blocked
  BY DEF Reserve
<1>2. CASE UNCHANGED <<since, fresh, started>>
  BY <1>1, <1>2 DEF GateInv
<1>3. CASE cool <= 0 /\ fresh' = [fresh EXCEPT ![c] = @ + 1] /\ started' = TRUE
  BY <1>1, <1>3 DEF GateInv
<1>4. QED
  <2>1. cool \in Nat
    BY DEF GateInv
  <2>2. \/ UNCHANGED <<since, fresh, started>>
        \/ ~(cool > 0) /\ fresh' = [fresh EXCEPT ![c] = @ + 1] /\ started' = TRUE
    BY Zenon DEF Reserve
  <2>3. ~(cool > 0) => cool <= 0
    BY <2>1
  <2>4. QED
    BY <1>2, <1>3, <2>2, <2>3, Zenon

\* An answer starts nothing, and a rejection only lengthens the cooldown.
LEMMA AnswerGate ==
  ASSUME QuotaAssumption, GateInv, NEW c \in Clients, Answer(c)
  PROVE  GateInv' /\ \A d \in Clients : fresh'[d] <= fresh[d]
<1>1. CASE Success(c)
  <2>1. cool' = cool /\ blocked' = blocked /\ started' = started
    BY <1>1 DEF Success, shared
  <2>2. CASE fresh[c] > 0 /\ fresh' = [fresh EXCEPT ![c] = @ - 1]
    BY <2>1, <2>2 DEF GateInv
  <2>3. CASE fresh' = fresh
    BY <2>1, <2>3 DEF GateInv
  <2>4. QED
    BY <1>1, <2>2, <2>3 DEF Success
<1>2. CASE Other(c)
  <2>1. cool' = cool /\ blocked' = blocked /\ started' = started
    BY <1>2 DEF Other, shared, history
  <2>2. CASE fresh[c] > 0 /\ fresh' = [fresh EXCEPT ![c] = @ - 1]
    BY <2>1, <2>2 DEF GateInv
  <2>3. CASE fresh' = fresh
    BY <2>1, <2>3 DEF GateInv
  <2>4. QED
    BY <1>2, <2>2, <2>3 DEF Other
<1>3. ASSUME NEW seconds \in Delays, Reject(c, seconds)
      PROVE  GateInv' /\ \A d \in Clients : fresh'[d] <= fresh[d]
  <2>1. seconds \in Nat
    BY <1>3 DEF QuotaAssumption
  <2>2. cool' \in Nat /\ blocked' \in Nat /\ blocked' <= cool'
    <3>1. cool' = Max2(cool, Max2(1, seconds)) /\ blocked' = Max2(blocked, Max2(1, seconds))
      BY <1>3 DEF Reject, Cool
    <3>2. QED
      BY <2>1, <3>1 DEF GateInv, Max2
  <2>3. CASE fresh' = [d \in Clients |-> 0] /\ started' = FALSE
    <3>1. started' \in BOOLEAN
      BY <2>3, Zenon
    <3>2. \A d \in Clients : fresh'[d] = 0 /\ fresh[d] \in Nat
      BY <2>3 DEF GateInv
    <3>3. fresh' \in [Clients -> Nat]
      BY <2>3
    <3>4. QED
      BY <2>2, <3>1, <3>2, <3>3 DEF GateInv
  <2>4. CASE fresh[c] > 0 /\ fresh' = [fresh EXCEPT ![c] = @ - 1] /\ started' = started
    BY <2>2, <2>4 DEF GateInv
  <2>5. CASE fresh' = fresh /\ started' = started
    BY <2>2, <2>5 DEF GateInv
  <2>6. QED
    <3>1. \/ \E isFresh \in BOOLEAN : Cut(c, isFresh, Max2(1, seconds))
          \/ /\ UNCHANGED <<controller, pend, earned, started>>
             /\ \/ fresh[c] > 0 /\ fresh' = [fresh EXCEPT ![c] = @ - 1]
                \/ fresh' = fresh
      BY <1>3, Zenon DEF Reject
    <3>2. ASSUME NEW isFresh \in BOOLEAN, Cut(c, isFresh, Max2(1, seconds))
          PROVE  \/ fresh' = [d \in Clients |-> 0] /\ started' = FALSE
                 \/ fresh' = fresh /\ started' = started
      BY <3>2, Zenon DEF Cut
    <3>3. QED
      BY <2>3, <2>4, <2>5, <3>1, <3>2
<1>4. QED
  BY <1>1, <1>2, <1>3 DEF Answer

\* Every step keeps the gate, and only a reservation at an open gate starts.
LEMMA StepGate ==
  ASSUME QuotaAssumption, GateInv, [Next]_vars
  PROVE  GateInv' /\ (Starts => cool = 0)
<1>1. ASSUME NEW c \in Clients, Reserve(c) PROVE GateInv' /\ (Starts => cool = 0)
  <2>1. GateInv' /\ (fresh' # fresh => cool = 0)
    BY <1>1, ReserveGate
  <2>2. \A d \in Clients : fresh[d] \in Nat
    BY DEF GateInv
  <2>3. Starts => fresh' # fresh
    BY <2>2 DEF Starts
  <2>4. QED
    BY <2>1, <2>3
<1>2. ASSUME NEW c \in Clients, Answer(c) PROVE GateInv' /\ (Starts => cool = 0)
  <2>1. GateInv' /\ \A d \in Clients : fresh'[d] <= fresh[d]
    BY <1>2, AnswerGate
  <2>2. \A d \in Clients : fresh[d] \in Nat /\ fresh'[d] \in Nat
    BY <2>1 DEF GateInv
  <2>3. QED
    BY <2>1, <2>2 DEF Starts
<1>3. ASSUME NEW c \in Clients, Crash(c) PROVE GateInv' /\ (Starts => cool = 0)
  BY <1>3 DEF Crash, shared, history, GateInv, Starts
<1>4. CASE UNCHANGED <<cool, blocked, fresh, started>>
  BY <1>4 DEF GateInv, Starts
<1>5. CASE Tick
  BY <1>5 DEF Tick, GateInv, Starts, Less
<1>6. ASSUME NEW c \in Clients, Open(c) \/ Close(c) PROVE UNCHANGED <<cool, blocked, fresh, started>>
  BY <1>6 DEF Open, Close, shared, history
<1>7. CASE UNCHANGED vars
  BY <1>4, <1>7 DEF vars, shared, local, history
<1>8. QED
  BY <1>1, <1>2, <1>3, <1>4, <1>5, <1>6, <1>7 DEF Next

LEMMA Gate == Spec => []GateInv
  BY QuotaAssumption, InitGate, StepGate, PTL DEF Spec

\* No client starts a request before every published Retry-After has passed
\* (reserve and cooldown), whatever their number, rates and order.
THEOREM CooldownHolds == Spec => NoStartInCooldown
<1>1. ASSUME GateInv, [Next]_vars PROVE [Starts => blocked = 0]_vars
  <2>1. Starts => cool = 0
    BY <1>1, QuotaAssumption, StepGate
  <2>2. cool \in Nat /\ blocked \in Nat /\ blocked <= cool
    BY <1>1 DEF GateInv
  <2>3. cool = 0 => blocked = 0
    BY <2>2
  <2>4. QED
    BY <2>1, <2>3
<1>2. QED
  BY <1>1, Gate, PTL DEF Spec, NoStartInCooldown

\* Requests rejected together cut the shared rate once (_AdaptiveState.pressure).
THEOREM OneCut == Spec => OneCutPerEpisode
<1>1. ASSUME GateInv, TargetInv, [Next]_vars
      PROVE  TargetInv' /\ [target' > target => started]_vars
  <2>1. ASSUME NEW c \in Clients, Reserve(c) PROVE TargetInv' /\ ~(target' > target)
    <3>1. target' = target \/ target' = target - 1
      BY <2>1, Zenon DEF Reserve, Learn, controller
    <3>2. QED
      BY <1>1, <3>1 DEF TargetInv
  <2>2. ASSUME NEW c \in Clients, Answer(c) PROVE TargetInv' /\ (target' > target => started)
    <3>1. CASE UNCHANGED target
      BY <1>1, <3>1 DEF TargetInv
    <3>2. ASSUME NEW seconds \in Delays, Reject(c, seconds), ~UNCHANGED target
          PROVE  TargetInv' /\ started
      <4>1. fresh[c] > 0 /\ target' = Min2(Slowest, target + 1)
        BY <3>2, Zenon DEF Reject, Cut, controller
      <4>2. QED
        BY <1>1, <4>1, QuotaAssumption DEF GateInv, TargetInv, QuotaAssumption, Min2
    <3>3. ~UNCHANGED target => \E seconds \in Delays : Reject(c, seconds)
      BY <2>2 DEF Answer, Success, Other, controller
    <3>4. QED
      BY <3>1, <3>2, <3>3
  <2>3. CASE UNCHANGED target
    BY <1>1, <2>3 DEF TargetInv
  <2>4. ASSUME NEW c \in Clients, Open(c) \/ Close(c) \/ Crash(c) PROVE UNCHANGED target
    BY <2>4 DEF Open, Close, Crash, controller
  <2>5. Tick \/ UNCHANGED vars => UNCHANGED target
    BY DEF Tick, vars, controller
  <2>6. QED
    BY <1>1, <2>1, <2>2, <2>3, <2>4, <2>5 DEF Next
<1>2. Init => TargetInv
  BY QuotaAssumption DEF Init, TargetInv, QuotaAssumption
<1>3. QED
  BY <1>1, <1>2, Gate, PTL DEF Spec, OneCutPerEpisode

-----------------------------------------------------------------------------
(* Spacing                                                                 *)

\* Only a reservation that does not wait starts a request.
LEMMA OnlyReserveStarts ==
  ASSUME TypeOK, GateInv, [Next]_vars, Starts
  PROVE  \E c \in Clients : Reserve(c) /\ Goes(c)
<1>1. \A d \in Clients : fresh[d] \in Nat
  BY DEF TypeOK
<1>2. PICK d \in Clients : fresh'[d] > fresh[d]
  BY DEF Starts
<1>3. ASSUME NEW c \in Clients, Reserve(c) PROVE Goes(c)
  <2>1. Waits(c) => fresh' = fresh
    BY DEF Waits
  <2> QED BY <1>1, <1>2, <1>3, <2>1, ReserveCases
<1>4. ASSUME NEW c \in Clients, Answer(c) PROVE FALSE
  <2>1. GateInv' /\ \A e \in Clients : fresh'[e] <= fresh[e]
    BY <1>4, AnswerGate, QuotaAssumption
  <2>2. fresh[d] \in Nat /\ fresh'[d] \in Nat
    BY <2>1 DEF GateInv
  <2> QED BY <1>2, <2>1, <2>2
<1>5. ASSUME UNCHANGED fresh PROVE FALSE
  BY <1>1, <1>2, <1>5
<1>6. ASSUME NEW c \in Clients, Crash(c) PROVE FALSE
  <2>1. fresh' = [fresh EXCEPT ![c] = 0]
    BY <1>6 DEF Crash
  <2> QED BY <1>1, <1>2, <2>1 DEF TypeOK
<1>7. ASSUME NEW c \in Clients, Open(c) \/ Close(c) PROVE UNCHANGED fresh
  BY <1>7 DEF Open, Close
<1>8. Tick \/ UNCHANGED vars => UNCHANGED fresh
  BY DEF Tick, vars, local
<1> QED
  BY <1>3, <1>4, <1>5, <1>6, <1>7, <1>8 DEF Next

LEMMA StartSpaced ==
  ASSUME TypeOK, GateInv, [Next]_vars, Starts
  PROVE  \A c \in Registered(lease) : ~Adaptive(c) => since >= Fixed[c]
<1>1. PICK r \in Clients : Reserve(r) /\ Goes(r)
  BY OnlyReserveStarts
<1> SUFFICES ASSUME NEW c \in Registered(lease), ~Adaptive(c) PROVE since >= Fixed[c]
  OBVIOUS
<1> DEFINE pace == Pace(r, lease', target')
<1>2. pace \in Nat /\ IntervalOf(c, target') <= pace
  BY <1>1, ReservePace
<1>3. IntervalOf(c, target') = Fixed[c]
  BY DEF IntervalOf
<1>4. ~(pace > since)
  BY <1>1 DEF Goes
<1> HIDE DEF pace
<1>5. since \in Nat /\ Fixed[c] \in Nat
  BY LongestType DEF TypeOK, Registered
<1> QED
  BY <1>2, <1>3, <1>4, <1>5

-----------------------------------------------------------------------------
(* What is earned                                                          *)

\* The successes that clients have buffered, one element for each.
Column(c, n) == {<<c, i>> : i \in 1..n}
Buffered == {p \in Clients \X (1..Enough) : p[2] <= pend[p[1]]}

\* What the controller and the clients have counted was earned since the last
\* cut; beyond what a window needs, nobody counts.
EarnedInv == earned >= Enough \/ successes + Cardinality(Buffered) <= earned

LEMMA BufferedFinite == IsFiniteSet(Buffered) /\ Cardinality(Buffered) \in Nat
<1>1. IsFiniteSet(1..Enough)
  BY FS_Interval, QuotaAssumption DEF QuotaAssumption
<1>2. IsFiniteSet(Clients \X (1..Enough))
  BY <1>1, FS_Product, QuotaAssumption DEF QuotaAssumption
<1>3. Buffered \in SUBSET (Clients \X (1..Enough))
  BY DEF Buffered
<1> HIDE DEF Buffered
<1> QED
  BY <1>2, <1>3, FS_Subset, FS_CardinalityType

LEMMA ColumnSize ==
  ASSUME NEW c, NEW n \in Nat
  PROVE  IsFiniteSet(Column(c, n)) /\ Cardinality(Column(c, n)) = n
<1> DEFINE f == [i \in 1..n |-> <<c, i>>]
<1>1. IsFiniteSet(1..n) /\ Cardinality(1..n) = n
  BY FS_Interval
<1>2. f \in [1..n -> Column(c, n)]
  BY DEF Column
<1>3. \A i, j \in 1..n : f[i] = f[j] => i = j
  OBVIOUS
<1>4. \A p \in Column(c, n) : \E i \in 1..n : f[i] = p
  BY DEF Column
<1> HIDE DEF f
<1>5. f \in Bijection(1..n, Column(c, n))
  BY <1>2, <1>3, <1>4 DEF Bijection, Injection, IsInjective, Surjection
<1>6. ExistsBijection(1..n, Column(c, n))
  BY <1>5 DEF ExistsBijection
<1> QED
  BY <1>1, <1>6, FS_Bijection

\* Taking a part of a finite set away, and adding one element to it.
LEMMA TakenSize ==
  ASSUME NEW S, NEW T, IsFiniteSet(S), S \cap T = T
  PROVE  Cardinality(S \ T) = Cardinality(S) - Cardinality(T)
  BY FS_Difference

LEMMA AddedSize ==
  ASSUME NEW S, NEW e, IsFiniteSet(S)
  PROVE  IsFiniteSet(S \cup {e}) /\ Cardinality(S \cup {e}) <= Cardinality(S) + 1
<1>1. Cardinality(S) \in Nat
  BY FS_CardinalityType
<1>2. IsFiniteSet(S \cup {e})
  BY FS_AddElement
<1>3. Cardinality(S \cup {e}) = Cardinality(S) \/ Cardinality(S \cup {e}) = Cardinality(S) + 1
  BY FS_AddElement
<1> QED
  BY <1>1, <1>2, <1>3

\* Taking what a client has buffered takes as many elements as it counted.
LEMMA BufferTaken ==
  ASSUME TypeOK, NEW c \in Clients, pend' = [pend EXCEPT ![c] = 0]
  PROVE  /\ Cardinality(Buffered') = Cardinality(Buffered) - pend[c]
         /\ pend[c] \in Nat /\ pend[c] <= Cardinality(Buffered)
<1>1. pend \in [Clients -> 0..Enough] /\ Enough \in Nat
  BY QuotaAssumption DEF TypeOK, QuotaAssumption
<1>2. pend[c] \in Nat /\ pend[c] <= Enough
  BY <1>1
<1>3. Buffered' = Buffered \ Column(c, pend[c])
  <2>1. \A p \in Clients \X (1..Enough) : p[2] <= pend'[p[1]] <=> p[2] <= pend[p[1]] /\ p \notin Column(c, pend[c])
    <3> SUFFICES ASSUME NEW d \in Clients, NEW i \in 1..Enough
                 PROVE  i <= pend'[d] <=> i <= pend[d] /\ <<d, i>> \notin Column(c, pend[c])
      OBVIOUS
    <3>1. CASE d = c
      <4>1. pend'[d] = 0 /\ ~(i <= 0)
        BY <1>1, <3>1
      <4>2. i <= pend[c] => <<c, i>> \in Column(c, pend[c])
        BY <1>2 DEF Column
      <4> QED BY <3>1, <4>1, <4>2
    <3>2. CASE d # c
      <4>1. <<d, i>> \notin Column(c, pend[c])
        BY <3>2 DEF Column
      <4>2. pend'[d] = pend[d]
        BY <1>1, <3>2
      <4> QED BY <4>1, <4>2
    <3> QED BY <3>1, <3>2
  <2> QED
    BY <2>1 DEF Buffered
<1>4. Buffered \cap Column(c, pend[c]) = Column(c, pend[c])
  BY <1>1, <1>2 DEF Buffered, Column
<1>5. /\ IsFiniteSet(Buffered) /\ Cardinality(Buffered) \in Nat
      /\ Cardinality(Column(c, pend[c])) = pend[c]
  BY <1>2, BufferedFinite, ColumnSize
<1>6. Cardinality(Buffered \ Column(c, pend[c])) = Cardinality(Buffered) - pend[c]
  BY <1>4, <1>5, TakenSize
<1>7. pend[c] <= Cardinality(Buffered)
  <2>1. Column(c, pend[c]) \in SUBSET Buffered
    BY <1>4
  <2> QED BY <1>5, <2>1, FS_Subset
<1> QED
  BY <1>2, <1>3, <1>6, <1>7

\* One more success buffered.
LEMMA BufferAdded ==
  ASSUME TypeOK, NEW c \in Clients, pend' = [pend EXCEPT ![c] = Min2(Enough, @ + 1)]
  PROVE  Cardinality(Buffered') \in Nat /\ Cardinality(Buffered') <= Cardinality(Buffered) + 1
<1>1. pend \in [Clients -> 0..Enough] /\ Enough \in Nat
  BY QuotaAssumption DEF TypeOK, QuotaAssumption
<1>2. pend[c] \in Nat /\ pend[c] <= Enough
  BY <1>1
<1> DEFINE new == <<c, pend[c] + 1>>
<1>3. Buffered' \subseteq Buffered \cup {new}
  <2> SUFFICES ASSUME NEW d \in Clients, NEW i \in 1..Enough, i <= pend'[d], <<d, i>> # new
               PROVE  i <= pend[d]
    BY DEF Buffered
  <2>1. CASE d = c
    <3>1. pend'[c] <= pend[c] + 1
      BY <1>1, <1>2 DEF Min2
    <3>2. i # pend[c] + 1
      BY <2>1
    <3>3. pend'[c] \in Nat
      BY <1>1, <1>2 DEF Min2
    <3> QED BY <1>2, <2>1, <3>1, <3>2, <3>3
  <2>2. CASE d # c
    BY <1>1, <2>2
  <2> QED BY <2>1, <2>2
<1>4. IsFiniteSet(Buffered) /\ Cardinality(Buffered) \in Nat
  BY BufferedFinite
<1> HIDE DEF new
<1>5. IsFiniteSet(Buffered \cup {new}) /\ Cardinality(Buffered \cup {new}) <= Cardinality(Buffered) + 1
  BY <1>4, AddedSize
<1>6. Buffered' \in SUBSET (Buffered \cup {new})
  BY <1>3
<1>7. IsFiniteSet(Buffered') /\ Cardinality(Buffered') <= Cardinality(Buffered \cup {new})
  BY <1>5, <1>6, FS_Subset
<1>8. Cardinality(Buffered') \in Nat /\ Cardinality(Buffered \cup {new}) \in Nat
  BY <1>5, <1>7, FS_CardinalityType
<1> QED
  BY <1>4, <1>5, <1>7, <1>8

LEMMA EarnedInit == Init => EarnedInv
<1> SUFFICES ASSUME Init PROVE EarnedInv
  OBVIOUS
<1>1. Buffered = {}
  BY QuotaAssumption DEF Init, Buffered, QuotaAssumption
<1> QED
  BY <1>1, FS_EmptySet DEF Init, EarnedInv

\* What a client has counted before it may grow was earned.
LEMMA LearnEarned ==
  ASSUME TypeOK, EarnedInv, NEW c \in Clients, Learn(c), UNCHANGED earned
  PROVE  EarnedInv' /\ (target' < target => earned >= Enough /\ hold = 0)
<1>1. /\ Enough \in Nat /\ earned \in Nat /\ successes \in Nat /\ target \in Nat /\ hold \in Nat
  BY QuotaAssumption DEF TypeOK, QuotaAssumption
<1> DEFINE n == Counted(c)
           b == Cardinality(Buffered)
           nb == Cardinality(Buffered')
<1>2. pend' = [pend EXCEPT ![c] = 0]
  BY DEF Learn
<1>3. nb = b - pend[c] /\ pend[c] \in Nat /\ pend[c] <= b /\ b \in Nat
  BY <1>2, BufferTaken, BufferedFinite
<1>4. n \in Nat /\ n <= successes + pend[c]
  <2>1. pend[c] \in Nat
    BY <1>3
  <2> QED
    BY <1>1, <2>1 DEF Counted, Min2
<1>5. successes' = 0 \/ successes' = n
  BY DEF Learn
<1>6. EarnedInv'
  <2>1. earned' = earned
    OBVIOUS
  <2>2. earned >= Enough \/ successes + b <= earned
    BY DEF EarnedInv
  <2> HIDE DEF n, b, nb
  <2>3. earned >= Enough \/ successes' + nb <= earned
    BY <1>1, <1>3, <1>4, <1>5, <2>2
  <2> QED
    BY <2>1, <2>3 DEF EarnedInv, nb
<1>7. ASSUME target' < target PROVE earned >= Enough /\ hold = 0
  <2>1. MayGrow /\ n >= Enough
    BY <1>1, <1>7 DEF Learn
  <2>2. hold = 0
    BY <2>1 DEF MayGrow
  <2>3. earned >= Enough \/ successes + b <= earned
    BY DEF EarnedInv
  <2> HIDE DEF n, b, nb
  <2> QED
    BY <1>1, <1>3, <1>4, <2>1, <2>2, <2>3
<1> QED
  BY <1>6, <1>7

\* Nothing else counts what was not earned, and only what is counted grows.
LEMMA StepEarned ==
  ASSUME TypeOK, EarnedInv, [Next]_vars
  PROVE  EarnedInv' /\ (target' < target => earned >= Enough /\ hold = 0)
<1>1. /\ Enough \in Nat /\ earned \in Nat /\ successes \in Nat /\ target \in 1..Slowest /\ Slowest \in Nat
  BY QuotaAssumption DEF TypeOK, QuotaAssumption
<1>2. CASE UNCHANGED <<target, successes, pend, earned>>
  <2>1. Buffered' = Buffered
    BY <1>2 DEF Buffered
  <2> QED
    BY <1>1, <1>2, <2>1 DEF EarnedInv
<1>3. ASSUME NEW c \in Clients, Reserve(c)
      PROVE  EarnedInv' /\ (target' < target => earned >= Enough /\ hold = 0)
  <2>1. UNCHANGED <<controller, pend>> => UNCHANGED <<target, successes, pend>>
    BY DEF controller
  <2>2. UNCHANGED earned /\ (Learn(c) \/ UNCHANGED <<controller, pend>>)
    BY <1>3, ReserveCases
  <2> QED
    BY <1>2, <2>1, <2>2, LearnEarned
<1>4. ASSUME NEW c \in Clients, Success(c)
      PROVE  EarnedInv' /\ (target' < target => earned >= Enough /\ hold = 0)
  <2>1. UNCHANGED controller
    BY <1>4 DEF Success
  <2>2. UNCHANGED <<target, successes>>
    BY <2>1 DEF controller
  <2>3. CASE UNCHANGED <<pend, earned>>
    BY <1>2, <2>2, <2>3
  <2>4. CASE pend' = [pend EXCEPT ![c] = Min2(Enough, @ + 1)] /\ earned' = Min2(Enough, earned + 1)
    <3> DEFINE b == Cardinality(Buffered)
               nb == Cardinality(Buffered')
    <3>1. nb \in Nat /\ nb <= b + 1 /\ b \in Nat
      BY <2>4, BufferAdded, BufferedFinite
    <3>2. earned >= Enough \/ successes + b <= earned
      BY DEF EarnedInv
    <3> HIDE DEF b, nb
    <3>3. earned' >= Enough \/ successes + nb <= earned'
      BY <1>1, <2>4, <3>1, <3>2 DEF Min2
    <3>4. EarnedInv'
      BY <2>2, <3>3 DEF EarnedInv, nb
    <3> QED
      BY <1>1, <2>2, <3>4
  <2> QED
    BY <1>4, <2>3, <2>4, Zenon DEF Success
<1>5. ASSUME NEW c \in Clients, NEW seconds \in Delays, Reject(c, seconds)
      PROVE  EarnedInv' /\ (target' < target => earned >= Enough /\ hold = 0)
  <2> DEFINE s == Max2(1, seconds)
  <2>1. Cuts(c, s) \/ Spares(c)
    BY <1>5, RejectCases
  <2> HIDE DEF s
  <2>2. CASE Cuts(c, s)
    <3>1. target' = Min2(Slowest, target + 1) /\ successes' = 0 /\ pend' = [d \in Clients |-> 0] /\ earned' = 0
      BY <2>2, Zenon DEF Cuts
    <3>2. Buffered' = {}
      BY <3>1, QuotaAssumption DEF Buffered, QuotaAssumption
    <3>3. EarnedInv'
      BY <3>1, <3>2, FS_EmptySet DEF EarnedInv
    <3>4. ~(target' < target)
      BY <1>1, <3>1 DEF Min2
    <3> QED BY <3>3, <3>4
  <2>3. CASE Spares(c)
    <3>1. (successes' = 0 \/ successes' = successes) /\ UNCHANGED <<target, pend, earned>>
      BY <2>3 DEF Spares
    <3>2. Buffered' = Buffered
      BY <3>1 DEF Buffered
    <3>3. Cardinality(Buffered) \in Nat
      BY BufferedFinite
    <3> QED
      BY <1>1, <3>1, <3>2, <3>3 DEF EarnedInv
  <2> QED BY <2>1, <2>2, <2>3
<1>6. ASSUME NEW c \in Clients, Crash(c)
      PROVE  EarnedInv' /\ (target' < target => earned >= Enough /\ hold = 0)
  <2>1. pend' = [pend EXCEPT ![c] = 0] /\ UNCHANGED <<controller, history>>
    BY <1>6 DEF Crash
  <2>2. UNCHANGED <<target, successes, earned>>
    BY <2>1 DEF controller, history
  <2> DEFINE b == Cardinality(Buffered)
             nb == Cardinality(Buffered')
  <2>3. nb = b - pend[c] /\ pend[c] \in Nat /\ pend[c] <= b /\ b \in Nat
    BY <2>1, BufferTaken, BufferedFinite
  <2>4. earned >= Enough \/ successes + b <= earned
    BY DEF EarnedInv
  <2> HIDE DEF b, nb
  <2>5. earned' >= Enough \/ successes' + nb <= earned'
    BY <1>1, <2>2, <2>3, <2>4
  <2> QED
    BY <1>1, <2>2, <2>5 DEF EarnedInv, nb
<1>7. ASSUME NEW c \in Clients, Open(c) \/ Close(c) \/ Other(c)
      PROVE  UNCHANGED <<target, successes, pend, earned>>
  BY <1>7 DEF Open, Close, Other, controller, history
<1>8. Tick \/ UNCHANGED vars => UNCHANGED <<target, successes, pend, earned>>
  BY DEF Tick, vars, controller, local, history
<1> QED
  BY <1>2, <1>3, <1>4, <1>5, <1>6, <1>7, <1>8 DEF Next, Answer

-----------------------------------------------------------------------------
(* Cached denials                                                          *)

\* A cached denial is shorter than the lease of the client that keeps it.
HintInv == \A c \in Clients : status[c] # "closed" /\ hint[c] > 0 => hint[c] < lease[c]

LEMMA HintInit == Init => HintInv
  BY DEF Init, HintInv

LEMMA StepHint ==
  ASSUME TypeOK, HintInv, [Next]_vars
  PROVE  HintInv'
<1>1. /\ lease \in [Clients -> 0..Idle] /\ hint \in [Clients -> Nat]
      /\ status \in [Clients -> {"new", "open", "closed", "crashed"}] /\ Idle \in Nat \ {0}
  BY QuotaAssumption DEF TypeOK, QuotaAssumption
<1>2. ASSUME NEW c \in Clients, Reserve(c) PROVE HintInv'
  <2>1. lease' = [lease EXCEPT ![c] = Idle] /\ status' = status /\ hint[c] = 0
    BY <1>2, ReserveCases
  <2>2. Waits(c) \/ Goes(c)
    BY <1>2, ReserveCases
  <2>3. CASE Goes(c)
    <3>1. hint' = hint
      BY <2>3 DEF Goes
    <3> QED BY <1>1, <2>1, <3>1 DEF HintInv
  <2>4. CASE Waits(c)
    <3> DEFINE pace == Pace(c, lease', target')
               deadline == Max2(pace - since, cool)
               h == HintFor(c, lease', deadline)
    <3>1. pace \in Nat /\ since \in Nat /\ cool \in Nat
      BY <1>2, ReservePace, LongestType DEF TypeOK
    <3>2. hint' = [hint EXCEPT ![c] = h]
      BY <2>4 DEF Waits
    <3>3. deadline \in Nat
      <4> HIDE DEF pace
      <4> QED BY <3>1 DEF Max2
    <3> HIDE DEF deadline
    <3>4. h \in Nat /\ h < Idle
      BY <3>3, HintType
    <3> HIDE DEF h
    <3> QED
      BY <1>1, <2>1, <3>2, <3>4 DEF HintInv
  <2> QED BY <2>2, <2>3, <2>4
<1>3. ASSUME NEW c \in Clients, NEW seconds \in Delays, Reject(c, seconds) PROVE HintInv'
  <2>1. hint' = [hint EXCEPT ![c] = 0] /\ lease' = lease /\ status' = status
    BY <1>3 DEF Reject
  <2> QED BY <1>1, <2>1 DEF HintInv
<1>4. CASE UNCHANGED <<lease, hint, status>>
  BY <1>4 DEF HintInv
<1>5. ASSUME NEW c \in Clients, Success(c) \/ Other(c) PROVE UNCHANGED <<lease, hint, status>>
  BY <1>5 DEF Success, Other, shared
<1>6. ASSUME NEW c \in Clients, Open(c) PROVE HintInv'
  BY <1>1, <1>6 DEF Open, shared, HintInv
<1>7. ASSUME NEW c \in Clients, Close(c) PROVE HintInv'
  <2>1. /\ status' = [status EXCEPT ![c] = "closed"] /\ hint' = hint
        /\ lease' = [lease EXCEPT ![c] = 0] \/ UNCHANGED lease
    BY <1>7 DEF Close
  <2> QED BY <1>1, <2>1 DEF HintInv
<1>8. ASSUME NEW c \in Clients, Crash(c) PROVE HintInv'
  <2>1. status' = [status EXCEPT ![c] = "crashed"] /\ hint' = [hint EXCEPT ![c] = 0] /\ lease' = lease
    BY <1>8 DEF Crash, shared
  <2> QED BY <1>1, <2>1 DEF HintInv
<1>9. CASE Tick
  <2>1. /\ lease' = [c \in Clients |-> Less(lease[c])] /\ hint' = [c \in Clients |-> Less(hint[c])]
        /\ status' = status
    BY <1>9 DEF Tick
  <2> QED BY <1>1, <2>1 DEF HintInv, Less
<1>10. UNCHANGED vars => UNCHANGED <<lease, hint, status>>
  BY DEF vars, shared, local
<1> QED
  BY <1>2, <1>3, <1>4, <1>5, <1>6, <1>7, <1>8, <1>9, <1>10 DEF Next, Answer

-----------------------------------------------------------------------------
(* Fairness of the pacing                                                  *)

\* _reserve_uncached and pressure() over any number of clients and processes:
\* starts of all clients are spaced as the slowest registered fixed client
\* asks, the shared rate is cut once per episode of rejections, and it grows
\* only on answers earned since that cut and after its hold.
THEOREM PacingFair == Spec => PacingIsFair
<1>1. TypeOK /\ GateInv /\ [Next]_vars =>
        [Starts => \A c \in Registered(lease) : ~Adaptive(c) => since >= Fixed[c]]_vars
  BY StartSpaced
<1>2. TypeOK /\ EarnedInv /\ [Next]_vars =>
        [target' < target => earned >= Enough /\ hold = 0]_vars
  BY StepEarned
<1>3. TypeOK /\ EarnedInv /\ [Next]_vars => EarnedInv'
  BY StepEarned
<1> QED
  BY <1>1, <1>2, <1>3, TypeCorrect, Gate, EarnedInit, OneCut, PTL
  DEF Spec, PacingIsFair, StartsSpaced, RateIsEarned, GrowthIsEarned

\* _HINT_SECONDS: a client that waits on a cached denial asks again before its
\* lease ends, so its row is in every MAX(interval) taken meanwhile.
THEOREM WaitingRegistered == Spec => []WaitingStaysRegistered
<1>1. TypeOK /\ HintInv /\ [Next]_vars => HintInv'
  BY StepHint
<1>2. TypeOK /\ HintInv => WaitingStaysRegistered
  BY QuotaAssumption DEF TypeOK, HintInv, WaitingStaysRegistered, QuotaAssumption
<1> QED
  BY <1>1, <1>2, HintInit, TypeCorrect, PTL DEF Spec

-----------------------------------------------------------------------------
(***************************************************************************)
(* One client of the explorer (module Esplora), for any number of endpoints,*)
(* threads, attempts, requests and answers: a close ends  *)
(* quiet, nothing the explorer gave is lost, attempts are bounded and a     *)
(* stop is final.                                                          *)
(***************************************************************************)
CONSTANTS Endpoints, Workers, Settings, Tries, RateTries, MaxRequests, Revocations, QuotaFails, Answers
VARIABLES setting, future, job, lock, token, generation, revoked, authError, stopReason, pacingError,
          cooling, late, cancelled, client, requests, saved, archived, twice, lost
E == INSTANCE Esplora

\* What a thread, its retry windows and a future look like.
Windows == [all : Nat, rate : Nat, other : Nat]
Kinds == {"none", "ok", "denied", "busy", "busyStop", "down", "downStop", "net", "refused"}
Places == {"idle", "auth", "gate", "sent", "got", "decide", "pause"}
Threads == [at : Places, call : {"api", "token"}, got : Kinds, api : Windows, tok : Windows,
            gen : Nat, reauth : BOOLEAN]
Futures == {"none", "queued", "running", "ok", "error", "cancelled"}

Paused(j) == j.at = "pause" /\ j.call = "api"
\* What an adaptive window counts: the failures of each kind, the one attempt of
\* the re-authentication, and the attempt under way, which a pause only awaits.
WindowOK(j) ==
  IF setting.adaptive
  THEN /\ j.api.rate < RateTries /\ j.api.other < Tries
       /\ j.api.all <= j.api.rate + j.api.other + (IF j.reauth THEN 1 ELSE 0) + (IF Paused(j) THEN 0 ELSE 1)
  ELSE j.api.all <= Tries /\ (Paused(j) => j.api.all < Tries)

\* What holds of the thread of e: it runs iff its future does, it holds the lock
\* iff it asks for a token, a 401 it got was for a token already revoked, and
\* only the thread that saved e outlives that moment.
ThreadOK(e) ==
  /\ job[e] \in Threads /\ (job[e].at = "idle" <=> future[e] # "running")
  /\ job[e].at = "idle" => job[e] = E!NoJob
  /\ lock = e <=> job[e].call = "token"
  /\ job[e].got = "denied" => job[e].at \in {"got", "decide"} /\ job[e].call = "api" /\ job[e].gen <= revoked
  /\ e \in saved /\ job[e].at # "idle" => job[e].call = "api" /\ job[e].at = "decide" /\ job[e].got = "ok"
  /\ WindowOK(job[e])

\* What the threads share, and that nothing was lost or fetched twice so far.
SharedInv ==
  /\ setting \in Settings /\ client \in {"open", "closing", "closed"} /\ lock \in Endpoints \cup {None}
  /\ future \in [Endpoints -> Futures] /\ job \in [Endpoints -> Threads]
  /\ generation \in Nat /\ revoked \in 0..generation
  /\ requests \in 0..MaxRequests /\ archived \in Nat /\ saved \subseteq Endpoints
  /\ ~twice /\ lost = 0
\* A close leaves no queued future and ends when none runs.
QuietInv ==
  /\ client # "open" => \A e \in Endpoints : future[e] # "queued"
  /\ client = "closed" => E!Running = {}

\* NothingLost and ClosedIsQuiet with what makes them inductive.
ClientInv == SharedInv /\ QuietInv /\ (\A e \in Endpoints : ThreadOK(e)) /\ E!EveryAnswerArchived

\* What the assumption says of each constant.
LEMMA Counting == \A S : (E!IsFiniteSet(S) <=> IsFiniteSet(S)) /\ E!Cardinality(S) = Cardinality(S)
<1>1. \A S : E!IsFiniteSet(S) <=> IsFiniteSet(S)
  BY DEF E!IsFiniteSet, IsFiniteSet
<1>2. \A S : E!Cardinality(S) = Cardinality(S)
  BY DEF E!Cardinality, Cardinality
<1> QED
  BY <1>1, <1>2

LEMMA ClientConstants ==
  ASSUME E!EsploraAssumption
  PROVE  /\ Tries \in Nat \ {0} /\ RateTries \in Nat \ {0} /\ MaxRequests \in Nat
         /\ IsFiniteSet(Endpoints) /\ None \notin Endpoints /\ Answers \subseteq Kinds
  BY Counting DEF E!EsploraAssumption, Kinds

\* A thread that has not started, and its retry windows.
LEMMA FreshTypes ==
  ASSUME E!EsploraAssumption
  PROVE  /\ E!Fresh \in Windows /\ E!NoJob \in Threads /\ WindowOK(E!NoJob)
         /\ E!NoJob.at = "idle" /\ E!NoJob.call = "api" /\ E!NoJob.got = "none" /\ E!NoJob.api = E!Fresh
         /\ E!NoJob.gen = 0 /\ E!NoJob.reauth = FALSE /\ E!Fresh.all = 0
<1>1. E!Fresh \in Windows /\ E!NoJob \in Threads
  BY DEF E!Fresh, E!NoJob, Windows, Threads, Kinds, Places
<1>2. WindowOK(E!NoJob)
  BY ClientConstants DEF WindowOK, E!NoJob, E!Fresh, Paused
<1> QED
  BY <1>1, <1>2 DEF E!NoJob, E!Fresh

\* The threads that a step leaves alone.
LEMMA OtherThreads ==
  ASSUME SharedInv, NEW k \in Endpoints, ThreadOK(k), job'[k] = job[k], future'[k] = future[k],
         UNCHANGED setting, revoked' >= revoked, revoked' \in Nat, k \in saved' => k \in saved,
         lock' = k <=> lock = k
  PROVE  ThreadOK(k)'
<1>1. revoked \in Nat /\ job[k].gen \in Nat
  BY DEF SharedInv, Threads
<1> QED
  BY <1>1 DEF ThreadOK, WindowOK, Paused

\* What the frame of every step of one thread says.
Frame(e) ==
  /\ \A k \in Endpoints \ {e} : job'[k] = job[k] /\ future'[k] = future[k] /\ (lock' = k <=> lock = k)
                                /\ (k \in saved' => k \in saved)
  /\ UNCHANGED <<setting, revoked, client>>

\* A step of one thread keeps what is said of every thread.
LEMMA ThreadStep ==
  ASSUME ClientInv, NEW e \in Endpoints, Frame(e), ThreadOK(e)'
  PROVE  \A k \in Endpoints : ThreadOK(k)'
<1>1. ASSUME NEW k \in Endpoints \ {e} PROVE ThreadOK(k)'
  <2>1. revoked \in Nat
    BY DEF ClientInv, SharedInv
  <2>2. ThreadOK(k)
    BY DEF ClientInv
  <2> QED
    BY <2>1, <2>2, OtherThreads DEF Frame, ClientInv
<1> QED
  BY <1>1

\* A thread that ends leaves nothing behind.
LEMMA Ended ==
  ASSUME E!EsploraAssumption, ClientInv, NEW e \in Endpoints, NEW r \in {"ok", "error"},
         E!End(e, r), UNCHANGED saved,
         UNCHANGED <<setting, revoked, client>>
  PROVE  /\ Frame(e) /\ ThreadOK(e)' /\ job' \in [Endpoints -> Threads] /\ future' \in [Endpoints -> Futures]
         /\ lock' \in Endpoints \cup {None} /\ job'[e] = E!NoJob /\ future'[e] = r
<1> USE DEF ClientInv, SharedInv
<1>1. /\ job'[e] = E!NoJob /\ future'[e] = r /\ lock' = (IF lock = e THEN None ELSE lock)
      /\ \A k \in Endpoints \ {e} : job'[k] = job[k] /\ future'[k] = future[k]
      /\ job' \in [Endpoints -> Threads] /\ future' \in [Endpoints -> Futures]
  BY FreshTypes DEF E!End, Futures
<1>2. Frame(e)
  BY <1>1, ClientConstants DEF Frame
<1>3. WindowOK(E!NoJob)'
  BY ClientConstants DEF WindowOK, E!NoJob, E!Fresh, Paused
<1>4. ThreadOK(e)'
  BY <1>1, <1>3, FreshTypes, ClientConstants DEF ThreadOK
<1> QED
  BY <1>1, <1>2, <1>4

\* What every step of a thread e keeps.
Kept(e) == SharedInv' /\ Frame(e) /\ ThreadOK(e)'

\* End and Fail: the thread frees the token lock if it holds it.
LEMMA FailKeeps ==
  ASSUME E!EsploraAssumption, ClientInv, NEW e \in Endpoints, NEW r \in {"ok", "error"}, E!End(e, r),
         UNCHANGED <<E!run, requests, saved, archived, twice, lost, revoked, generation>>
  PROVE  Kept(e)
<1>1. UNCHANGED <<setting, revoked, client>>
  BY DEF E!run
<1>2. Frame(e) /\ ThreadOK(e)' /\ job' \in [Endpoints -> Threads] /\ future' \in [Endpoints -> Futures]
      /\ lock' \in Endpoints \cup {None}
  BY <1>1, Ended
<1>3. SharedInv'
  BY <1>1, <1>2 DEF ClientInv, SharedInv
<1> QED
  BY <1>2, <1>3 DEF Kept

\* bearer: the lock is taken only by a thread that will ask for a token.
LEMMA AuthenticateKeeps ==
  ASSUME E!EsploraAssumption, ClientInv, NEW e \in Endpoints, E!Authenticate(e)
  PROVE  Kept(e)
<1> USE DEF ClientInv, SharedInv, E!run, E!auth, E!gate
<1>0. job[e] \in Threads /\ ThreadOK(e) /\ job[e].at = "auth" /\ lock = None
      /\ UNCHANGED <<E!run, requests, saved, archived, twice, lost, revoked, generation>>
  BY DEF E!Authenticate
<1>1. CASE authError
  BY <1>0, <1>1, FailKeeps DEF E!Authenticate
<1>2. CASE ~authError /\ token
  <2>1. /\ job' = [job EXCEPT ![e].at = "gate", ![e].gen = generation] /\ UNCHANGED <<future, lock>>
    BY <1>2 DEF E!Authenticate
  <2>2. job'[e] = [job[e] EXCEPT !.at = "gate", !.gen = generation]
    BY <2>1
  <2>3. job'[e] \in Threads /\ job' \in [Endpoints -> Threads] /\ \A k \in Endpoints \ {e} : job'[k] = job[k]
    BY <1>0, <2>1, <2>2 DEF Threads, Places
  <2>4. WindowOK(job[e]) /\ ~Paused(job[e])
    BY <1>0 DEF ThreadOK, Paused
  <2>5. WindowOK(job[e])' /\ job'[e].call = job[e].call /\ job'[e].at = "gate" /\ job'[e].got = job[e].got
    BY <1>0, <2>2, <2>4 DEF WindowOK, Paused, Threads
  <2>6. ThreadOK(e)'
    BY <1>0, <2>1, <2>3, <2>5 DEF ThreadOK
  <2>7. Frame(e) /\ SharedInv'
    BY <1>0, <2>1, <2>3 DEF Frame
  <2> QED
    BY <2>6, <2>7 DEF Kept
<1>3. CASE ~authError /\ ~token
  <2> DEFINE w == [E!Fresh EXCEPT !.all = 1]
  <2>0. w \in Windows
    BY FreshTypes DEF Windows
  <2> HIDE DEF w
  <2>1. /\ job' = [job EXCEPT ![e].at = "gate", ![e].call = "token", ![e].tok = w]
        /\ lock' = e /\ UNCHANGED future
    BY <1>3 DEF E!Authenticate, w
  <2>2. job'[e] = [job[e] EXCEPT !.at = "gate", !.call = "token", !.tok = w]
    BY <2>1
  <2>3. job'[e] \in Threads /\ job' \in [Endpoints -> Threads] /\ \A k \in Endpoints \ {e} : job'[k] = job[k]
    BY <1>0, <2>0, <2>1, <2>2 DEF Threads, Places
  <2>4. WindowOK(job[e]) /\ ~Paused(job[e])
    BY <1>0 DEF ThreadOK, Paused
  <2>5. /\ WindowOK(job[e])' /\ job'[e].call = "token" /\ job'[e].at = "gate" /\ job'[e].got = job[e].got
    BY <1>0, <2>2, <2>4 DEF WindowOK, Paused, Threads
  <2>6. ThreadOK(e)'
    BY <1>0, <2>1, <2>3, <2>5 DEF ThreadOK
  <2>7. Frame(e) /\ SharedInv'
    BY <1>0, <2>1, <2>3, ClientConstants DEF Frame
  <2> QED
    BY <2>6, <2>7 DEF Kept
<1> QED
  BY <1>1, <1>2, <1>3

\* A refused token is one the server revoked before it answered.
LEMMA AnsweredKeeps ==
  ASSUME E!EsploraAssumption, ClientInv, NEW e \in Endpoints, E!Answered(e)
  PROVE  Kept(e)
<1> USE DEF ClientInv, SharedInv, E!run, E!auth, E!gate
<1>0. job[e] \in Threads /\ ThreadOK(e) /\ job[e].at = "sent"
      /\ UNCHANGED <<future, E!auth, E!run, requests, saved, archived, twice, lost>>
  BY DEF E!Answered
<1>1. PICK got \in Answers : E!Possible(e, got) /\ job' = [job EXCEPT ![e].at = "got", ![e].got = got]
  BY DEF E!Answered
<1>2. got \in Kinds /\ job'[e] = [job[e] EXCEPT !.at = "got", !.got = got]
  BY <1>1, ClientConstants
<1>3. job'[e] \in Threads /\ job' \in [Endpoints -> Threads] /\ \A k \in Endpoints \ {e} : job'[k] = job[k]
  BY <1>0, <1>1, <1>2 DEF Threads, Places
<1>4. WindowOK(job[e]) /\ ~Paused(job[e])
  BY <1>0 DEF ThreadOK, Paused
<1>5. /\ WindowOK(job[e])' /\ job'[e].call = job[e].call /\ job'[e].at = "got" /\ job'[e].got = got
      /\ job'[e].gen = job[e].gen
  BY <1>0, <1>2, <1>4 DEF WindowOK, Paused, Threads
<1>6. got = "denied" => job[e].call = "api" /\ job[e].gen <= revoked
  BY <1>0, <1>1 DEF E!Possible, Threads
<1>7. ThreadOK(e)'
  BY <1>0, <1>3, <1>5, <1>6 DEF ThreadOK
<1>8. Frame(e) /\ SharedInv'
  BY <1>0, <1>3 DEF Frame
<1> QED
  BY <1>7, <1>8 DEF Kept

\* _reserve_request counts a request only below the limit.
LEMMA AdmittedKeeps ==
  ASSUME E!EsploraAssumption, ClientInv, NEW e \in Endpoints, E!Admitted(e)
  PROVE  Kept(e)
<1> USE DEF ClientInv, SharedInv, E!run, E!auth, E!gate
<1>0. /\ job[e] \in Threads /\ ThreadOK(e) /\ job[e].at = "gate" /\ job' = [job EXCEPT ![e].at = "sent"]
      /\ UNCHANGED <<future, E!auth, E!run, saved, archived, twice, lost>>
  BY DEF E!Admitted
<1>1. requests' \in 0..MaxRequests
  BY ClientConstants DEF E!Admitted, E!Stopped, E!Spent
<1>2. job'[e] = [job[e] EXCEPT !.at = "sent"]
  BY <1>0
<1>3. job'[e] \in Threads /\ job' \in [Endpoints -> Threads] /\ \A k \in Endpoints \ {e} : job'[k] = job[k]
  BY <1>0, <1>2 DEF Threads, Places
<1>4. WindowOK(job[e]) /\ ~Paused(job[e])
  BY <1>0 DEF ThreadOK, Paused
<1>5. /\ WindowOK(job[e])' /\ job'[e].call = job[e].call /\ job'[e].at = "sent" /\ job'[e].got = job[e].got
  BY <1>0, <1>2, <1>4 DEF WindowOK, Paused, Threads
<1>6. ThreadOK(e)'
  BY <1>0, <1>3, <1>5 DEF ThreadOK
<1>7. Frame(e) /\ SharedInv'
  BY <1>0, <1>1, <1>3 DEF Frame
<1> QED
  BY <1>6, <1>7 DEF Kept

\* _call: an answer "ok" is recorded for an endpoint that had none.
LEMMA ArchiveKeeps ==
  ASSUME E!EsploraAssumption, ClientInv, NEW e \in Endpoints, E!Archive(e)
  PROVE  Kept(e)
<1> USE DEF ClientInv, SharedInv, E!run, E!auth, E!gate
<1> DEFINE good == job[e].got = "ok" /\ job[e].call = "api"
<1>0. /\ job[e] \in Threads /\ ThreadOK(e) /\ job[e].at = "got" /\ job' = [job EXCEPT ![e].at = "decide"]
      /\ UNCHANGED <<future, E!auth, E!run, requests, lost>> /\ archived' = archived + 1
      /\ saved' = IF good THEN saved \cup {e} ELSE saved
      /\ twice' = (twice \/ (good /\ e \in saved))
  BY DEF E!Archive
<1>1. e \notin saved
  BY <1>0 DEF ThreadOK
<1>2. job'[e] = [job[e] EXCEPT !.at = "decide"]
  BY <1>0
<1>3. job'[e] \in Threads /\ job' \in [Endpoints -> Threads] /\ \A k \in Endpoints \ {e} : job'[k] = job[k]
  BY <1>0, <1>2 DEF Threads, Places
<1>4. WindowOK(job[e]) /\ ~Paused(job[e])
  BY <1>0 DEF ThreadOK, Paused
<1>5. /\ WindowOK(job[e])' /\ job'[e].call = job[e].call /\ job'[e].at = "decide" /\ job'[e].got = job[e].got
      /\ job'[e].gen = job[e].gen
  BY <1>0, <1>2, <1>4 DEF WindowOK, Paused, Threads
<1>6. ThreadOK(e)'
  BY <1>0, <1>1, <1>3, <1>5 DEF ThreadOK
<1>7. ~twice'
  BY <1>0, <1>1
<1>8. Frame(e) /\ SharedInv'
  BY <1>0, <1>3, <1>7 DEF Frame
<1> QED
  BY <1>6, <1>8 DEF Kept

\* A thread that tries again with window w.
LEMMA AgainIs ==
  ASSUME NEW e \in Endpoints, job[e] \in Threads, NEW w \in Windows
  PROVE  /\ E!Again(e, w) \in Threads /\ E!Again(e, w).call = job[e].call /\ E!Again(e, w).got = "none"
         /\ E!Again(e, w).at = IF job[e].call = "api" THEN "auth" ELSE "gate"
         /\ E!Again(e, w).api = IF job[e].call = "api" THEN [w EXCEPT !.all = @ + 1] ELSE job[e].api
         /\ E!Again(e, w).reauth = job[e].reauth
         /\ E!Again(e, w).api.rate = IF job[e].call = "api" THEN w.rate ELSE job[e].api.rate
         /\ E!Again(e, w).api.other = IF job[e].call = "api" THEN w.other ELSE job[e].api.other
         /\ E!Again(e, w).api.all = IF job[e].call = "api" THEN w.all + 1 ELSE job[e].api.all
<1>1. [w EXCEPT !.all = @ + 1] \in Windows
  BY DEF Windows
<1>2. CASE job[e].call = "api"
  BY <1>1, <1>2 DEF E!Again, Threads, Places, Kinds, Windows
<1>3. CASE job[e].call = "token"
  BY <1>1, <1>3 DEF E!Again, Threads, Places, Kinds, Windows
<1> QED
  BY <1>2, <1>3 DEF Threads

\* Its step keeps what has to be kept if its window is good.
LEMMA AgainKeeps ==
  ASSUME E!EsploraAssumption, ClientInv, NEW e \in Endpoints, NEW j \in Threads, job' = [job EXCEPT ![e] = j],
         e \notin saved, future[e] = "running",
         j.at \in {"auth", "gate", "pause"}, j.call = job[e].call, j.got # "denied", WindowOK(j),
         UNCHANGED <<future, lock, E!run, requests, saved, archived, twice, lost, revoked, generation>>
  PROVE  Kept(e)
<1> USE DEF ClientInv, SharedInv, E!run
<1>1. job'[e] = j /\ job' \in [Endpoints -> Threads] /\ \A k \in Endpoints \ {e} : job'[k] = job[k]
  OBVIOUS
<1>2. (WindowOK(job[e]))'
  BY <1>1 DEF WindowOK, Paused
<1>3. ThreadOK(e) /\ job[e] \in Threads
  OBVIOUS
<1>4. ThreadOK(e)'
  BY <1>1, <1>2, <1>3 DEF ThreadOK
<1>5. Frame(e) /\ SharedInv'
  BY <1>1 DEF Frame
<1> QED
  BY <1>4, <1>5 DEF Kept

\* _reserve_request raises, or the answer is final.
LEMMA TurnedAwayKeeps ==
  ASSUME E!EsploraAssumption, ClientInv, NEW e \in Endpoints, E!TurnedAway(e) \/ E!Refused(e)
  PROVE  Kept(e)
  BY FailKeeps DEF E!TurnedAway, E!Refused, E!Fail, E!run

\* _bearer and _get_response accept: the lock goes with the token.
LEMMA AcceptKeeps ==
  ASSUME E!EsploraAssumption, ClientInv, NEW e \in Endpoints, E!Accept(e)
  PROVE  Kept(e)
<1> USE DEF ClientInv, SharedInv, E!run
<1>0. /\ job[e] \in Threads /\ ThreadOK(e) /\ job[e].at = "decide" /\ job[e].got = "ok"
      /\ UNCHANGED <<revoked, E!run, requests, saved, archived, twice, lost>>
  BY DEF E!Accept
<1>1. CASE job[e].call = "api"
  BY <1>0, <1>1, FailKeeps DEF E!Accept
<1>2. CASE job[e].call # "api"
  <2>1. /\ generation' = generation + 1 /\ lock' = None /\ UNCHANGED future
        /\ job' = [job EXCEPT ![e].at = "gate", ![e].call = "api", ![e].got = "none",
                              ![e].tok = E!Fresh, ![e].gen = generation + 1]
    BY <1>0, <1>2 DEF E!Accept
  <2>2. job'[e] = [job[e] EXCEPT !.at = "gate", !.call = "api", !.got = "none",
                                 !.tok = E!Fresh, !.gen = generation + 1]
    BY <2>1
  <2>3. job'[e] \in Threads /\ job' \in [Endpoints -> Threads] /\ \A k \in Endpoints \ {e} : job'[k] = job[k]
    BY <1>0, <2>1, <2>2, FreshTypes DEF Threads, Places, Kinds
  <2>4. WindowOK(job[e]) /\ ~Paused(job[e]) /\ lock = e
    BY <1>0, <1>2 DEF ThreadOK, Paused, Threads
  <2>5. /\ (WindowOK(job[e]))' /\ job'[e].call = "api" /\ job'[e].at = "gate" /\ job'[e].got = "none"
    BY <1>0, <2>2, <2>4 DEF WindowOK, Paused, Threads
  <2>6. e \notin saved
    BY <1>0, <1>2 DEF ThreadOK
  <2>7. ThreadOK(e)'
    BY <1>0, <2>1, <2>3, <2>5, <2>6, ClientConstants DEF ThreadOK
  <2>8. Frame(e) /\ SharedInv'
    BY <1>0, <2>1, <2>3, <2>4, ClientConstants DEF Frame
  <2> QED
    BY <2>7, <2>8 DEF Kept
<1> QED
  BY <1>1, <1>2

\* _pause_retry: the attempt that a pause awaits was counted before.
LEMMA PauseKeeps ==
  ASSUME E!EsploraAssumption, ClientInv, NEW e \in Endpoints, E!Pause(e)
  PROVE  Kept(e)
<1> USE DEF ClientInv, SharedInv, E!run
<1>0. /\ job[e] \in Threads /\ ThreadOK(e) /\ job[e].at = "pause"
      /\ UNCHANGED <<generation, revoked, E!run, requests, saved, archived, twice, lost>>
  BY DEF E!Pause
<1>1. CASE E!Fail(e)
  BY <1>0, <1>1, FailKeeps DEF E!Fail
<1>2. CASE ~E!Fail(e)
  <2> DEFINE w == E!TriesOf(e)
             j == E!Again(e, w)
  <2>1. job' = [job EXCEPT ![e] = j] /\ UNCHANGED <<future, lock>>
    BY <1>2 DEF E!Pause
  <2>2. w \in Windows /\ (job[e].call = "api" => w = job[e].api)
    BY <1>0 DEF E!TriesOf, Threads
  <2>3. e \notin saved /\ future[e] = "running"
    BY <1>0 DEF ThreadOK
  <2>4. job[e].api \in Windows /\ job[e].call \in {"api", "token"} /\ job[e].reauth \in BOOLEAN
    BY <1>0 DEF Threads
  <2> HIDE DEF w
  <2>5. /\ j \in Threads /\ j.at \in {"auth", "gate"} /\ j.call = job[e].call /\ j.got = "none"
        /\ j.reauth = job[e].reauth
        /\ j.api.rate = job[e].api.rate /\ j.api.other = job[e].api.other
        /\ j.api.all = IF job[e].call = "api" THEN job[e].api.all + 1 ELSE job[e].api.all
    <3>1. /\ j \in Threads /\ j.call = job[e].call /\ j.got = "none" /\ j.reauth = job[e].reauth
          /\ j.at = IF job[e].call = "api" THEN "auth" ELSE "gate"
          /\ j.api.rate = IF job[e].call = "api" THEN w.rate ELSE job[e].api.rate
          /\ j.api.other = IF job[e].call = "api" THEN w.other ELSE job[e].api.other
          /\ j.api.all = IF job[e].call = "api" THEN w.all + 1 ELSE job[e].api.all
      BY <1>0, <2>2, AgainIs
    <3> HIDE DEF j
    <3>2. CASE job[e].call = "api"
      BY <2>2, <3>1, <3>2
    <3>3. CASE job[e].call # "api"
      BY <3>1, <3>3
    <3> QED
      BY <3>2, <3>3
  <2> HIDE DEF j
  <2>6. WindowOK(j)
    <3>1. WindowOK(job[e]) /\ (Paused(job[e]) <=> job[e].call = "api") /\ ~Paused(j)
      BY <1>0, <2>5 DEF ThreadOK, Paused
    <3>2. CASE setting.adaptive
      BY <2>4, <2>5, <3>1, <3>2, ClientConstants DEF WindowOK, Windows
    <3>3. CASE ~setting.adaptive
      BY <2>4, <2>5, <3>1, <3>3, ClientConstants DEF WindowOK, Windows
    <3> QED
      BY <3>2, <3>3
  <2> QED
    BY <1>0, <2>1, <2>3, <2>5, <2>6, AgainKeeps
<1> QED
  BY <1>1, <1>2

\* _get_response after a 401: a token is dropped only if it is the one refused,
\* and that one was revoked, so none that works is lost.
LEMMA DenyKeeps ==
  ASSUME E!EsploraAssumption, ClientInv, NEW e \in Endpoints, E!Deny(e)
  PROVE  Kept(e)
<1> USE DEF ClientInv, SharedInv, E!run
<1>0. /\ job[e] \in Threads /\ ThreadOK(e) /\ job[e].at = "decide" /\ job[e].got = "denied"
      /\ job[e].call = "api" /\ job[e].gen <= revoked
      /\ UNCHANGED <<generation, revoked, E!run, requests, saved, archived, twice>>
  BY DEF E!Deny, ThreadOK
\* A token that is refused was revoked: none that works is dropped.
<1>1. lost' = lost
  <2>1. CASE job[e].reauth
    BY <2>1 DEF E!Deny
  <2>2. CASE ~job[e].reauth
    <3>1. /\ token' = (token /\ ~E!RefusesCurrent(e))
          /\ lost' = IF token /\ ~token' /\ generation > revoked THEN lost + 1 ELSE lost
      BY <2>2 DEF E!Deny
    <3>2. E!RefusesCurrent(e) => ~(generation > revoked)
      BY <1>0 DEF E!RefusesCurrent, Threads
    <3>3. token /\ ~token' => E!RefusesCurrent(e)
      BY <3>1
    <3> QED
      BY <3>1, <3>2, <3>3
  <2> QED
    BY <2>1, <2>2
<1>2. CASE E!End(e, "error")
  BY <1>0, <1>1, <1>2, FailKeeps
<1>3. CASE ~E!End(e, "error")
  <2> DEFINE a == E!Again(e, job[e].api)
             j == [a EXCEPT !.reauth = TRUE]
  <2>1. /\ job' = [job EXCEPT ![e] = j] /\ UNCHANGED <<future, lock>> /\ ~job[e].reauth
        /\ setting.adaptive \/ ~(job[e].api.all >= Tries)
    BY <1>3 DEF E!Deny
  <2>2. job[e].api \in Windows
    BY <1>0 DEF Threads
  <2>3. /\ a \in Threads /\ a.call = "api" /\ a.got = "none" /\ a.at = "auth"
        /\ a.api.rate = job[e].api.rate /\ a.api.other = job[e].api.other
        /\ a.api.all = job[e].api.all + 1
    BY <1>0, <2>2, AgainIs
  <2> HIDE DEF a
  <2>4. /\ j \in Threads /\ j.call = "api" /\ j.got = "none" /\ j.at = "auth" /\ j.reauth = TRUE
        /\ j.api = a.api
    BY <2>3 DEF Threads
  <2>5. WindowOK(j)
    <3>1. WindowOK(job[e]) /\ ~Paused(job[e]) /\ ~Paused(j)
      BY <1>0, <2>4 DEF ThreadOK, Paused
    <3> HIDE DEF j
    <3>2. CASE setting.adaptive
      <4>1. /\ job[e].api.rate < RateTries /\ job[e].api.other < Tries
            /\ job[e].api.all <= job[e].api.rate + job[e].api.other + 1
        BY <2>1, <2>2, <3>1, <3>2 DEF WindowOK, Windows
      <4> QED
        BY <2>2, <2>3, <2>4, <3>1, <3>2, <4>1 DEF WindowOK, Windows
    <3>3. CASE ~setting.adaptive
      BY <2>1, <2>2, <2>3, <2>4, <3>1, <3>3, ClientConstants DEF WindowOK, Windows
    <3> QED
      BY <3>2, <3>3
  <2>6. e \notin saved /\ future[e] = "running"
    BY <1>0 DEF ThreadOK
  <2> HIDE DEF j
  <2> QED
    BY <1>0, <1>1, <2>1, <2>4, <2>5, <2>6, AgainKeeps
<1> QED
  BY <1>2, <1>3

\* _RetryWindow.feedback counts one failure of one kind.
LEMMA NotedIs ==
  ASSUME NEW w \in Windows, NEW got \in Kinds
  PROVE  /\ E!Noted(w, got) \in Windows /\ E!Noted(w, got).all = w.all
         /\ E!Noted(w, got).rate = IF E!Throttled(got) THEN w.rate + 1 ELSE w.rate
         /\ E!Noted(w, got).other = IF E!Throttled(got) THEN w.other ELSE w.other + 1
<1>1. CASE E!Throttled(got)
  BY <1>1 DEF E!Noted, Windows
<1>2. CASE ~E!Throttled(got)
  BY <1>2 DEF E!Noted, Windows
<1> QED
  BY <1>1, <1>2

\* A window that is not exhausted stays within its counts.
LEMMA NotExhausted ==
  ASSUME E!EsploraAssumption, ClientInv, NEW e \in Endpoints, job[e].at = "decide", job[e].call = "api",
         NEW w, w = E!Noted(job[e].api, job[e].got), ~E!Exhausted(w, job[e].got),
         NEW j \in Threads, j.call = "api", j.reauth = job[e].reauth, j.api.rate = w.rate, j.api.other = w.other,
         \/ j.at = "pause" /\ j.api.all = w.all
         \/ j.at = "auth" /\ j.api.all = w.all + 1
  PROVE  WindowOK(j)
<1>1. job[e] \in Threads /\ job[e].api \in Windows /\ WindowOK(job[e]) /\ ~Paused(job[e]) /\ job[e].got \in Kinds
  BY DEF ClientInv, ThreadOK, Threads, Paused
<1>2. /\ w \in Windows /\ w.all = job[e].api.all
      /\ w.rate = IF E!Throttled(job[e].got) THEN job[e].api.rate + 1 ELSE job[e].api.rate
      /\ w.other = IF E!Throttled(job[e].got) THEN job[e].api.other ELSE job[e].api.other + 1
  BY <1>1, NotedIs
<1>3. Paused(j) <=> j.at = "pause"
  BY DEF Paused
<1>4. CASE setting.adaptive
  <2>1. /\ job[e].api.rate < RateTries /\ job[e].api.other < Tries
        /\ job[e].api.all <= job[e].api.rate + job[e].api.other + (IF job[e].reauth THEN 1 ELSE 0) + 1
    BY <1>1, <1>4 DEF WindowOK
  <2>2. IF E!Throttled(job[e].got) THEN ~(w.rate >= RateTries) ELSE ~(w.other >= Tries)
    BY <1>4 DEF E!Exhausted
  <2>3. w.rate < RateTries /\ w.other < Tries
    BY <1>1, <1>2, <2>1, <2>2, ClientConstants DEF Windows
  <2>4. w.rate + w.other = job[e].api.rate + job[e].api.other + 1
    BY <1>1, <1>2 DEF Windows
  <2>5. w.all <= w.rate + w.other + (IF job[e].reauth THEN 1 ELSE 0)
    BY <1>1, <1>2, <2>1, <2>4 DEF Windows
  <2>6. j.api.all <= w.rate + w.other + (IF j.reauth THEN 1 ELSE 0) + (IF Paused(j) THEN 0 ELSE 1)
    BY <1>2, <1>3, <2>5 DEF Windows
  <2> QED
    BY <1>4, <2>3, <2>6 DEF WindowOK
<1>5. CASE ~setting.adaptive
  <2>1. ~(w.all >= Tries)
    BY <1>5 DEF E!Exhausted
  <2> QED
    BY <1>2, <1>3, <1>5, <2>1, ClientConstants DEF WindowOK, Windows
<1> QED
  BY <1>4, <1>5

\* _get_response and _bearer after a failure: try again only within the window.
LEMMA RetryKeeps ==
  ASSUME E!EsploraAssumption, ClientInv, NEW e \in Endpoints, E!Retry(e)
  PROVE  Kept(e)
<1> USE DEF ClientInv, SharedInv, E!run
<1> DEFINE w == E!Noted(E!TriesOf(e), job[e].got)
<1>0. /\ job[e] \in Threads /\ ThreadOK(e) /\ job[e].at = "decide"
      /\ job[e].got \in {"busy", "busyStop", "down", "downStop", "net"}
      /\ UNCHANGED <<generation, revoked, E!run, requests, saved, archived, twice, lost>>
  BY DEF E!Retry
<1>1. CASE E!Fail(e)
  BY <1>0, <1>1, FailKeeps DEF E!Fail
<1>2. CASE ~E!Fail(e)
  <2>1. /\ ~E!Exhausted(w, job[e].got) /\ UNCHANGED <<future, lock>>
        /\ \/ job' = [job EXCEPT ![e] = E!Again(e, w)]
           \/ job' = [job EXCEPT ![e] = IF job[e].call = "api" THEN [@ EXCEPT !.at = "pause", !.api = w]
                                                               ELSE [@ EXCEPT !.at = "pause", !.tok = w]]
    BY <1>2 DEF E!Retry
  <2>2. E!TriesOf(e) \in Windows /\ job[e].got \in Kinds /\ (job[e].call = "api" => E!TriesOf(e) = job[e].api)
    BY <1>0 DEF E!TriesOf, Threads
  <2>3. w \in Windows
    BY <2>2, NotedIs
  <2>4. e \notin saved /\ future[e] = "running"
    BY <1>0 DEF ThreadOK
  <2>5. WindowOK(job[e]) /\ ~Paused(job[e])
    BY <1>0 DEF ThreadOK, Paused
  <2>6. job[e].call = "api" => w = E!Noted(job[e].api, job[e].got)
    BY <2>2
  <2> HIDE DEF w
  <2>7. CASE job' = [job EXCEPT ![e] = E!Again(e, w)]
    <3> DEFINE j == E!Again(e, w)
    <3>1. /\ j \in Threads /\ j.call = job[e].call /\ j.got = "none" /\ j.reauth = job[e].reauth
          /\ j.at = IF job[e].call = "api" THEN "auth" ELSE "gate"
          /\ j.api.rate = IF job[e].call = "api" THEN w.rate ELSE job[e].api.rate
          /\ j.api.other = IF job[e].call = "api" THEN w.other ELSE job[e].api.other
          /\ j.api.all = IF job[e].call = "api" THEN w.all + 1 ELSE job[e].api.all
      BY <1>0, <2>3, AgainIs
    <3> HIDE DEF j
    <3>2. WindowOK(j)
      <4>1. CASE job[e].call = "api"
        BY <1>0, <2>1, <2>6, <3>1, <4>1, NotExhausted
      <4>2. CASE job[e].call # "api"
        BY <2>5, <3>1, <4>2 DEF WindowOK, Paused
      <4> QED
        BY <4>1, <4>2
    <3>3. j.at \in {"auth", "gate"} /\ job' = [job EXCEPT ![e] = j]
      BY <2>7, <3>1 DEF j
    <3> QED
      BY <1>0, <2>1, <2>4, <3>1, <3>2, <3>3, AgainKeeps
  <2>8. CASE job' # [job EXCEPT ![e] = E!Again(e, w)]
    <3> DEFINE j == IF job[e].call = "api" THEN [job[e] EXCEPT !.at = "pause", !.api = w]
                                           ELSE [job[e] EXCEPT !.at = "pause", !.tok = w]
    <3>1. job' = [job EXCEPT ![e] = j]
      BY <2>1, <2>8
    <3>2. /\ j \in Threads /\ j.at = "pause" /\ j.call = job[e].call /\ j.got = job[e].got
          /\ j.reauth = job[e].reauth /\ (j.api = IF job[e].call = "api" THEN w ELSE job[e].api)
      BY <1>0, <2>3 DEF Threads, Places
    <3> HIDE DEF j
    <3>3. WindowOK(j)
      <4>1. CASE job[e].call = "api"
        BY <1>0, <2>1, <2>6, <3>2, <4>1, NotExhausted
      <4>2. CASE job[e].call # "api"
        BY <2>5, <3>2, <4>2 DEF WindowOK, Paused
      <4> QED
        BY <4>1, <4>2
    <3> QED
      BY <1>0, <2>1, <2>4, <3>1, <3>2, <3>3, AgainKeeps
  <2> QED
    BY <2>7, <2>8
<1> QED
  BY <1>1, <1>2

\* What every other step keeps.
KeptAll == SharedInv' /\ \A e \in Endpoints : ThreadOK(e)'

\* _resolve: an endpoint that is saved gets no thread.
LEMMA StartKeeps ==
  ASSUME E!EsploraAssumption, ClientInv, NEW e \in Endpoints, E!Start(e)
  PROVE  Kept(e)
<1> USE DEF ClientInv, SharedInv, E!run, E!auth
<1>0. /\ job[e] \in Threads /\ ThreadOK(e) /\ future[e] = "queued" /\ job[e] = E!NoJob
      /\ UNCHANGED <<E!auth, E!run, requests, saved, archived, twice, lost>>
  BY DEF E!Start, ThreadOK
<1>1. CASE late \/ e \in saved
  <2>1. future' = [future EXCEPT ![e] = IF late THEN "error" ELSE "ok"] /\ UNCHANGED job
    BY <1>1 DEF E!Start
  <2>2. /\ future' \in [Endpoints -> Futures] /\ future'[e] # "running"
        /\ \A k \in Endpoints \ {e} : future'[k] = future[k]
    BY <2>1 DEF Futures
  <2>3. job[e].at = "idle" /\ (WindowOK(job[e]))'
    BY <1>0, <2>1, FreshTypes DEF WindowOK, Paused
  <2>4. ThreadOK(e)'
    BY <1>0, <2>1, <2>2, <2>3 DEF ThreadOK
  <2>5. Frame(e) /\ SharedInv'
    BY <1>0, <2>1, <2>2 DEF Frame
  <2> QED
    BY <2>4, <2>5 DEF Kept
<1>2. CASE ~(late \/ e \in saved)
  <2>1. /\ future' = [future EXCEPT ![e] = "running"]
        /\ job' = [job EXCEPT ![e].at = "auth", ![e].api.all = 1]
    BY <1>2 DEF E!Start
  <2> DEFINE j == [E!NoJob EXCEPT !.at = "auth", !.api.all = 1]
  <2>2. job' = [job EXCEPT ![e] = j]
    BY <1>0, <2>1
  <2>3. /\ j \in Threads /\ j.at = "auth" /\ j.call = "api" /\ j.got = "none"
        /\ j.api.all = 1 /\ j.api.rate = 0 /\ j.api.other = 0 /\ j.reauth = FALSE
    BY DEF E!NoJob, E!Fresh, Threads, Windows, Places, Kinds
  <2> HIDE DEF j
  <2>4. /\ job'[e] = j /\ job' \in [Endpoints -> Threads] /\ \A k \in Endpoints \ {e} : job'[k] = job[k]
        /\ future'[e] = "running" /\ \A k \in Endpoints \ {e} : future'[k] = future[k]
        /\ future' \in [Endpoints -> Futures]
    BY <2>1, <2>2, <2>3 DEF Futures
  <2>5. (WindowOK(job[e]))'
    BY <2>3, <2>4, ClientConstants DEF WindowOK, Paused
  <2>6. lock # e
    BY <1>0, FreshTypes DEF ThreadOK
  <2>7. ThreadOK(e)'
    BY <1>0, <1>2, <2>3, <2>4, <2>5, <2>6 DEF ThreadOK
  <2>8. Frame(e) /\ SharedInv'
    BY <1>0, <2>4 DEF Frame
  <2> QED
    BY <2>7, <2>8 DEF Kept
<1> QED
  BY <1>1, <1>2

\* No thread is touched by the steps of the caller, of time and of the server.
LEMMA CallerKeeps ==
  ASSUME E!EsploraAssumption, ClientInv,
         \/ \E e \in Endpoints : E!Submit(e) \/ E!Release(e)
         \/ E!CancelQueued \/ E!Close \/ E!Closed \/ E!CoolEnds \/ E!TimeUp \/ E!Revoke \/ UNCHANGED E!vars
  PROVE  KeptAll
<1> USE DEF ClientInv, SharedInv, E!run, E!auth, E!gate
<1>1. /\ UNCHANGED <<job, lock, setting, generation, requests, archived, saved, twice, lost>>
      /\ revoked' \in 0..generation /\ revoked' >= revoked
      /\ client' \in {"open", "closing", "closed"}
  BY DEF E!Submit, E!Release, E!CancelQueued, E!Close, E!Closed, E!CoolEnds, E!TimeUp, E!Revoke, E!vars
<1>2. /\ future' \in [Endpoints -> Futures]
      /\ \A k \in Endpoints : future'[k] = "running" <=> future[k] = "running"
  BY DEF E!Submit, E!Release, E!CancelQueued, E!Close, E!Closed, E!CoolEnds, E!TimeUp, E!Revoke, E!DropQueued,
     Futures, E!vars
<1>3. SharedInv'
  BY <1>1, <1>2
<1>4. ASSUME NEW k \in Endpoints PROVE ThreadOK(k)'
  <2>1. ThreadOK(k) /\ job[k].gen \in Nat
    BY DEF Threads
  <2>2. job[k].gen <= revoked => job[k].gen <= revoked'
    BY <1>1, <2>1
  <2>3. (WindowOK(job[k]))'
    BY <1>1, <2>1 DEF ThreadOK, WindowOK, Paused
  <2> QED
    BY <1>1, <1>2, <2>1, <2>2, <2>3 DEF ThreadOK
<1> QED
  BY <1>3, <1>4 DEF KeptAll

\* The parts of the invariant about threads and shared state, over every step.
LEMMA ThreadsStep ==
  ASSUME E!EsploraAssumption, ClientInv, [E!Next]_(E!vars)
  PROVE  KeptAll
<1>1. ASSUME NEW e \in Endpoints, E!Start(e) \/ E!Step(e) \/ E!Admitted(e) PROVE KeptAll
  <2>1. Kept(e)
    BY <1>1, StartKeeps, AdmittedKeeps, AuthenticateKeeps, TurnedAwayKeeps, AnsweredKeeps, ArchiveKeeps,
       AcceptKeeps, DenyKeeps, RetryKeeps, PauseKeeps DEF E!Step
  <2> QED
    BY <2>1, ThreadStep DEF Kept, KeptAll
<1> QED
  BY <1>1, CallerKeeps DEF E!Next

\* A thread ends; none starts but from the queue.
LEMMA QuietStep ==
  ASSUME E!EsploraAssumption, ClientInv, [E!Next]_(E!vars)
  PROVE  QuietInv'
<1> USE DEF ClientInv, SharedInv, QuietInv, E!run
<1>1. ASSUME NEW e \in Endpoints, E!Step(e) \/ E!Admitted(e) PROVE QuietInv'
  <2>1. UNCHANGED client /\ future \in [Endpoints -> Futures]
    BY <1>1 DEF E!Step, E!Admitted, E!Authenticate, E!TurnedAway, E!Answered, E!Archive, E!Accept, E!Deny,
       E!Retry, E!Refused, E!Pause, E!gate
  <2>2. UNCHANGED future \/ \E r \in {"ok", "error"} : E!End(e, r)
    BY <1>1 DEF E!Step, E!Admitted, E!Authenticate, E!TurnedAway, E!Answered, E!Archive, E!Accept, E!Deny,
       E!Retry, E!Refused, E!Pause, E!Fail, E!gate
  <2>3. \A k \in Endpoints : future'[k] = future[k] \/ future'[k] \in {"ok", "error"}
    BY <2>1, <2>2 DEF E!End
  <2> QED
    BY <2>1, <2>3 DEF E!Running
<1>2. ASSUME NEW e \in Endpoints, E!Start(e) PROVE QuietInv'
  <2>1. client = "open" /\ UNCHANGED client
    BY <1>2 DEF E!Start
  <2> QED
    BY <2>1
<1>3. ASSUME NEW e \in Endpoints, E!Submit(e) \/ E!Release(e) PROVE QuietInv'
  BY <1>3 DEF E!Submit, E!Release
<1>4. CASE E!CancelQueued
  BY <1>4 DEF E!CancelQueued
<1>5. CASE E!Close
  BY <1>5 DEF E!Close, E!DropQueued
<1>6. CASE E!Closed
  BY <1>6 DEF E!Closed, E!Running
<1>7. CASE E!CoolEnds \/ E!TimeUp \/ E!Revoke \/ UNCHANGED E!vars
  BY <1>7 DEF E!CoolEnds, E!TimeUp, E!Revoke, E!Running, E!vars
<1> QED
  BY <1>1, <1>2, <1>3, <1>4, <1>5, <1>6, <1>7 DEF E!Next

\* The requests whose answers are still with their threads.
Sent == {e \in Endpoints : job[e].at \in {"sent", "got"}}

\* _call: a request is counted when it is admitted and leaves its thread's hands
\* only by being recorded.
LEMMA ArchivedStep ==
  ASSUME E!EsploraAssumption, ClientInv, [E!Next]_(E!vars)
  PROVE  E!EveryAnswerArchived'
<1> USE DEF ClientInv, SharedInv, E!run
<1>n. Sent \in SUBSET Endpoints /\ IsFiniteSet(Sent) /\ Cardinality(Sent) \in Nat
  BY ClientConstants, FS_Subset, FS_CardinalityType DEF Sent
<1>q. requests = archived + Cardinality(Sent) /\ requests \in Nat
  BY Counting DEF E!EveryAnswerArchived, Sent
<1>0. CASE UNCHANGED <<requests, archived>> /\ Sent' = Sent
  BY <1>0, <1>q, Counting DEF E!EveryAnswerArchived, Sent
<1>1. ASSUME NEW e \in Endpoints, E!Admitted(e) PROVE E!EveryAnswerArchived'
  <2>1. requests' = requests + 1 /\ UNCHANGED archived /\ Sent' = Sent \cup {e} /\ e \notin Sent
    BY <1>1 DEF E!Admitted, Sent
  <2>2. Cardinality(Sent \cup {e}) = Cardinality(Sent) + 1
    BY <1>n, <2>1, FS_AddElement
  <2>3. requests' = archived' + Cardinality(Sent')
    BY <1>n, <1>q, <2>1, <2>2
  <2> QED
    BY <2>3, Counting DEF E!EveryAnswerArchived, Sent
<1>2. ASSUME NEW e \in Endpoints, E!Archive(e) PROVE E!EveryAnswerArchived'
  <2>1. archived' = archived + 1 /\ UNCHANGED requests /\ Sent' = Sent \ {e} /\ e \in Sent
    BY <1>2 DEF E!Archive, Sent
  <2>2. Cardinality(Sent \ {e}) = Cardinality(Sent) - 1
    BY <1>n, <2>1, FS_RemoveElement
  <2>3. requests' = archived' + Cardinality(Sent')
    BY <1>n, <1>q, <2>1, <2>2
  <2> QED
    BY <2>3, Counting DEF E!EveryAnswerArchived, Sent
<1>3. ASSUME NEW e \in Endpoints, E!Answered(e) PROVE E!EveryAnswerArchived'
  <2>1. Sent' = Sent /\ UNCHANGED <<requests, archived>>
    BY <1>3 DEF E!Answered, Sent
  <2> QED
    BY <1>0, <2>1
<1>4. ASSUME NEW e \in Endpoints,
             \/ E!Start(e) \/ E!Authenticate(e) \/ E!TurnedAway(e) \/ E!Accept(e) \/ E!Deny(e)
             \/ E!Retry(e) \/ E!Refused(e) \/ E!Pause(e)
      PROVE  E!EveryAnswerArchived'
  <2>1. job[e].at \notin {"sent", "got"} /\ UNCHANGED <<requests, archived>>
    BY <1>4, FreshTypes DEF E!Start, E!Authenticate, E!TurnedAway, E!Accept, E!Deny, E!Retry, E!Refused,
       E!Pause, ThreadOK, Threads
  <2>2. KeptAll /\ DOMAIN job = Endpoints
    BY <1>4, ThreadsStep
  <2>3. /\ \A k \in Endpoints \ {e} : job'[k] = job[k]
        /\ job'[e].at \notin {"sent", "got"}
    <3>0. job[e] \in Threads
      OBVIOUS
    <3>1. CASE E!Start(e)
      <4>1. \/ UNCHANGED job /\ job[e] = E!NoJob
            \/ job' = [job EXCEPT ![e].at = "auth", ![e].api.all = 1]
        BY <3>1 DEF E!Start, ThreadOK
      <4>2. CASE job' = [job EXCEPT ![e].at = "auth", ![e].api.all = 1]
        BY <2>2, <3>0, <4>2 DEF Threads
      <4> QED
        BY <4>1, <4>2, FreshTypes
    <3>2. CASE \E r \in {"ok", "error"} : E!End(e, r)
      BY <3>2, FreshTypes DEF E!End
    <3>3. CASE E!Authenticate(e) /\ ~\E r \in {"ok", "error"} : E!End(e, r)
      <4>1. \/ job' = [job EXCEPT ![e].at = "gate", ![e].gen = generation]
            \/ job' = [job EXCEPT ![e].at = "gate", ![e].call = "token", ![e].tok = [E!Fresh EXCEPT !.all = 1]]
        BY <3>3 DEF E!Authenticate
      <4>2. CASE job' = [job EXCEPT ![e].at = "gate", ![e].gen = generation]
        BY <2>2, <3>0, <4>2 DEF Threads
      <4>3. CASE job' = [job EXCEPT ![e].at = "gate", ![e].call = "token", ![e].tok = [E!Fresh EXCEPT !.all = 1]]
        BY <2>2, <3>0, <4>3 DEF Threads
      <4> QED
        BY <4>1, <4>2, <4>3
    <3>4. CASE E!Accept(e) /\ ~\E r \in {"ok", "error"} : E!End(e, r)
      <4>1. job' = [job EXCEPT ![e].at = "gate", ![e].call = "api", ![e].got = "none",
                               ![e].tok = E!Fresh, ![e].gen = generation + 1]
        BY <3>4 DEF E!Accept
      <4> QED
        BY <2>2, <3>0, <4>1 DEF Threads
    <3>5. CASE (E!Deny(e) \/ E!Pause(e) \/ E!Retry(e)) /\ ~\E r \in {"ok", "error"} : E!End(e, r)
      <4>0. ASSUME NEW w PROVE E!Again(e, w).at \in {"auth", "gate"}
        BY <3>0 DEF E!Again, Threads
      <4>1. CASE E!Deny(e)
        <5>1. job' = [job EXCEPT ![e] = [E!Again(e, job[e].api) EXCEPT !.reauth = TRUE]]
          BY <3>5, <4>1 DEF E!Deny
        <5>2. [E!Again(e, job[e].api) EXCEPT !.reauth = TRUE].at \in {"auth", "gate"}
          BY <3>0 DEF E!Again, Threads
        <5> QED
          BY <2>2, <5>1, <5>2
      <4>2. CASE E!Pause(e)
        <5>1. job' = [job EXCEPT ![e] = E!Again(e, E!TriesOf(e))]
          BY <3>5, <4>2 DEF E!Pause, E!Fail
        <5> QED
          BY <2>2, <4>0, <5>1
      <4>3. CASE E!Retry(e)
        <5>0. PICK w : \/ job' = [job EXCEPT ![e] = E!Again(e, w)]
                       \/ job' = [job EXCEPT ![e] = IF job[e].call = "api"
                                THEN [@ EXCEPT !.at = "pause", !.api = w]
                                ELSE [@ EXCEPT !.at = "pause", !.tok = w]]
          BY <3>5, <4>3 DEF E!Retry, E!Fail
        <5>1. CASE job' = [job EXCEPT ![e] = E!Again(e, w)]
          BY <2>2, <4>0, <5>1
        <5>2. CASE job' = [job EXCEPT ![e] = IF job[e].call = "api"
                                THEN [@ EXCEPT !.at = "pause", !.api = w]
                                ELSE [@ EXCEPT !.at = "pause", !.tok = w]]
          BY <2>2, <3>0, <5>2 DEF Threads
        <5> QED
          BY <5>0, <5>1, <5>2
      <4> QED
        BY <3>5, <4>1, <4>2, <4>3
    <3> QED
      BY <1>4, <3>1, <3>2, <3>3, <3>4, <3>5 DEF E!TurnedAway, E!Refused, E!Fail
  <2>4. Sent' = Sent
    BY <2>1, <2>3 DEF Sent
  <2> QED
    BY <1>0, <2>1, <2>4
<1>5. ASSUME NEW e \in Endpoints, E!Submit(e) \/ E!Release(e) PROVE E!EveryAnswerArchived'
  BY <1>0, <1>5 DEF E!Submit, E!Release, Sent
<1>6. CASE E!CancelQueued \/ E!Close \/ E!Closed \/ E!CoolEnds \/ E!TimeUp \/ E!Revoke \/ UNCHANGED E!vars
  <2>1. UNCHANGED <<job, requests, archived>>
    BY <1>6 DEF E!CancelQueued, E!Close, E!Closed, E!CoolEnds, E!TimeUp, E!Revoke, E!vars
  <2> QED
    BY <1>0, <2>1 DEF Sent
<1> QED
  BY <1>1, <1>2, <1>3, <1>4, <1>5, <1>6 DEF E!Next, E!Step

\* A client that was just made.
LEMMA ClientInit == ASSUME E!EsploraAssumption, E!Init PROVE ClientInv
<1> USE DEF E!Init
<1>1. SharedInv
  BY ClientConstants, FreshTypes DEF SharedInv, Futures
<1>2. ASSUME NEW e \in Endpoints PROVE ThreadOK(e)
  <2>1. WindowOK(job[e])
    BY FreshTypes
  <2> QED
    BY <2>1, ClientConstants, FreshTypes DEF ThreadOK
<1>3. E!EveryAnswerArchived
  <2>1. Sent = {} /\ Cardinality({}) = 0
    BY FreshTypes, FS_EmptySet DEF Sent
  <2> QED
    BY <2>1, Counting DEF E!EveryAnswerArchived, Sent
<1> QED
  BY <1>1, <1>2, <1>3 DEF ClientInv, QuietInv

\* The invariant of the client: the token lock is held by the thread that asks
\* for a token, a refused token was revoked, windows stay within their counts,
\* and a saved endpoint has no thread but the one that saved it.
THEOREM ClientIsSafe == ASSUME E!EsploraAssumption PROVE E!Spec => []ClientInv
<1>1. E!Init => ClientInv
  BY ClientInit
<1>2. ClientInv /\ [E!Next]_(E!vars) => ClientInv'
  BY ThreadsStep, QuietStep, ArchivedStep DEF KeptAll, ClientInv
<1> QED
  BY <1>1, <1>2, PTL DEF E!Spec

\* close: after it no thread runs that could write to the evidence store, for any
\* number of endpoints and threads.
THEOREM CloseIsQuiet == ASSUME E!EsploraAssumption PROVE E!Spec => []E!ClosedIsQuiet
<1>1. ClientInv => E!ClosedIsQuiet
  BY DEF ClientInv, QuietInv, E!ClosedIsQuiet
<1> QED
  BY <1>1, ClientIsSafe, PTL

\* _call, _resolve and bearer: every request sent is recorded or still with its
\* thread, no saved endpoint is fetched again, and no token that works is dropped,
\* however threads, revocations, retries and stops interleave.
THEOREM NothingIsLost == ASSUME E!EsploraAssumption PROVE E!Spec => []E!NothingLost
<1>1. ClientInv => E!NothingLost
  BY DEF ClientInv, SharedInv, E!NothingLost, E!FetchedOnce, E!NoGoodTokenDropped
<1> QED
  BY <1>1, ClientIsSafe, PTL

\* _RetryWindow: the kinds of failure add up to a bound, however they alternate.
LEMMA AttemptsKept == ASSUME E!EsploraAssumption, ClientInv PROVE E!AttemptsBounded
<1>1. ASSUME NEW e \in Endpoints
      PROVE  IF setting.adaptive THEN job[e].api.all <= Tries + RateTries ELSE job[e].api.all <= Tries
  <2>1. WindowOK(job[e]) /\ job[e].api \in Windows
    BY DEF ClientInv, SharedInv, ThreadOK, Threads
  <2>2. CASE setting.adaptive
    BY <2>1, <2>2, ClientConstants DEF WindowOK, Windows
  <2>3. CASE ~setting.adaptive
    BY <2>1, <2>3 DEF WindowOK
  <2> QED
    BY <2>2, <2>3
<1> QED
  BY <1>1 DEF E!AttemptsBounded

\* Every variable of the client has its type, an endpoint's attempts are bounded,
\* and the lock is held by a thread that asks for a token.
THEOREM ClientTypes == ASSUME E!EsploraAssumption PROVE E!Spec => []E!TypeOK
<1>1. ClientInv => E!TypeOK
  BY AttemptsKept DEF ClientInv, SharedInv, ThreadOK, E!TypeOK, Futures
<1> QED
  BY <1>1, ClientIsSafe, PTL

\* _reserve_request: after the server asked the run to stop, or the shared pacing
\* broke, no request is admitted, also to a thread that was waiting.
THEOREM StopIsKept == ASSUME E!EsploraAssumption PROVE E!Spec => E!NoStartAfterStop
<1>1. ASSUME ClientInv, [E!Next]_(E!vars), requests' > requests PROVE ~stopReason /\ ~pacingError
  <2>1. requests' # requests
    BY <1>1 DEF ClientInv, SharedInv
  <2>2. ASSUME NEW e \in Endpoints, E!Submit(e) \/ E!Start(e) \/ E!Release(e) PROVE UNCHANGED requests
    BY <2>2 DEF E!Submit, E!Start, E!Release
  <2>3. ASSUME NEW e \in Endpoints, E!Authenticate(e) \/ E!TurnedAway(e) \/ E!Answered(e) \/ E!Archive(e)
        PROVE  UNCHANGED requests
    BY <2>3 DEF E!Authenticate, E!TurnedAway, E!Answered, E!Archive
  <2>4. ASSUME NEW e \in Endpoints, E!Accept(e) \/ E!Deny(e) \/ E!Refused(e) \/ E!Pause(e) PROVE UNCHANGED requests
    BY <2>4 DEF E!Accept, E!Deny, E!Refused, E!Pause
  <2>5. ASSUME NEW e \in Endpoints, E!Retry(e) PROVE UNCHANGED requests
    BY <2>5 DEF E!Retry
  <2>6. E!CancelQueued \/ E!Close \/ E!Closed \/ E!CoolEnds \/ E!TimeUp \/ E!Revoke \/ UNCHANGED E!vars
          => UNCHANGED requests
    BY DEF E!CancelQueued, E!Close, E!Closed, E!CoolEnds, E!TimeUp, E!Revoke, E!vars
  <2>7. \E e \in Endpoints : E!Admitted(e)
    BY <1>1, <2>1, <2>2, <2>3, <2>4, <2>5, <2>6 DEF E!Next, E!Step
  <2> QED
    BY <2>7 DEF E!Admitted, E!Stopped
<1>2. ClientInv /\ [E!Next]_(E!vars) => [requests' > requests => ~stopReason /\ ~pacingError]_(E!vars)
  BY <1>1
<1> QED
  BY <1>2, ClientIsSafe, PTL DEF E!Spec, E!NoStartAfterStop

-----------------------------------------------------------------------------
(***************************************************************************)
(* The scheduler of a trace (module Frontier), for any number of endpoints, *)
(* any dependencies between them and any limit of requests: nothing that    *)
(* was added is forgotten, nothing is submitted or consumed twice, and a    *)
(* stop is final.                                                          *)
(***************************************************************************)
CONSTANTS Roots, Deps, Demanded, MaxTarget
VARIABLES ready, callbacks, waiting, results, pending, fetch, allowed, stopError, calls, at, demand,
          asked, called, again
F == INSTANCE Frontier WITH future <- fetch, target <- allowed

Consumers == Endpoints \cup {None}
In(e, q) == \E i \in DOMAIN q : q[i] = e
Once(q) == \A i, j \in DOMAIN q : q[i] = q[j] => i = j

\* Every variable has its type.
FrontierTypes ==
  /\ F!TypeOK
  /\ fetch \in [Endpoints -> {"none", "running", "ok", "error", "stop"}]
  /\ allowed \in 1..MaxTarget /\ stopError \in BOOLEAN /\ again \in BOOLEAN
  /\ calls \subseteq Endpoints \X Consumers /\ asked \subseteq Endpoints \X Consumers
  /\ called \subseteq Endpoints \X Consumers

\* The queue holds no endpoint twice; what waits for its result is queued or in
\* flight, never both, and what get waits for is first in the queue.
QueueInv ==
  /\ Once(ready)
  /\ \A e \in Endpoints : /\ e \in waiting <=> In(e, ready) \/ e \in pending
                          /\ ~(In(e, ready) /\ e \in pending)
  /\ \A i \in DOMAIN ready : ready[i] = demand => i = 1

\* An endpoint with a result is never submitted again, and a stop among the
\* results is remembered.
FetchInv ==
  /\ \A e \in Endpoints :
       /\ results[e] # "none" => e \notin waiting
       /\ fetch[e] # "none" => e \in pending \/ results[e] # "none"
       /\ e \in pending => fetch[e] # "none"
       /\ results[e] = "stop" => stopError
  /\ demand # None => demand \in waiting \/ results[demand] # "none"

\* A consumer is registered, due or done, one of the three; it is registered as
\* long as its endpoint has no result.
ConsumerInv ==
  /\ called \subseteq asked /\ calls \subseteq asked /\ calls \cap called = {}
  /\ \A e \in Endpoints : \A c \in callbacks[e] :
       /\ results[e] = "none" /\ e \in waiting
       /\ <<e, c>> \in asked /\ <<e, c>> \notin calls /\ <<e, c>> \notin called
  /\ at # "aborted" => \A e \in Endpoints : \A c \in Consumers :
       <<e, c>> \in asked => c \in callbacks[e] \/ <<e, c>> \in calls \cup called

FrontierInv == FrontierTypes /\ QueueInv /\ FetchInv /\ ConsumerInv /\ F!NothingTwice

\* FiniteSets as Frontier sees it.
LEMMA CountingFrontier == \A S : (F!IsFiniteSet(S) <=> IsFiniteSet(S)) /\ F!Cardinality(S) = Cardinality(S)
<1>1. \A S : F!IsFiniteSet(S) <=> IsFiniteSet(S)
  BY DEF F!IsFiniteSet, IsFiniteSet
<1>2. \A S : F!Cardinality(S) = Cardinality(S)
  BY DEF F!Cardinality, Cardinality
<1> QED
  BY <1>1, <1>2

LEMMA FrontierConstants ==
  ASSUME F!FrontierAssumption
  PROVE  /\ MaxTarget \in Nat \ {0} /\ IsFiniteSet(Endpoints) /\ None \notin Endpoints
         /\ Roots \subseteq Endpoints /\ Demanded \subseteq Endpoints /\ Deps \in [Endpoints -> SUBSET Endpoints]
  BY CountingFrontier DEF F!FrontierAssumption

\* How the number of requests in flight changes.
LEMMA Flying ==
  ASSUME F!FrontierAssumption, NEW S \in SUBSET Endpoints
  PROVE  /\ F!Cardinality({}) = 0 /\ F!Cardinality(S) \in Nat
         /\ \A e \in Endpoints \ S : F!Cardinality(S \cup {e}) = F!Cardinality(S) + 1
         /\ \A R \in SUBSET S : F!Cardinality(R) <= F!Cardinality(S)
<1>1. IsFiniteSet(S)
  BY FrontierConstants, FS_Subset
<1>2. Cardinality({}) = 0 /\ Cardinality(S) \in Nat
  BY <1>1, FS_EmptySet, FS_CardinalityType
<1>3. ASSUME NEW e \in Endpoints \ S PROVE Cardinality(S \cup {e}) = Cardinality(S) + 1
  BY <1>1, FS_AddElement
<1>4. ASSUME NEW R \in SUBSET S PROVE Cardinality(R) <= Cardinality(S)
  BY <1>1, FS_Subset
<1> QED
  BY <1>2, <1>3, <1>4, CountingFrontier

\* The orders in which a set may be queued name each of its members once.
LEMMA Orders ==
  ASSUME NEW S, IsFiniteSet(S), NEW order \in F!SetToSeqs(S)
  PROVE  order \in Seq(S) /\ Once(order) /\ \A e \in S : In(e, order)
<1> DEFINE D == 1..Cardinality(S)
<1>1. Cardinality(S) \in Nat
  BY FS_CardinalityType
<1>2. order \in [D -> S] /\ \A i, j \in D : i # j => order[i] # order[j]
  BY CountingFrontier DEF F!SetToSeqs
<1>3. order \in Injection(D, S)
  BY <1>2 DEF Injection, IsInjective
<1>4. Cardinality(D) = Cardinality(S)
  BY <1>1, FS_Interval
<1>5. order \in Surjection(D, S)
  BY <1>3, <1>4, FS_Injection
<1>6. order \in Seq(S) /\ DOMAIN order = D
  BY <1>1, <1>2
<1> QED
  BY <1>2, <1>5, <1>6 DEF Surjection, Once, In

\* New endpoints go to the end of the queue.
LEMMA Appended ==
  ASSUME NEW q \in Seq(Endpoints), Once(q), NEW S \in SUBSET Endpoints,
         NEW order \in Seq(S), Once(order), \A e \in S : In(e, order) /\ ~In(e, q)
  PROVE  /\ q \o order \in Seq(Endpoints) /\ Once(q \o order)
         /\ \A e : In(e, q \o order) <=> In(e, q) \/ e \in S
         /\ \A e \in Endpoints \ S : \A i \in DOMAIN (q \o order) :
              (q \o order)[i] = e => i \in DOMAIN q /\ q[i] = e
<1> DEFINE both == q \o order
<1>1. both \in Seq(Endpoints) /\ Len(both) = Len(q) + Len(order)
  OBVIOUS
<1>2. \A i \in DOMAIN both : IF i <= Len(q) THEN i \in DOMAIN q /\ both[i] = q[i]
        ELSE i - Len(q) \in DOMAIN order /\ both[i] = order[i - Len(q)]
  OBVIOUS
<1>3. \A i \in DOMAIN order : order[i] \in S /\ both[i + Len(q)] = order[i] /\ i + Len(q) \in DOMAIN both
  OBVIOUS
<1>4. \A i \in DOMAIN q : both[i] = q[i] /\ i \in DOMAIN both
  OBVIOUS
<1> HIDE DEF both
<1>5. \A i \in DOMAIN q : q[i] \notin S
  BY DEF In
<1>6. Once(both)
  <2> SUFFICES ASSUME NEW i \in DOMAIN both, NEW j \in DOMAIN both, both[i] = both[j] PROVE i = j
    BY DEF Once
  <2>1. i \in Nat /\ j \in Nat /\ Len(q) \in Nat
    BY <1>1
  <2>2. (i <= Len(q)) <=> (j <= Len(q))
    BY <1>2, <1>3, <1>5
  <2>3. CASE i <= Len(q)
    BY <1>2, <2>2, <2>3 DEF Once
  <2>4. CASE ~(i <= Len(q))
    <3>1. i - Len(q) = j - Len(q)
      BY <1>2, <2>2, <2>4 DEF Once
    <3> QED
      BY <2>1, <3>1
  <2> QED
    BY <2>3, <2>4
<1>7. ASSUME NEW e PROVE In(e, both) <=> In(e, q) \/ e \in S
  BY <1>2, <1>3, <1>4 DEF In
<1>8. ASSUME NEW e \in Endpoints \ S, NEW i \in DOMAIN both, both[i] = e
      PROVE  i \in DOMAIN q /\ q[i] = e
  BY <1>2, <1>3, <1>8
<1> QED
  BY <1>1, <1>6, <1>7, <1>8 DEF both

\* A queue without its first endpoint.
LEMMA Popped ==
  ASSUME NEW q \in Seq(Endpoints), Once(q), q # <<>>
  PROVE  /\ Tail(q) \in Seq(Endpoints) /\ Once(Tail(q)) /\ Head(q) \in Endpoints /\ In(Head(q), q)
         /\ \A e : In(e, Tail(q)) <=> In(e, q) /\ e # Head(q)
         /\ \A i \in DOMAIN Tail(q) : i + 1 \in DOMAIN q /\ Tail(q)[i] = q[i + 1]
<1>1. Tail(q) \in Seq(Endpoints) /\ Len(q) \in Nat \ {0} /\ Len(Tail(q)) = Len(q) - 1 /\ Head(q) = q[1]
      /\ 1 \in DOMAIN q
  OBVIOUS
<1>2. \A i \in DOMAIN Tail(q) : i \in Nat \ {0} /\ i + 1 \in DOMAIN q /\ Tail(q)[i] = q[i + 1]
  OBVIOUS
<1>3. \A i \in DOMAIN q : i # 1 => i - 1 \in DOMAIN Tail(q) /\ Tail(q)[i - 1] = q[i]
  OBVIOUS
<1>4. Once(Tail(q))
  BY <1>2 DEF Once
<1>5. ASSUME NEW e PROVE In(e, Tail(q)) <=> In(e, q) /\ e # Head(q)
  <2>1. ASSUME In(e, Tail(q)) PROVE In(e, q) /\ e # Head(q)
    <3>1. PICK i \in DOMAIN Tail(q) : Tail(q)[i] = e
      BY <2>1 DEF In
    <3>2. i + 1 \in DOMAIN q /\ q[i + 1] = e /\ i + 1 # 1
      BY <1>2, <3>1
    <3> QED
      BY <1>1, <3>2 DEF In, Once
  <2>2. ASSUME In(e, q), e # Head(q) PROVE In(e, Tail(q))
    BY <1>1, <1>3, <2>2 DEF In
  <2> QED
    BY <2>1, <2>2
<1> QED
  BY <1>1, <1>2, <1>4, <1>5 DEF In

\* What get waits for goes to the front of the queue, if it is queued.
LEMMA Advanced ==
  ASSUME NEW q \in Seq(Endpoints), Once(q), NEW e \in Endpoints
  PROVE  /\ F!Foremost(e, q) \in Seq(Endpoints) /\ Once(F!Foremost(e, q))
         /\ \A k : In(k, F!Foremost(e, q)) <=> In(k, q)
         /\ \A i \in DOMAIN F!Foremost(e, q) : F!Foremost(e, q)[i] = e => i = 1
<1>1. CASE ~In(e, q)
  BY <1>1 DEF F!Foremost, In
<1>2. CASE In(e, q)
  <2> DEFINE n == CHOOSE i \in DOMAIN q : q[i] = e
             new == F!Foremost(e, q)
             before == SubSeq(q, 1, n - 1)
             after == SubSeq(q, n + 1, Len(q))
  <2>1. n \in DOMAIN q /\ q[n] = e
    BY <1>2 DEF In
  <2>2. new = <<e>> \o (before \o after)
    BY <1>2 DEF F!Foremost, F!RemoveAt, In
  <2> HIDE DEF n
  <2>3. n \in 1..Len(q) /\ Len(q) \in Nat
    BY <2>1
  <2>4. /\ before \in Seq(Endpoints) /\ after \in Seq(Endpoints)
        /\ Len(before) = n - 1 /\ Len(after) = Len(q) - n
        /\ (\A i \in 1..(n - 1) : before[i] = q[i])
        /\ \A i \in 1..(Len(q) - n) : after[i] = q[i + n]
    BY <2>3
  <2> HIDE DEF new, before, after
  <2> DEFINE rest == before \o after
  <2>6. rest \in Seq(Endpoints) /\ Len(rest) = Len(q) - 1
        /\ \A i \in 1..(Len(q) - 1) : rest[i] = IF i < n THEN q[i] ELSE q[i + 1]
    <3>1. rest \in Seq(Endpoints) /\ Len(rest) = Len(q) - 1
      <4>1. rest \in Seq(Endpoints)
        BY <2>4
      <4>2. \A s, t \in Seq(Endpoints) : Len(s \o t) = Len(s) + Len(t)
        OBVIOUS
      <4>3. Len(rest) = Len(before) + Len(after)
        BY <2>4, <4>2
      <4> QED
        BY <2>3, <2>4, <4>1, <4>3
    <3>2. ASSUME NEW i \in 1..(Len(q) - 1) PROVE rest[i] = IF i < n THEN q[i] ELSE q[i + 1]
      <4>1. CASE i < n
        <5>1. i \in 1..(n - 1) /\ rest[i] = before[i]
          BY <2>3, <2>4, <4>1
        <5> QED
          BY <2>4, <4>1, <5>1
      <4>2. CASE ~(i < n)
        <5>1. i - (n - 1) \in 1..(Len(q) - n) /\ rest[i] = after[i - (n - 1)]
          BY <2>3, <2>4, <4>2
        <5>2. (i - (n - 1)) + n = i + 1
          BY <2>3
        <5> QED
          BY <2>4, <4>2, <5>1, <5>2
      <4> QED
        BY <4>1, <4>2
    <3> QED
      BY <3>1, <3>2
  <2> HIDE DEF rest
  <2>7. new = <<e>> \o rest
    BY <2>2 DEF rest
  <2>8. new \in Seq(Endpoints) /\ Len(new) = Len(q) /\ DOMAIN new = 1..Len(q)
    BY <2>3, <2>6, <2>7
  <2>9. \A i \in 1..Len(q) : i # 1 => i - 1 \in 1..(Len(q) - 1) /\ new[i] = rest[i - 1]
    BY <2>3, <2>6, <2>7
  <2>10. new[1] = e
    BY <2>3, <2>6, <2>7
  \* The place in q of what is at a place of the new queue.
  <2> DEFINE place(i) == IF i = 1 THEN n ELSE IF i <= n THEN i - 1 ELSE i
  <2>11. \A i \in 1..Len(q) : place(i) \in 1..Len(q) /\ new[i] = q[place(i)]
    <3>1. ASSUME NEW i \in 1..Len(q), i # 1 PROVE new[i] = q[place(i)]
      <4>1. new[i] = rest[i - 1] /\ i - 1 \in 1..(Len(q) - 1) /\ (i - 1 < n <=> i <= n) /\ (i - 1) + 1 = i
        BY <2>3, <2>9, <3>1
      <4> QED
        BY <2>6, <3>1, <4>1
    <3> QED
      BY <2>1, <2>3, <2>10, <3>1
  <2>12. \A i, j \in 1..Len(q) : place(i) = place(j) => i = j
    BY <2>3
  <2>13. \A i \in 1..Len(q) : \E j \in 1..Len(q) : place(j) = i
    <3>1. ASSUME NEW i \in 1..Len(q) PROVE \E j \in 1..Len(q) : place(j) = i
      <4>1. CASE i < n
        <5>1. i + 1 \in 1..Len(q) /\ place(i + 1) = i
          BY <2>3, <4>1
        <5> QED
          BY <5>1
      <4>2. CASE i = n
        <5>1. 1 \in 1..Len(q) /\ place(1) = i
          BY <2>3, <4>2
        <5> QED
          BY <5>1
      <4>3. CASE i > n
        <5>1. place(i) = i
          BY <2>3, <4>3
        <5> QED
          BY <5>1
      <4> QED
        BY <2>3, <4>1, <4>2, <4>3
    <3> QED
      BY <3>1
  <2> HIDE DEF place
  <2>14. DOMAIN q = 1..Len(q)
    OBVIOUS
  <2>15. Once(new)
    BY <2>8, <2>11, <2>12, <2>14 DEF Once
  <2>16. ASSUME NEW k PROVE In(k, new) <=> In(k, q)
    BY <2>8, <2>11, <2>13, <2>14 DEF In
  <2>17. \A i \in DOMAIN new : new[i] = e => i = 1
    BY <2>3, <2>8, <2>10, <2>15 DEF Once
  <2> QED
    BY <2>8, <2>15, <2>16, <2>17 DEF new
<1> QED
  BY <1>1, <1>2

LEMMA FrontierInit ==
  ASSUME F!FrontierAssumption, F!Init
  PROVE  FrontierInv
<1> USE DEF F!Init
<1>1. F!Cardinality({}) <= MaxTarget /\ 1 \in 1..MaxTarget
  BY Flying, FrontierConstants
<1>2. FrontierTypes
  <2>1. ready \in Seq(Endpoints)
    OBVIOUS
  <2>2. F!TypeOK
    BY <1>1, <2>1 DEF F!TypeOK
  <2> QED
    BY <1>1, <2>2 DEF FrontierTypes
<1>3. QueueInv /\ FetchInv /\ ConsumerInv /\ F!NothingTwice
  BY DEF QueueInv, FetchInv, ConsumerInv, F!NothingTwice, Once, In
<1> QED
  BY <1>2, <1>3 DEF FrontierInv

-----------------------------------------------------------------------------
\* add, as the steps that use it see it: what it does to the queue is said of
\* the places of the endpoints in it.
Enqueueing(es, consumer, left) ==
  /\ calls' = left \cup {<<e, consumer>> : e \in {k \in es : results[k] # "none"}}
  /\ waiting' = waiting \cup {e \in es : results[e] = "none"}
  /\ callbacks' = [e \in Endpoints |-> IF e \in es /\ results[e] = "none"
                                       THEN callbacks[e] \cup {consumer} ELSE callbacks[e]]
  /\ asked' = asked \cup {<<e, consumer>> : e \in es}
  /\ ready' \in Seq(Endpoints) /\ Once(ready')
  /\ \A e \in Endpoints :
       /\ In(e, ready') <=> In(e, ready) \/ (e \in es /\ results[e] = "none" /\ e \notin waiting)
       /\ e \in waiting \/ results[e] # "none" =>
            \A i \in DOMAIN ready' : ready'[i] = e => i \in DOMAIN ready /\ ready[i] = e

\* A step that adds es makes the calls gone.
Adding(es, consumer, gone) ==
  /\ Enqueueing(es, consumer, calls \ gone)
  /\ called' = called \cup gone /\ again' = (again \/ gone \cap called # {})
  /\ gone \subseteq calls /\ at # "aborted" /\ \A e \in es : <<e, consumer>> \notin asked
  /\ UNCHANGED <<results, pending, fetch, allowed, stopError, at, demand>>

\* The queue after its first endpoint was popped.
Popping(e) ==
  /\ e \in Endpoints /\ In(e, ready) /\ ready' \in Seq(Endpoints) /\ Once(ready')
  /\ \A k \in Endpoints : In(k, ready') <=> In(k, ready) /\ k # e
  /\ \A i \in DOMAIN ready' : ready'[i] # demand
  /\ at = "pump" /\ calls = {} /\ ~stopError /\ F!Cardinality(pending) < allowed
  /\ UNCHANGED <<allowed, at, demand, asked, called>>
Launching(e) ==
  /\ Popping(e)
  /\ fetch' = [fetch EXCEPT ![e] = "running"] /\ pending' = pending \cup {e}
  /\ again' = (again \/ fetch[e] # "none")
  /\ UNCHANGED <<callbacks, waiting, results, stopError, calls>>
Refusing(e, refusal) ==
  /\ Popping(e) /\ refusal \in {"error", "stop"}
  /\ results' = [results EXCEPT ![e] = refusal] /\ stopError' = (refusal = "stop")
  /\ calls' = {<<e, c>> : c \in callbacks[e]}
  /\ callbacks' = [callbacks EXCEPT ![e] = {}] /\ waiting' = waiting \ {e}
  /\ UNCHANGED <<fetch, pending, again>>

\* The queue after get put what it waits for in front.
Fronting(e) ==
  /\ e \in Endpoints /\ results[e] = "none" /\ demand' = e /\ waiting' = waiting \cup {e}
  /\ ready' \in Seq(Endpoints) /\ Once(ready')
  /\ \A k \in Endpoints : In(k, ready') <=> In(k, ready) \/ (k = e /\ e \notin waiting)
  /\ \A i \in DOMAIN ready' : ready'[i] = e => i = 1
  /\ UNCHANGED <<callbacks, results, pending, fetch, allowed, stopError, calls, at, asked, called, again>>

LEMMA AddAdds ==
  ASSUME F!FrontierAssumption, FrontierTypes, QueueInv, FetchInv, NEW es \in SUBSET Endpoints,
         NEW consumer, NEW left, F!Add(es, consumer, left)
  PROVE  Enqueueing(es, consumer, left)
<1> DEFINE new == {e \in es : results[e] = "none" /\ e \notin waiting}
<1>1. ready \in Seq(Endpoints) /\ Once(ready) /\ new \in SUBSET Endpoints
  BY DEF FrontierTypes, F!TypeOK, QueueInv
<1>2. \A e \in new : ~In(e, ready)
  BY DEF QueueInv
<1>3. PICK order \in F!SetToSeqs(new) : ready' = ready \o order
  <2>1. {e \in es \ {k \in es : results[k] # "none"} : F!IsNew(e)} = new
    BY DEF F!IsNew
  <2> QED
    BY <2>1 DEF F!Add
<1>4. IsFiniteSet(new)
  BY <1>1, FrontierConstants, FS_Subset
<1> HIDE DEF new
<1>5. order \in Seq(new) /\ Once(order) /\ \A e \in new : In(e, order)
  BY <1>4, Orders
<1>6. /\ ready' \in Seq(Endpoints) /\ Once(ready')
      /\ \A e : In(e, ready') <=> In(e, ready) \/ e \in new
      /\ \A e \in Endpoints \ new : \A i \in DOMAIN ready' : ready'[i] = e => i \in DOMAIN ready /\ ready[i] = e
  BY <1>1, <1>2, <1>3, <1>5, Appended
<1>7. /\ calls' = left \cup {<<e, consumer>> : e \in {k \in es : results[k] # "none"}}
      /\ waiting' = waiting \cup {e \in es : results[e] = "none"}
      /\ asked' = asked \cup {<<e, consumer>> : e \in es}
  BY DEF F!Add, F!IsNew
<1>8. callbacks' = [e \in Endpoints |-> IF e \in es /\ results[e] = "none"
                                        THEN callbacks[e] \cup {consumer} ELSE callbacks[e]]
  <2>1. \A e : e \in es \ {k \in es : results[k] # "none"} <=> e \in es /\ results[e] = "none"
    OBVIOUS
  <2> QED
    BY <2>1 DEF F!Add
<1>9. ASSUME NEW e \in Endpoints
      PROVE  /\ In(e, ready') <=> In(e, ready) \/ (e \in es /\ results[e] = "none" /\ e \notin waiting)
             /\ e \in waiting \/ results[e] # "none" =>
                  \A i \in DOMAIN ready' : ready'[i] = e => i \in DOMAIN ready /\ ready[i] = e
  BY <1>6 DEF new
<1> QED
  BY <1>6, <1>7, <1>8, <1>9 DEF Enqueueing

LEMMA RootAdds ==
  ASSUME F!FrontierAssumption, FrontierTypes, QueueInv, FetchInv, NEW e \in Roots, F!AddRoot(e)
  PROVE  Adding({e}, None, {})
<1>1. F!Add({e}, None, {}) /\ calls = {} /\ at = "caller" /\ <<e, None>> \notin asked
      /\ UNCHANGED <<results, pending, fetch, allowed, stopError, at, demand, called, again>>
  BY DEF F!AddRoot
<1>2. {e} \in SUBSET Endpoints
  BY FrontierConstants
<1>3. Enqueueing({e}, None, {}) /\ calls \ {} = {} /\ called \cup {} = called /\ {} \cap called = {}
  BY <1>1, <1>2, AddAdds
<1> QED
  BY <1>1, <1>3 DEF Adding, FrontierTypes

\* What the consumer of e adds.
Added(e) == {d \in Deps[e] : results[e] = "ok" /\ <<d, e>> \notin asked}

LEMMA CallAdds ==
  ASSUME F!FrontierAssumption, FrontierTypes, QueueInv, FetchInv, NEW e \in Endpoints, NEW c \in Consumers,
         F!Call(e, c)
  PROVE  Adding(Added(e), e, {<<e, c>>}) /\ Added(e) \in SUBSET Endpoints
<1>1. /\ F!Add(Added(e), e, calls \ {<<e, c>>}) /\ at # "aborted" /\ <<e, c>> \in calls
      /\ called' = called \cup {<<e, c>>} /\ again' = (again \/ <<e, c>> \in called)
      /\ UNCHANGED <<results, pending, fetch, allowed, stopError, at, demand>>
  BY DEF F!Call, Added
<1>2. Added(e) \in SUBSET Endpoints /\ \A d \in Added(e) : <<d, e>> \notin asked
  BY FrontierConstants DEF Added
<1>3. again' = (again \/ {<<e, c>>} \cap called # {})
  BY <1>1
<1>4. Enqueueing(Added(e), e, calls \ {<<e, c>>})
  BY <1>1, <1>2, AddAdds
<1> QED
  BY <1>1, <1>2, <1>3, <1>4 DEF Adding

LEMMA SubmitPops ==
  ASSUME FrontierTypes, QueueInv, F!Submit
  PROVE  Launching(Head(ready)) \/ \E refusal \in {"error", "stop"} : Refusing(Head(ready), refusal)
<1>1. ready \in Seq(Endpoints) /\ Once(ready) /\ ready # <<>> /\ ready' = Tail(ready)
  BY DEF FrontierTypes, F!TypeOK, QueueInv, F!Submit, F!MaySubmit
<1>2. \A i \in DOMAIN ready' : i \in Nat \ {0} /\ i + 1 \in DOMAIN ready /\ ready'[i] = ready[i + 1]
  BY <1>1, Popped
<1>3. \A i \in DOMAIN ready' : ready'[i] # demand
  BY <1>2 DEF QueueInv
<1>4. Popping(Head(ready))
  BY <1>1, <1>3, Popped DEF Popping, F!Submit, F!MaySubmit
<1> QED
  BY <1>4 DEF Launching, Refusing, F!Submit

LEMMA GetFronts ==
  ASSUME F!FrontierAssumption, FrontierTypes, QueueInv, NEW e \in Demanded, F!Get(e)
  PROVE  Fronting(e)
<1> DEFINE queue == IF F!IsNew(e) THEN Append(ready, e) ELSE ready
<1>1. ready \in Seq(Endpoints) /\ Once(ready) /\ e \in Endpoints
  BY FrontierConstants DEF FrontierTypes, F!TypeOK, QueueInv
<1>2. queue \in Seq(Endpoints) /\ Once(queue)
      /\ \A k \in Endpoints : In(k, queue) <=> In(k, ready) \/ (k = e /\ e \notin waiting)
  <2>1. CASE F!IsNew(e)
    <3>1. ~In(e, ready)
      BY <1>1, <2>1 DEF QueueInv, F!IsNew
    <3>2. <<e>> \in Seq({e}) /\ Once(<<e>>) /\ In(e, <<e>>) /\ queue = ready \o <<e>>
      BY <1>1, <2>1 DEF Once, In
    <3>3. {e} \in SUBSET Endpoints /\ \A k \in {e} : In(k, <<e>>) /\ ~In(k, ready)
      BY <1>1, <3>1, <3>2
    <3> HIDE DEF queue
    <3>4. queue \in Seq(Endpoints) /\ Once(queue) /\ \A k : In(k, queue) <=> In(k, ready) \/ k \in {e}
      BY <1>1, <3>2, <3>3, Appended
    <3> QED
      BY <2>1, <3>4 DEF F!IsNew
  <2>2. CASE ~F!IsNew(e)
    <3>1. queue = ready /\ e \in waiting
      BY <2>2 DEF F!IsNew
    <3> HIDE DEF queue
    <3> QED
      BY <1>1, <3>1
  <2> QED
    BY <2>1, <2>2
<1>3. ready' = F!Foremost(e, queue)
  BY DEF F!Get
<1> HIDE DEF queue
<1>4. /\ ready' \in Seq(Endpoints) /\ Once(ready') /\ (\A k : In(k, ready') <=> In(k, queue))
      /\ \A i \in DOMAIN ready' : ready'[i] = e => i = 1
  BY <1>1, <1>2, <1>3, Advanced
<1> QED
  BY <1>1, <1>2, <1>4 DEF Fronting, F!Get

LEMMA FrontierTypesKept ==
  ASSUME F!FrontierAssumption, FrontierTypes, QueueInv, FetchInv, ConsumerInv, [F!Next]_(F!vars)
  PROVE  FrontierTypes'
<1> USE FrontierConstants DEF FrontierTypes, F!TypeOK, Consumers, F!work, FetchInv
<1>1. ASSUME NEW es \in SUBSET Endpoints, NEW consumer \in Consumers, NEW gone, Adding(es, consumer, gone)
      PROVE  FrontierTypes'
  BY <1>1 DEF Adding, Enqueueing
<1>2. ASSUME NEW e, Launching(e) PROVE FrontierTypes'
  <2>1. pending \in SUBSET Endpoints /\ e \in Endpoints /\ F!Cardinality(pending) < allowed
        /\ ready' \in Seq(Endpoints)
    BY <1>2 DEF Launching, Popping
  <2>2. F!Cardinality(pending \cup {e}) <= MaxTarget
    <3>1. CASE e \in pending
      <4>1. pending \cup {e} = pending
        BY <3>1
      <4> QED
        BY <4>1
    <3>2. CASE e \notin pending
      <4>1. F!Cardinality(pending) \in Nat /\ F!Cardinality(pending \cup {e}) = F!Cardinality(pending) + 1
        BY <2>1, <3>2, Flying
      <4> QED
        BY <2>1, <4>1
    <3> QED
      BY <3>1, <3>2
  <2>3. F!TypeOK'
    BY <1>2, <2>1, <2>2 DEF Launching, Popping
  <2> QED
    BY <1>2, <2>3 DEF Launching, Popping
<1>3. ASSUME NEW e, NEW refusal, Refusing(e, refusal) PROVE FrontierTypes'
  BY <1>3 DEF Refusing, Popping
<1>4. ASSUME NEW e, Fronting(e) PROVE FrontierTypes'
  BY <1>4 DEF Fronting
<1>5. ASSUME NEW e \in Endpoints, F!Complete(e) PROVE FrontierTypes'
  BY <1>5 DEF F!Complete
<1>6. CASE F!Harvest
  <2> DEFINE done == {e \in pending : fetch[e] # "running"}
  <2>1. pending' = pending \ done /\ pending' \in SUBSET pending
    BY <1>6 DEF F!Harvest
  <2>2. F!Cardinality(pending') <= MaxTarget
    <3>1. F!Cardinality(pending') \in Nat /\ F!Cardinality(pending') <= F!Cardinality(pending)
          /\ F!Cardinality(pending) \in Nat
      BY <2>1, Flying
    <3> QED
      BY <3>1
  <2>3. results' \in [Endpoints -> {"none", "ok", "error", "stop"}]
    BY <1>6 DEF F!Harvest
  <2>4. callbacks' \in [Endpoints -> SUBSET Consumers] /\ waiting' \subseteq Endpoints
    BY <1>6 DEF F!Harvest
  <2>5. calls' \subseteq Endpoints \X Consumers
    <3>1. calls' = UNION {{<<e, c>> : c \in callbacks[e]} : e \in done}
      BY <1>6 DEF F!Harvest
    <3>2. \A e \in done : {<<e, c>> : c \in callbacks[e]} \subseteq Endpoints \X Consumers
      OBVIOUS
    <3> QED
      BY <3>1, <3>2
  <2>6. UNCHANGED <<ready, fetch, demand, asked, called, again>> /\ at' = "pump" /\ stopError' \in BOOLEAN
        /\ allowed' \in 1..MaxTarget
    BY <1>6 DEF F!Harvest, F!Stops
  <2>7. F!TypeOK'
    BY <2>1, <2>2, <2>3, <2>4, <2>6
  <2> QED
    BY <2>5, <2>6, <2>7
<1>7. CASE F!PumpEnd
  BY <1>7 DEF F!PumpEnd
<1>8. CASE F!Got
  BY <1>8 DEF F!Got
<1>9. CASE F!Abort
  BY <1>9 DEF F!Abort
<1>10. CASE UNCHANGED F!vars
  BY <1>10 DEF F!vars
<1>11. ASSUME NEW e \in Roots, F!AddRoot(e) PROVE FrontierTypes'
  <2>1. Adding({e}, None, {}) /\ {e} \in SUBSET Endpoints /\ None \in Consumers
    BY <1>11, RootAdds
  <2> QED
    BY <1>1, <2>1
<1>12. ASSUME NEW e \in Endpoints, NEW c \in Consumers, F!Call(e, c) PROVE FrontierTypes'
  <2>1. Adding(Added(e), e, {<<e, c>>}) /\ Added(e) \in SUBSET Endpoints /\ e \in Consumers
    BY <1>12, CallAdds
  <2> QED
    BY <1>1, <2>1
<1>13. CASE F!Submit
  BY <1>2, <1>3, <1>13, SubmitPops
<1>14. ASSUME NEW e \in Demanded, F!Get(e) PROVE FrontierTypes'
  BY <1>4, <1>14, GetFronts
<1> QED
  BY <1>5, <1>6, <1>7, <1>8, <1>9, <1>10, <1>11, <1>12, <1>13, <1>14 DEF F!Next

LEMMA QueueKept ==
  ASSUME F!FrontierAssumption, FrontierTypes, QueueInv, FetchInv, [F!Next]_(F!vars)
  PROVE  QueueInv'
<1> USE FrontierConstants DEF FrontierTypes, F!TypeOK, Consumers, F!work, QueueInv, FetchInv
<1>1. ASSUME NEW es \in SUBSET Endpoints, NEW consumer \in Consumers, NEW gone, Adding(es, consumer, gone)
      PROVE  QueueInv'
  <2>1. Once(ready') /\ ready' \in Seq(Endpoints) /\ pending' = pending /\ demand' = demand
    BY <1>1 DEF Adding, Enqueueing
  <2>2. ASSUME NEW e \in Endpoints
        PROVE  /\ e \in waiting' <=> In(e, ready') \/ e \in pending
               /\ ~(In(e, ready') /\ e \in pending)
    BY <1>1 DEF Adding, Enqueueing
  <2>3. ASSUME NEW i \in DOMAIN ready', ready'[i] = demand PROVE i = 1
    <3>1. demand \in Endpoints
      BY <2>1, <2>3
    <3>2. demand \in waiting \/ results[demand] # "none"
      BY <3>1
    <3>3. i \in DOMAIN ready /\ ready[i] = demand
      BY <1>1, <2>3, <3>1, <3>2 DEF Adding, Enqueueing
    <3> QED
      BY <3>3
  <2> QED
    BY <2>1, <2>2, <2>3
<1>2. ASSUME NEW e, Launching(e) PROVE QueueInv'
  BY <1>2 DEF Launching, Popping
<1>3. ASSUME NEW e, NEW refusal, Refusing(e, refusal) PROVE QueueInv'
  BY <1>3 DEF Refusing, Popping
<1>4. ASSUME NEW e, Fronting(e) PROVE QueueInv'
  <2>1. Once(ready') /\ pending' = pending /\ \A i \in DOMAIN ready' : ready'[i] = demand' => i = 1
    BY <1>4 DEF Fronting
  <2>2. ASSUME NEW k \in Endpoints
        PROVE  /\ k \in waiting' <=> In(k, ready') \/ k \in pending
               /\ ~(In(k, ready') /\ k \in pending)
    BY <1>4 DEF Fronting
  <2> QED
    BY <2>1, <2>2
<1>5. ASSUME NEW e \in Endpoints, F!Complete(e) PROVE QueueInv'
  BY <1>5 DEF F!Complete
<1>6. CASE F!Harvest
  BY <1>6 DEF F!Harvest
<1>7. CASE F!PumpEnd
  BY <1>7 DEF F!PumpEnd
<1>8. CASE F!Got
  BY <1>8 DEF F!Got
<1>9. CASE F!Abort
  BY <1>9 DEF F!Abort
<1>10. CASE UNCHANGED F!vars
  BY <1>10 DEF F!vars
<1>11. ASSUME NEW e \in Roots, F!AddRoot(e) PROVE QueueInv'
  <2>1. Adding({e}, None, {}) /\ {e} \in SUBSET Endpoints /\ None \in Consumers
    BY <1>11, RootAdds
  <2> QED
    BY <1>1, <2>1
<1>12. ASSUME NEW e \in Endpoints, NEW c \in Consumers, F!Call(e, c) PROVE QueueInv'
  <2>1. Adding(Added(e), e, {<<e, c>>}) /\ Added(e) \in SUBSET Endpoints /\ e \in Consumers
    BY <1>12, CallAdds
  <2> QED
    BY <1>1, <2>1
<1>13. CASE F!Submit
  BY <1>2, <1>3, <1>13, SubmitPops
<1>14. ASSUME NEW e \in Demanded, F!Get(e) PROVE QueueInv'
  BY <1>4, <1>14, GetFronts
<1> QED
  BY <1>5, <1>6, <1>7, <1>8, <1>9, <1>10, <1>11, <1>12, <1>13, <1>14 DEF F!Next

LEMMA FetchKept ==
  ASSUME F!FrontierAssumption, FrontierTypes, QueueInv, FetchInv, [F!Next]_(F!vars)
  PROVE  FetchInv'
<1> USE FrontierConstants DEF FrontierTypes, F!TypeOK, Consumers, F!work, QueueInv, FetchInv, F!Stops
<1>1. ASSUME NEW es \in SUBSET Endpoints, NEW consumer \in Consumers, NEW gone, Adding(es, consumer, gone)
      PROVE  FetchInv'
  BY <1>1 DEF Adding, Enqueueing
<1>2. ASSUME NEW e, Launching(e) PROVE FetchInv'
  BY <1>2 DEF Launching, Popping
<1>3. ASSUME NEW e, NEW refusal, Refusing(e, refusal) PROVE FetchInv'
  BY <1>3 DEF Refusing, Popping
<1>4. ASSUME NEW e, Fronting(e) PROVE FetchInv'
  BY <1>4 DEF Fronting
<1>5. ASSUME NEW e \in Endpoints, F!Complete(e) PROVE FetchInv'
  BY <1>5 DEF F!Complete
<1>6. CASE F!Harvest
  BY <1>6 DEF F!Harvest
<1>7. CASE F!PumpEnd
  BY <1>7 DEF F!PumpEnd
<1>8. CASE F!Got
  BY <1>8 DEF F!Got
<1>9. CASE F!Abort
  BY <1>9 DEF F!Abort
<1>10. CASE UNCHANGED F!vars
  BY <1>10 DEF F!vars
<1>11. ASSUME NEW e \in Roots, F!AddRoot(e) PROVE FetchInv'
  <2>1. Adding({e}, None, {}) /\ {e} \in SUBSET Endpoints /\ None \in Consumers
    BY <1>11, RootAdds
  <2> QED
    BY <1>1, <2>1
<1>12. ASSUME NEW e \in Endpoints, NEW c \in Consumers, F!Call(e, c) PROVE FetchInv'
  <2>1. Adding(Added(e), e, {<<e, c>>}) /\ Added(e) \in SUBSET Endpoints /\ e \in Consumers
    BY <1>12, CallAdds
  <2> QED
    BY <1>1, <2>1
<1>13. CASE F!Submit
  BY <1>2, <1>3, <1>13, SubmitPops
<1>14. ASSUME NEW e \in Demanded, F!Get(e) PROVE FetchInv'
  BY <1>4, <1>14, GetFronts
<1> QED
  BY <1>5, <1>6, <1>7, <1>8, <1>9, <1>10, <1>11, <1>12, <1>13, <1>14 DEF F!Next

LEMMA ConsumersKept ==
  ASSUME F!FrontierAssumption, FrontierTypes, QueueInv, FetchInv, ConsumerInv, [F!Next]_(F!vars)
  PROVE  ConsumerInv'
<1> USE FrontierConstants DEF FrontierTypes, F!TypeOK, Consumers, F!work, QueueInv, FetchInv,
    ConsumerInv
<1>1. ASSUME NEW es \in SUBSET Endpoints, NEW consumer \in Consumers, NEW gone, Adding(es, consumer, gone)
      PROVE  ConsumerInv'
  BY <1>1 DEF Adding, Enqueueing
<1>2. ASSUME NEW e, Launching(e) PROVE ConsumerInv'
  BY <1>2 DEF Launching, Popping
<1>3. ASSUME NEW e, NEW refusal, Refusing(e, refusal) PROVE ConsumerInv'
  BY <1>3 DEF Refusing, Popping
<1>4. ASSUME NEW e, Fronting(e) PROVE ConsumerInv'
  BY <1>4 DEF Fronting
<1>5. ASSUME NEW e \in Endpoints, F!Complete(e) PROVE ConsumerInv'
  BY <1>5 DEF F!Complete
<1>6. CASE F!Harvest
  BY <1>6 DEF F!Harvest
<1>7. CASE F!PumpEnd
  BY <1>7 DEF F!PumpEnd
<1>8. CASE F!Got
  BY <1>8 DEF F!Got
<1>9. CASE F!Abort
  BY <1>9 DEF F!Abort
<1>10. CASE UNCHANGED F!vars
  BY <1>10 DEF F!vars
<1>11. ASSUME NEW e \in Roots, F!AddRoot(e) PROVE ConsumerInv'
  <2>1. Adding({e}, None, {}) /\ {e} \in SUBSET Endpoints /\ None \in Consumers
    BY <1>11, RootAdds
  <2> QED
    BY <1>1, <2>1
<1>12. ASSUME NEW e \in Endpoints, NEW c \in Consumers, F!Call(e, c) PROVE ConsumerInv'
  <2>1. Adding(Added(e), e, {<<e, c>>}) /\ Added(e) \in SUBSET Endpoints /\ e \in Consumers
    BY <1>12, CallAdds
  <2> QED
    BY <1>1, <2>1
<1>13. CASE F!Submit
  BY <1>2, <1>3, <1>13, SubmitPops
<1>14. ASSUME NEW e \in Demanded, F!Get(e) PROVE ConsumerInv'
  BY <1>4, <1>14, GetFronts
<1> QED
  BY <1>5, <1>6, <1>7, <1>8, <1>9, <1>10, <1>11, <1>12, <1>13, <1>14 DEF F!Next

LEMMA TwiceKept ==
  ASSUME F!FrontierAssumption, FrontierTypes, QueueInv, FetchInv, ConsumerInv, F!NothingTwice,
      [F!Next]_(F!vars)
  PROVE  F!NothingTwice'
<1> USE FrontierConstants DEF FrontierTypes, F!TypeOK, Consumers, F!work, QueueInv, FetchInv,
    ConsumerInv, F!NothingTwice
<1>1. ASSUME NEW es \in SUBSET Endpoints, NEW consumer \in Consumers, NEW gone, Adding(es, consumer, gone)
      PROVE  F!NothingTwice'
  BY <1>1 DEF Adding, Enqueueing
<1>2. ASSUME NEW e, Launching(e) PROVE F!NothingTwice'
  BY <1>2 DEF Launching, Popping
<1>3. ASSUME NEW e, NEW refusal, Refusing(e, refusal) PROVE F!NothingTwice'
  BY <1>3 DEF Refusing, Popping
<1>4. ASSUME NEW e, Fronting(e) PROVE F!NothingTwice'
  BY <1>4 DEF Fronting
<1>5. ASSUME NEW e \in Endpoints, F!Complete(e) PROVE F!NothingTwice'
  BY <1>5 DEF F!Complete
<1>6. CASE F!Harvest
  BY <1>6 DEF F!Harvest
<1>7. CASE F!PumpEnd
  BY <1>7 DEF F!PumpEnd
<1>8. CASE F!Got
  BY <1>8 DEF F!Got
<1>9. CASE F!Abort
  BY <1>9 DEF F!Abort
<1>10. CASE UNCHANGED F!vars
  BY <1>10 DEF F!vars
<1>11. ASSUME NEW e \in Roots, F!AddRoot(e) PROVE F!NothingTwice'
  <2>1. Adding({e}, None, {}) /\ {e} \in SUBSET Endpoints /\ None \in Consumers
    BY <1>11, RootAdds
  <2> QED
    BY <1>1, <2>1
<1>12. ASSUME NEW e \in Endpoints, NEW c \in Consumers, F!Call(e, c) PROVE F!NothingTwice'
  <2>1. Adding(Added(e), e, {<<e, c>>}) /\ Added(e) \in SUBSET Endpoints /\ e \in Consumers
    BY <1>12, CallAdds
  <2> QED
    BY <1>1, <2>1
<1>13. CASE F!Submit
  BY <1>2, <1>3, <1>13, SubmitPops
<1>14. ASSUME NEW e \in Demanded, F!Get(e) PROVE F!NothingTwice'
  BY <1>4, <1>14, GetFronts
<1> QED
  BY <1>5, <1>6, <1>7, <1>8, <1>9, <1>10, <1>11, <1>12, <1>13, <1>14 DEF F!Next

\* One step keeps the invariant.
LEMMA FrontierStep ==
  ASSUME F!FrontierAssumption, FrontierInv, [F!Next]_(F!vars)
  PROVE  FrontierInv'
<1> USE DEF FrontierInv
<1>1. FrontierTypes' /\ QueueInv' /\ FetchInv'
  BY FrontierTypesKept, QueueKept, FetchKept
<1>2. ConsumerInv' /\ F!NothingTwice'
  BY ConsumersKept, TwiceKept
<1> QED
  BY <1>1, <1>2

\* Each endpoint of the queue has one place in it.
LEMMA OnePlace ==
  ASSUME FrontierInv, NEW e \in Endpoints
  PROVE  F!Cardinality({i \in DOMAIN ready : ready[i] = e}) = IF In(e, ready) THEN 1 ELSE 0
<1> DEFINE S == {i \in DOMAIN ready : ready[i] = e}
<1>1. CASE In(e, ready)
  <2>1. PICK i \in DOMAIN ready : ready[i] = e
    BY <1>1 DEF In
  <2>2. S = {i}
    BY <2>1 DEF FrontierInv, QueueInv, Once
  <2>3. Cardinality({i}) = 1
    BY FS_Singleton
  <2> QED
    BY <1>1, <2>2, <2>3, CountingFrontier
<1>2. CASE ~In(e, ready)
  <2>1. S = {}
    BY <1>2 DEF In
  <2>2. Cardinality({}) = 0
    BY FS_EmptySet
  <2> QED
    BY <1>2, <2>1, <2>2, CountingFrontier
<1> QED
  BY <1>1, <1>2

\* FrontierFetcher: its variables keep their types, and no more requests are in
\* flight than its concurrency target.
THEOREM FrontierTyped ==
  ASSUME F!FrontierAssumption
  PROVE  F!Spec => []F!TypeOK
<1>1. FrontierInv => F!TypeOK
  BY DEF FrontierInv, FrontierTypes
<1> QED
  BY <1>1, FrontierInit, FrontierStep, PTL DEF F!Spec

\* FrontierFetcher: no request and no consumer that was added is dropped on the
\* way, every consumer of a result is called, and neither twice.
THEOREM FrontierIsHonest ==
  ASSUME F!FrontierAssumption
  PROVE  F!Spec => [](F!NothingForgotten /\ F!EveryConsumerCalled /\ F!NothingTwice)
<1>1. FrontierInv => F!NothingForgotten
  <2> SUFFICES ASSUME FrontierInv, NEW e \in Endpoints
               PROVE  F!Cardinality({i \in DOMAIN ready : ready[i] = e}) + (IF e \in pending THEN 1 ELSE 0)
                        = IF e \in waiting THEN 1 ELSE 0
    BY DEF F!NothingForgotten
  <2>1. /\ e \in waiting <=> In(e, ready) \/ e \in pending
        /\ ~(In(e, ready) /\ e \in pending)
    BY DEF FrontierInv, QueueInv
  <2> QED
    BY <2>1, OnePlace
<1>2. FrontierInv => F!EveryConsumerCalled
  <2> SUFFICES ASSUME FrontierInv, at # "aborted", NEW add \in asked, results[add[1]] # "none"
               PROVE  add \in calls \cup called
    BY DEF F!EveryConsumerCalled
  <2>1. PICK e \in Endpoints, c \in Consumers : add = <<e, c>>
    BY DEF FrontierInv, FrontierTypes
  <2> QED
    BY <2>1 DEF FrontierInv, ConsumerInv
<1>3. FrontierInv => F!NothingTwice
  BY DEF FrontierInv
<1> QED
  BY <1>1, <1>2, <1>3, FrontierInit, FrontierStep, PTL DEF F!Spec

\* What no step may do: submit after a stop, or submit another endpoint while
\* what get waits for is queued.
LEMMA SubmitsInOrder ==
  ASSUME FrontierInv, [F!Next]_(F!vars)
  PROVE  \/ pending' \subseteq pending
         \/ (\A e \in Endpoints : results[e] # "stop")
            /\ (In(demand, ready) => demand \in pending')
<1> SUFFICES ASSUME ~(pending' \subseteq pending)
             PROVE  (\A e \in Endpoints : results[e] # "stop") /\ (In(demand, ready) => demand \in pending')
  OBVIOUS
<1>1. F!Submit
  BY DEF F!Next, F!AddRoot, F!Call, F!Get, F!Complete, F!Harvest, F!PumpEnd, F!Got, F!Abort, F!vars, F!work
<1>2. ~stopError /\ pending' = pending \cup {Head(ready)}
  BY <1>1 DEF F!Submit, F!MaySubmit
<1>3. \A e \in Endpoints : results[e] # "stop"
  BY <1>2 DEF FrontierInv, FetchInv
<1>4. In(demand, ready) => Head(ready) = demand
  BY DEF FrontierInv, QueueInv, In, FrontierTypes, F!TypeOK
<1> QED
  BY <1>2, <1>3, <1>4

\* FrontierFetcher: after one request of a group asked the run to stop nothing is
\* submitted, and what get waits for does not wait behind speculative work.
THEOREM StopsAndDemands ==
  ASSUME F!FrontierAssumption
  PROVE  F!Spec => F!NoSubmitAfterStop /\ F!DemandFirst
<1>1. FrontierInv /\ [F!Next]_(F!vars)
        => [pending' \subseteq pending \/ \A e \in Endpoints : results[e] # "stop"]_(F!vars)
  BY SubmitsInOrder
<1>2. FrontierInv /\ [F!Next]_(F!vars)
        => [(demand # None /\ ~(pending' \subseteq pending) /\ \E i \in DOMAIN ready : ready[i] = demand)
              => demand \in pending']_(F!vars)
  BY SubmitsInOrder DEF In
<1> QED
  BY <1>1, <1>2, FrontierInit, FrontierStep, PTL DEF F!Spec, F!NoSubmitAfterStop, F!DemandFirst

-----------------------------------------------------------------------------
(***************************************************************************)
(* A list of endpoints fetched ahead (module Prefetch), for any number of   *)
(* endpoints and any limit of jobs: no consumer gets a result twice, a call *)
(* that returns has answered everything, and what arrived is kept.          *)
(***************************************************************************)
VARIABLES remaining, inFlight, task, held, answers, batch, delivered, stop, jobs, stage, keyboard,
          failed, consumed, retain
P == INSTANCE Prefetch WITH pending <- inFlight, job <- task, results <- answers, target <- jobs,
       at <- stage, calls <- consumed

Stages == {"idle", "submit", "wait", "deliver", "closing", "returned", "raised"}
Given == {"ok", "error", "stop"}

\* Every variable has its type, and the jobs keep to the limit.
PrefetchTypes ==
  /\ P!TypeOK
  /\ held \subseteq Endpoints /\ delivered \subseteq Endpoints
  /\ jobs \in 1..MaxTarget /\ stage \in Stages
  /\ stop \in BOOLEAN /\ keyboard \in BOOLEAN /\ failed \in BOOLEAN /\ retain \in BOOLEAN

\* An endpoint waits for its job, has one, or was delivered, and a job under way
\* is one of the pending that no consumer saw.
JobInv ==
  \A e \in Endpoints :
    /\ e \in remaining => task[e] = "none" /\ e \notin delivered /\ e \notin held
    /\ e \notin remaining => task[e] # "none" /\ e \in inFlight \cup delivered
    /\ task[e] = "running" => e \in inFlight /\ e \notin delivered

\* A consumer is called when its endpoint is marked, and never before its result
\* is there; an endpoint without a job has none until the call returns.
ResultInv ==
  \A e \in Endpoints :
    /\ consumed[e] = IF e \in delivered THEN 1 ELSE 0
    /\ e \in delivered => answers[e] \in Given
    /\ e \in batch => task[e] \in Given /\ answers[e] = task[e]
    /\ e \in remaining => answers[e] \in {"none", "never"} /\ (stage # "returned" => answers[e] = "none")

\* What each stage of the call has settled.
StageInv ==
  /\ stage = "idle" => inFlight = {} /\ held = {} /\ ~stop
  /\ stage \in {"idle", "submit", "wait", "returned"} => batch = {}
  /\ stage \notin {"closing", "raised"} => inFlight \cap delivered = {}
  /\ stage = "submit" => ~stop
  /\ stage = "returned" => inFlight = {} /\ (retain => \A e \in remaining : answers[e] = "never")
  /\ stage = "raised" => \A e \in Endpoints : task[e] # "running"

\* A call that keeps no results holds only the futures of the pending.
HeldInv ==
  ~retain => held \subseteq inFlight /\ (stage = "raised" => held = {})

PrefetchInv == PrefetchTypes /\ JobInv /\ ResultInv /\ StageInv /\ HeldInv /\ P!InterruptionKeepsResults

\* FiniteSets as Prefetch sees it.
LEMMA CountingAhead == \A S : (P!IsFiniteSet(S) <=> IsFiniteSet(S)) /\ P!Cardinality(S) = Cardinality(S)
<1>1. \A S : P!IsFiniteSet(S) <=> IsFiniteSet(S)
  BY DEF P!IsFiniteSet, IsFiniteSet
<1>2. \A S : P!Cardinality(S) = Cardinality(S)
  BY DEF P!Cardinality, Cardinality
<1> QED
  BY <1>1, <1>2

\* What the assumption says, and how the number of pending jobs changes.
LEMMA PrefetchConstants ==
  ASSUME P!PrefetchAssumption
  PROVE  /\ MaxTarget \in Nat \ {0} /\ IsFiniteSet(Endpoints) /\ P!Cardinality({}) = 0
         /\ \A S \in SUBSET Endpoints :
              /\ P!Cardinality(S) \in Nat
              /\ \A e \in Endpoints \ S : P!Cardinality(S \cup {e}) = P!Cardinality(S) + 1
              /\ \A R \in SUBSET S : P!Cardinality(R) <= P!Cardinality(S)
<1>1. MaxTarget \in Nat \ {0} /\ IsFiniteSet(Endpoints) /\ P!Cardinality({}) = 0
  BY CountingAhead, FS_EmptySet DEF P!PrefetchAssumption
<1>2. ASSUME NEW S \in SUBSET Endpoints
      PROVE  /\ P!Cardinality(S) \in Nat
             /\ \A e \in Endpoints \ S : P!Cardinality(S \cup {e}) = P!Cardinality(S) + 1
             /\ \A R \in SUBSET S : P!Cardinality(R) <= P!Cardinality(S)
  <2>1. IsFiniteSet(S)
    BY <1>1, FS_Subset
  <2>2. Cardinality(S) \in Nat
    BY <2>1, FS_CardinalityType
  <2>3. ASSUME NEW e \in Endpoints \ S PROVE Cardinality(S \cup {e}) = Cardinality(S) + 1
    BY <2>1, FS_AddElement
  <2>4. ASSUME NEW R \in SUBSET S PROVE Cardinality(R) <= Cardinality(S)
    BY <2>1, FS_Subset
  <2> QED
    BY <2>2, <2>3, <2>4, CountingAhead
<1> QED
  BY <1>1, <1>2

LEMMA PrefetchInit ==
  ASSUME P!PrefetchAssumption, P!Init
  PROVE  PrefetchInv
<1> USE DEF P!Init
<1>1. PrefetchTypes
  <2>1. P!Cardinality({}) <= MaxTarget /\ 1 \in 1..MaxTarget
    BY PrefetchConstants
  <2>2. P!TypeOK
    BY <2>1 DEF P!TypeOK
  <2> QED
    BY <2>1, <2>2 DEF PrefetchTypes, Stages
<1>2. JobInv /\ ResultInv /\ StageInv /\ HeldInv
  BY DEF JobInv, ResultInv, StageInv, HeldInv
<1>3. P!InterruptionKeepsResults
  BY DEF P!InterruptionKeepsResults
<1> QED
  BY <1>1, <1>2, <1>3 DEF PrefetchInv

LEMMA PrefetchTypesKept ==
  ASSUME P!PrefetchAssumption, PrefetchTypes, JobInv, StageInv, [P!Next]_(P!vars)
  PROVE  PrefetchTypes'
<1> USE DEF P!Done, P!HardLimit, P!Forget, Stages, Given, PrefetchTypes, P!TypeOK, JobInv, StageInv
<1>1. CASE P!Begin
  BY PrefetchConstants, <1>1 DEF P!Begin
<1>2. CASE P!SubmitOne
  BY PrefetchConstants, <1>2 DEF P!SubmitOne
<1>3. CASE P!SubmitEnd
  BY PrefetchConstants, <1>3 DEF P!SubmitEnd
<1>4. CASE P!Collect
  BY PrefetchConstants, <1>4 DEF P!Collect
<1>5. CASE P!Refill
  BY PrefetchConstants, <1>5 DEF P!Refill
<1>6. CASE P!Return
  BY PrefetchConstants, <1>6 DEF P!Return
<1>7. CASE P!CancelledFuture
  BY PrefetchConstants, <1>7 DEF P!CancelledFuture
<1>8. CASE P!Raise
  BY PrefetchConstants, <1>8 DEF P!Raise
<1>9. ASSUME NEW e \in Endpoints, P!Deliver(e) PROVE PrefetchTypes'

  <2>1. consumed' \in [Endpoints -> Nat] /\ delivered' \subseteq Endpoints
    BY <1>9 DEF P!Deliver
  <2>2. inFlight' \subseteq inFlight /\ batch' \subseteq inFlight' /\ held' \subseteq held
    BY <1>9 DEF P!Deliver
  <2>3. P!Cardinality(inFlight') <= MaxTarget
    <3>1. P!Cardinality(inFlight') \in Nat /\ P!Cardinality(inFlight') <= P!Cardinality(inFlight)
      BY <2>2, PrefetchConstants
    <3> QED
      BY <3>1, PrefetchConstants
  <2>4. UNCHANGED <<remaining, task, answers, jobs, retain>> /\ stage' \in Stages /\ stop' \in BOOLEAN
        /\ keyboard' \in BOOLEAN /\ failed' \in BOOLEAN
    BY <1>9 DEF P!Deliver
  <2> QED
    BY <2>1, <2>2, <2>3, <2>4
<1>10. CASE P!Interrupted
  BY PrefetchConstants, <1>10 DEF P!Interrupted
<1>11. ASSUME NEW e \in Endpoints, P!Complete(e) PROVE PrefetchTypes'
  BY PrefetchConstants, <1>11 DEF P!Complete
<1>12. CASE UNCHANGED P!vars
  BY <1>12 DEF P!vars
<1> QED
  BY <1>1, <1>2, <1>3, <1>4, <1>5, <1>6, <1>7, <1>8, <1>9, <1>10, <1>11, <1>12 DEF P!Next, P!Proceed

LEMMA JobsKept ==
  ASSUME P!PrefetchAssumption, PrefetchTypes, JobInv, ResultInv, StageInv, [P!Next]_(P!vars)
  PROVE  JobInv'
<1> USE DEF P!Done, P!HardLimit, P!Forget, Stages, Given, PrefetchTypes, P!TypeOK, JobInv, StageInv,
    ResultInv
<1>1. CASE P!Begin
  BY <1>1 DEF P!Begin
<1>2. CASE P!SubmitOne
  BY <1>2 DEF P!SubmitOne
<1>3. CASE P!SubmitEnd
  BY <1>3 DEF P!SubmitEnd
<1>4. CASE P!Collect
  BY <1>4 DEF P!Collect
<1>5. CASE P!Refill
  BY <1>5 DEF P!Refill
<1>6. CASE P!Return
  BY <1>6 DEF P!Return
<1>7. CASE P!CancelledFuture
  BY <1>7 DEF P!CancelledFuture
<1>8. CASE P!Raise
  BY <1>8 DEF P!Raise
<1>9. ASSUME NEW e \in Endpoints, P!Deliver(e) PROVE JobInv'
  BY <1>9 DEF P!Deliver
<1>10. CASE P!Interrupted
  BY <1>10 DEF P!Interrupted
<1>11. ASSUME NEW e \in Endpoints, P!Complete(e) PROVE JobInv'
  BY <1>11 DEF P!Complete
<1>12. CASE UNCHANGED P!vars
  BY <1>12 DEF P!vars
<1> QED
  BY <1>1, <1>2, <1>3, <1>4, <1>5, <1>6, <1>7, <1>8, <1>9, <1>10, <1>11, <1>12 DEF P!Next, P!Proceed

LEMMA ResultsKept ==
  ASSUME P!PrefetchAssumption, PrefetchTypes, JobInv, ResultInv, StageInv, [P!Next]_(P!vars)
  PROVE  ResultInv'
<1> USE DEF P!Done, P!HardLimit, P!Forget, Stages, Given, PrefetchTypes, P!TypeOK, JobInv, StageInv,
    ResultInv
<1>1. CASE P!Begin
  BY <1>1 DEF P!Begin
<1>2. CASE P!SubmitOne
  BY <1>2 DEF P!SubmitOne
<1>3. CASE P!SubmitEnd
  BY <1>3 DEF P!SubmitEnd
<1>4. CASE P!Collect
  BY <1>4 DEF P!Collect
<1>5. CASE P!Refill
  BY <1>5 DEF P!Refill
<1>6. CASE P!Return
  BY <1>6 DEF P!Return
<1>7. CASE P!CancelledFuture
  BY <1>7 DEF P!CancelledFuture
<1>8. CASE P!Raise
  BY <1>8 DEF P!Raise
<1>9. ASSUME NEW e \in Endpoints, P!Deliver(e) PROVE ResultInv'
  BY <1>9 DEF P!Deliver
<1>10. CASE P!Interrupted
  BY <1>10 DEF P!Interrupted
<1>11. ASSUME NEW e \in Endpoints, P!Complete(e) PROVE ResultInv'
  BY <1>11 DEF P!Complete
<1>12. CASE UNCHANGED P!vars
  BY <1>12 DEF P!vars
<1> QED
  BY <1>1, <1>2, <1>3, <1>4, <1>5, <1>6, <1>7, <1>8, <1>9, <1>10, <1>11, <1>12 DEF P!Next, P!Proceed

LEMMA StagesKept ==
  ASSUME P!PrefetchAssumption, PrefetchTypes, JobInv, ResultInv, StageInv, [P!Next]_(P!vars)
  PROVE  StageInv'
<1> USE DEF P!Done, P!HardLimit, P!Forget, Stages, Given, PrefetchTypes, P!TypeOK, JobInv, StageInv,
    ResultInv
<1>1. CASE P!Begin
  BY <1>1 DEF P!Begin
<1>2. CASE P!SubmitOne
  BY <1>2 DEF P!SubmitOne
<1>3. CASE P!SubmitEnd
  BY <1>3 DEF P!SubmitEnd
<1>4. CASE P!Collect
  BY <1>4 DEF P!Collect
<1>5. CASE P!Refill
  BY <1>5 DEF P!Refill
<1>6. CASE P!Return
  BY <1>6 DEF P!Return
<1>7. CASE P!CancelledFuture
  BY <1>7 DEF P!CancelledFuture
<1>8. CASE P!Raise
  BY <1>8 DEF P!Raise
<1>9. ASSUME NEW e \in Endpoints, P!Deliver(e) PROVE StageInv'
  BY <1>9 DEF P!Deliver
<1>10. CASE P!Interrupted
  BY <1>10 DEF P!Interrupted
<1>11. ASSUME NEW e \in Endpoints, P!Complete(e) PROVE StageInv'
  BY <1>11 DEF P!Complete
<1>12. CASE UNCHANGED P!vars
  BY <1>12 DEF P!vars
<1> QED
  BY <1>1, <1>2, <1>3, <1>4, <1>5, <1>6, <1>7, <1>8, <1>9, <1>10, <1>11, <1>12 DEF P!Next, P!Proceed

LEMMA FuturesKept ==
  ASSUME P!PrefetchAssumption, PrefetchTypes, JobInv, StageInv, HeldInv, [P!Next]_(P!vars)
  PROVE  HeldInv'
<1> USE DEF P!Done, P!HardLimit, P!Forget, Stages, Given, PrefetchTypes, P!TypeOK, JobInv, StageInv,
    HeldInv
<1>1. CASE P!Begin
  BY <1>1 DEF P!Begin
<1>2. CASE P!SubmitOne
  BY <1>2 DEF P!SubmitOne
<1>3. CASE P!SubmitEnd
  BY <1>3 DEF P!SubmitEnd
<1>4. CASE P!Collect
  BY <1>4 DEF P!Collect
<1>5. CASE P!Refill
  BY <1>5 DEF P!Refill
<1>6. CASE P!Return
  BY <1>6 DEF P!Return
<1>7. CASE P!CancelledFuture
  BY <1>7 DEF P!CancelledFuture
<1>8. CASE P!Raise
  BY <1>8 DEF P!Raise
<1>9. ASSUME NEW e \in Endpoints, P!Deliver(e) PROVE HeldInv'
  BY <1>9 DEF P!Deliver
<1>10. CASE P!Interrupted
  BY <1>10 DEF P!Interrupted
<1>11. ASSUME NEW e \in Endpoints, P!Complete(e) PROVE HeldInv'
  BY <1>11 DEF P!Complete
<1>12. CASE UNCHANGED P!vars
  BY <1>12 DEF P!vars
<1> QED
  BY <1>1, <1>2, <1>3, <1>4, <1>5, <1>6, <1>7, <1>8, <1>9, <1>10, <1>11, <1>12 DEF P!Next, P!Proceed

LEMMA InterruptionKept ==
  ASSUME P!PrefetchAssumption, PrefetchTypes, JobInv, ResultInv, StageInv, P!InterruptionKeepsResults,
      [P!Next]_(P!vars)
  PROVE  P!InterruptionKeepsResults'
<1> USE DEF P!Done, P!HardLimit, P!Forget, Stages, Given, PrefetchTypes, P!TypeOK, JobInv, StageInv,
    ResultInv, P!InterruptionKeepsResults
<1>1. CASE P!Begin
  BY <1>1 DEF P!Begin
<1>2. CASE P!SubmitOne
  BY <1>2 DEF P!SubmitOne
<1>3. CASE P!SubmitEnd
  BY <1>3 DEF P!SubmitEnd
<1>4. CASE P!Collect
  BY <1>4 DEF P!Collect
<1>5. CASE P!Refill
  BY <1>5 DEF P!Refill
<1>6. CASE P!Return
  BY <1>6 DEF P!Return
<1>7. CASE P!CancelledFuture
  BY <1>7 DEF P!CancelledFuture
<1>8. CASE P!Raise

  <2> DEFINE due == {e \in inFlight : task[e] \in {"ok"} /\ e \notin delivered}
  <2>1. SUFFICES ASSUME keyboard, ~failed', NEW e \in Endpoints, task[e] = "ok"
                 PROVE  consumed'[e] = 1
    BY <1>8 DEF P!Raise
  <2>2. PICK es \in SUBSET due :
          /\ consumed' = [k \in Endpoints |-> IF k \in es THEN consumed[k] + 1 ELSE consumed[k]]
          /\ failed' = (failed \/ es # due)
    BY <1>8, <2>1 DEF P!Raise
  <2>3. es = due
    BY <2>1, <2>2
  <2>4. consumed'[e] = IF e \in due THEN consumed[e] + 1 ELSE consumed[e]
    BY <2>2, <2>3
  <2>5. e \in due <=> e \notin delivered
    BY <2>1
  <2> QED
    BY <2>4, <2>5
<1>9. ASSUME NEW e \in Endpoints, P!Deliver(e) PROVE P!InterruptionKeepsResults'
  BY <1>9 DEF P!Deliver
<1>10. CASE P!Interrupted
  BY <1>10 DEF P!Interrupted
<1>11. ASSUME NEW e \in Endpoints, P!Complete(e) PROVE P!InterruptionKeepsResults'
  BY <1>11 DEF P!Complete
<1>12. CASE UNCHANGED P!vars
  BY <1>12 DEF P!vars
<1> QED
  BY <1>1, <1>2, <1>3, <1>4, <1>5, <1>6, <1>7, <1>8, <1>9, <1>10, <1>11, <1>12 DEF P!Next, P!Proceed

\* One step keeps the invariant.
LEMMA PrefetchStep ==
  ASSUME P!PrefetchAssumption, PrefetchInv, [P!Next]_(P!vars)
  PROVE  PrefetchInv'
<1> USE DEF PrefetchInv
<1>1. PrefetchTypes' /\ JobInv'
  BY PrefetchTypesKept, JobsKept
<1>2. ResultInv' /\ StageInv'
  BY ResultsKept, StagesKept
<1>3. HeldInv' /\ P!InterruptionKeepsResults'
  BY FuturesKept, InterruptionKept
<1> QED
  BY <1>1, <1>2, <1>3

\* Esplora.prefetch: its variables keep their types, and no more jobs are
\* pending than the limit of the client allows.
THEOREM PrefetchTyped ==
  ASSUME P!PrefetchAssumption
  PROVE  P!Spec => []P!TypeOK
<1>1. PrefetchInv => P!TypeOK
  BY DEF PrefetchInv, PrefetchTypes
<1> QED
  BY <1>1, PrefetchInit, PrefetchStep, PTL DEF P!Spec

\* Esplora.prefetch: no consumer gets a result twice, a call that returns has
\* answered every endpoint, what arrived before an interruption is consumed, and
\* a call that keeps no results leaves no future behind, however it ends.
THEOREM PrefetchIsHonest ==
  ASSUME P!PrefetchAssumption
  PROVE  P!Spec => [](/\ P!ConsumedOnce /\ P!AnsweredCompletely
                      /\ P!InterruptionKeepsResults /\ P!NothingHeld)
<1>1. PrefetchInv => P!ConsumedOnce
  BY DEF PrefetchInv, ResultInv, P!ConsumedOnce
<1>2. PrefetchInv => P!AnsweredCompletely
  BY DEF PrefetchInv, PrefetchTypes, JobInv, ResultInv, StageInv, Given, P!AnsweredCompletely, P!TypeOK
<1>3. PrefetchInv => P!InterruptionKeepsResults /\ P!NothingHeld
  BY DEF PrefetchInv, StageInv, HeldInv, P!NothingHeld
<1> QED
  BY <1>1, <1>2, <1>3, PrefetchInit, PrefetchStep, PTL DEF P!Spec

\* Esplora.prefetch: after a hard limit, or a consumer that wants no more, no
\* job is started.
THEOREM NothingStartedLate ==
  ASSUME P!PrefetchAssumption
  PROVE  P!Spec => P!NoJobAfterStop
<1>1. ASSUME PrefetchInv, [P!Next]_(P!vars) PROVE remaining' = remaining \/ ~stop
  BY <1>1 DEF PrefetchInv, StageInv, P!Next, P!Proceed, P!Begin, P!SubmitOne, P!SubmitEnd, P!Collect,
     P!Refill, P!Return, P!CancelledFuture, P!Raise, P!Deliver, P!Interrupted, P!Complete, P!vars
<1> QED
  BY <1>1, PrefetchInit, PrefetchStep, PTL DEF P!Spec, P!NoJobAfterStop
=============================================================================
