------------------------ MODULE MarketCalendar_proofs ------------------------
(***************************************************************************)
(* What the calendar's operators return, for the proofs about the modules   *)
(* that read it: the latest and the earliest of some days are among them,   *)
(* and a completed trading day is one that is over.                         *)
(***************************************************************************)
EXTENDS MarketCalendar, TLAPS, WellFoundedInduction

\* Some natural number of a set is its least.
LEMMA LeastOf ==
    ASSUME NEW S \in SUBSET Nat, S # {}
    PROVE  \E m \in S : \A n \in S : m <= n
  <1>1. PICK m \in S : \A n \in S : <<n, m>> \notin OpToRel(<, Nat)
    BY WFMin, NatLessThanWellFounded, Zenon
  <1>2. \A n \in S : ~(n < m)
    BY <1>1, Zenon DEF OpToRel
  <1> QED BY <1>2

\* Some day of the calendar in a set is its last.
LEMMA LastOf ==
    ASSUME NEW S \in SUBSET Coverage, S # {}
    PROVE  \E m \in S : \A n \in S : n <= m
  <1> USE CalendarAssumption DEF Coverage
  <1> DEFINE later == {n \in Nat : \A d \in S : d <= n}
  <1>1. CoverageEnd \in later
    OBVIOUS
  <1>2. PICK m \in later : \A n \in later : m <= n
    BY <1>1, LeastOf
  <1>3. m \in S
    <2> SUFFICES ASSUME m \notin S PROVE FALSE
      OBVIOUS
    <2>1. PICK e \in S : TRUE
      OBVIOUS
    <2>2. m # 0
      BY <2>1 DEF NoDay
    <2>3. \A d \in S : d <= m - 1
      OBVIOUS
    <2> QED BY <1>2, <2>2, <2>3
  <1> QED BY <1>3

\* Latest: a member that none exceeds.
LEMMA LatestIn ==
    ASSUME NEW S \in SUBSET Coverage, S # {}
    PROVE  Latest(S) \in S /\ \A d \in S : d <= Latest(S)
  BY LastOf DEF Latest

\* Earliest: a member that none precedes.
LEMMA EarliestIn ==
    ASSUME NEW S \in SUBSET Coverage, S # {}
    PROVE  Earliest(S) \in S /\ \A d \in S : Earliest(S) <= d
  <1>1. S \in SUBSET Nat
    BY CalendarAssumption DEF Coverage
  <1> QED BY <1>1, LeastOf DEF Earliest

\* Days are natural numbers, and no day is NoDay.
LEMMA DaysAreNat == Coverage \subseteq Nat /\ NoDay \notin Coverage /\ NoDay \notin TradingDates
                    /\ TradingDates \subseteq Coverage /\ NoDay = 0
  BY CalendarAssumption DEF Coverage, TradingDates, NoDay

\* The day that the cut-off calls completed is a trading day that is over.
LEMMA LatestOverIsOver ==
    ASSUME NEW t, NEW cutoff, LatestOver(t, cutoff) # NoDay
    PROVE  LatestOver(t, cutoff) \in TradingDates /\ Over(LatestOver(t, cutoff), t, cutoff)
  <1> DEFINE days == {d \in TradingDates : Over(d, t, cutoff)}
  <1>1. days \in SUBSET Coverage
    BY DaysAreNat
  <1>2. days # {} /\ LatestOver(t, cutoff) = Latest(days)
    BY DEF LatestOver, Latest
  <1>3. Latest(days) \in days
    BY <1>1, <1>2, LatestIn
  <1> QED BY <1>2, <1>3, Zenon

\* Days and minutes of instants are natural numbers.
LEMMA InstantNat == \A t \in Instants : t.day \in Nat /\ t.minute \in Nat
  <1>1. \A t \in Instants : t.day \in Nat /\ t.minute \in Clock
    BY CalendarAssumption
  <1>2. Clock \subseteq Nat
    BY DEF Clock
  <1> QED BY <1>1, <1>2

\* The clock starts at an instant.
LEMMA FirstInstantIn == FirstInstant \in Instants
  <1> DEFINE days == {t.day : t \in Instants}
  <1>1. PICK first \in days : \A day \in days : first <= day
    <2>1. days \in SUBSET Nat /\ days # {}
      BY InstantNat, CalendarAssumption
    <2> QED BY <2>1, LeastOf
  <1> DEFINE minutes == {t.minute : t \in {u \in Instants : u.day = first}}
  <1>2. PICK minute \in minutes : \A m \in minutes : minute <= m
    <2>1. minutes \in SUBSET Nat /\ minutes # {}
      BY InstantNat
    <2> QED BY <2>1, LeastOf
  <1>3. PICK t \in Instants : t.day = first /\ t.minute = minute
    OBVIOUS
  <1>4. \A u \in Instants : ~Before(u, t)
    <2> SUFFICES ASSUME NEW u \in Instants PROVE ~Before(u, t)
      OBVIOUS
    <2>1. first <= u.day /\ (u.day = first => minute <= u.minute)
      BY <1>1, <1>2
    <2> QED BY <1>3, <2>1, InstantNat DEF Before
  <1> QED BY <1>3, <1>4 DEF FirstInstant

\* A day is over when a later one is.
LEMMA OverBefore ==
    ASSUME NEW t \in Instants, NEW cutoff \in Nat, NEW d \in Nat, NEW e \in Nat,
           d <= e, Over(e, t, cutoff)
    PROVE  Over(d, t, cutoff)
  BY InstantNat DEF Over

\* A day that is over stays over.
LEMMA OverStays ==
    ASSUME NEW t \in Instants, NEW u \in NextInstants(t), NEW cutoff \in Nat, NEW d \in Nat,
           Over(d, t, cutoff)
    PROVE  u \in Instants /\ Over(d, u, cutoff)
  <1>1. u \in Instants /\ Before(t, u)
    BY DEF NextInstants
  <1>2. t.day \in Nat /\ u.day \in Nat /\ t.minute \in Nat /\ u.minute \in Nat
    BY <1>1, InstantNat
  <1> QED BY <1>1, <1>2 DEF Over, Before
=============================================================================
