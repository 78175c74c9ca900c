-------------------------- MODULE StreakCoreProofs --------------------------
(***************************************************************************)
(* Lemmas about the functions of StreakCore, for every configuration.      *)
(***************************************************************************)
EXTENDS StreakCore, TLAPS, FiniteSetTheorems, WellFoundedInduction

(***************************************************************************)
(* Induction.  Every nonempty set of naturals has a least element: the     *)
(* initial segments 1..n are well-founded under strict inclusion.          *)
(***************************************************************************)
LEMMA LeastNatural ==
  ASSUME NEW T, T \subseteq Nat, T # {}
  PROVE  \E x \in T : \A y \in T : ~(y < x)
<1> DEFINE TT == {1..n : n \in T}
<1>1. IsWellFoundedOn(StrictSubsetOrdering(Nat), FiniteSubsetsOf(Nat))
  BY FS_StrictSubsetOrderingWellFounded
<1>2. TT \subseteq FiniteSubsetsOf(Nat) /\ TT # {}
  <2>1. \A n \in Nat : 1..n \subseteq Nat /\ IsFiniteSet(1..n)
    BY FS_Interval
  <2> QED BY <2>1 DEF FiniteSubsetsOf
<1>3. PICK X \in TT : \A Y \in TT : ~(<<Y, X>> \in StrictSubsetOrdering(Nat))
  <2> HIDE DEF TT
  <2> QED BY <1>1, <1>2, WFMin, Zenon
<1>4. PICK x \in T : X = 1..x
  OBVIOUS
<1>5. ASSUME NEW y \in T, y < x PROVE FALSE
  <2>1. 1..y \subseteq 1..x /\ 1..y # 1..x
    BY <1>5
  <2>2. <<1..y, X>> \in StrictSubsetOrdering(Nat)
    BY <2>1, <1>4 DEF StrictSubsetOrdering
  <2> QED BY <2>2, <1>3
<1> QED BY <1>5

-----------------------------------------------------------------------------
(***************************************************************************)
(* Ranks: the misses of a settlement are charged in calendar order, so who *)
(* is charged with what depends on how many misses lie before it.          *)
(***************************************************************************)

\* How many elements of M lie before q.
Rank(M, q) == Cardinality({r \in M : r < q})

\* The first k elements of M.
First(M, k) == {q \in M : Rank(M, q) < k}

\* Ranks are naturals and follow the order of the elements.
LEMMA RankOrder ==
  ASSUME NEW M \in SUBSET Nat, IsFiniteSet(M)
  PROVE  /\ \A q \in Nat : Rank(M, q) \in Nat
         /\ \A q, x \in Nat : q <= x => Rank(M, q) <= Rank(M, x)
         /\ \A q \in M, x \in Nat : q < x => Rank(M, q) < Rank(M, x)
         /\ \A q \in M : Rank(M, q) < Cardinality(M)
<1> DEFINE below(q) == {r \in M : r < q}
<1>1. \A q : IsFiniteSet(below(q)) /\ Cardinality(below(q)) \in Nat
  <2>1. \A q : below(q) \in SUBSET M
    OBVIOUS
  <2> HIDE DEF below
  <2> QED BY <2>1, FS_Subset, FS_CardinalityType
<1>2. ASSUME NEW q \in Nat, NEW x \in Nat, q <= x
      PROVE  Cardinality(below(q)) <= Cardinality(below(x))
  <2>1. \A r \in M : r < q => r < x
    BY <1>2
  <2>2. below(q) \subseteq below(x)
    BY <2>1
  <2> HIDE DEF below
  <2> QED BY <1>1, <2>2, FS_Subset
<1>3. ASSUME NEW q \in M, NEW x \in Nat, q < x
      PROVE  Cardinality(below(q)) < Cardinality(below(x))
  <2>1. (\A r \in M : r < q => r < x) /\ ~(q < q)
    BY <1>3
  <2>2. below(q) \subseteq below(x) /\ q \in below(x) /\ q \notin below(q)
    BY <1>3, <2>1, Zenon
  <2> HIDE DEF below
  <2>3. /\ Cardinality(below(q)) <= Cardinality(below(x))
        /\ Cardinality(below(q)) # Cardinality(below(x))
    BY <1>1, <2>2, FS_Subset
  <2> QED BY <1>1, <2>3
<1>4. ASSUME NEW q \in M
      PROVE  Cardinality(below(q)) < Cardinality(M)
  <2>1. below(q) \subseteq M /\ q \notin below(q) /\ Cardinality(M) \in Nat
    BY FS_CardinalityType
  <2> HIDE DEF below
  <2>2. /\ Cardinality(below(q)) <= Cardinality(M)
        /\ Cardinality(below(q)) # Cardinality(M)
    BY <1>4, <2>1, FS_Subset
  <2> QED BY <1>1, <2>1, <2>2
<1> HIDE DEF below
<1> QED BY <1>1, <1>2, <1>3, <1>4 DEF Rank, below

\* As long as the first k are not all, there is a next one, of rank k.
LEMMA RankNext ==
  ASSUME NEW M \in SUBSET Nat, IsFiniteSet(M), NEW k \in Nat,
         Cardinality(First(M, k)) = k, k < Cardinality(M)
  PROVE  \E x \in M : /\ Rank(M, x) = k /\ x \notin First(M, k)
                      /\ First(M, k + 1) = First(M, k) \cup {x}
<1>1. /\ \A q \in M : Rank(M, q) \in Nat
      /\ \A q, x \in M : q < x => Rank(M, q) < Rank(M, x)
  BY RankOrder
<1>2. M \ First(M, k) # {}
  BY DEF First
<1>3. PICK x \in M \ First(M, k) : \A y \in M \ First(M, k) : ~(y < x)
  BY <1>2, LeastNatural, Zenon DEF First
<1>4. {r \in M : r < x} = First(M, k)
  <2>1. ASSUME NEW r \in M, r < x PROVE r \in First(M, k)
    BY <1>3, <2>1
  <2>2. ASSUME NEW r \in First(M, k) PROVE r < x
    <3>1. r \in M /\ r # x /\ Rank(M, r) < k /\ ~(Rank(M, x) < k)
      BY <1>3 DEF First
    <3>2. CASE x < r
      BY <1>1, <1>3, <3>1, <3>2
    <3> QED BY <1>3, <3>1, <3>2
  <2>3. First(M, k) \subseteq M
    BY DEF First
  <2> QED BY <2>1, <2>2, <2>3
<1>5. Rank(M, x) = k
  BY <1>4 DEF Rank
<1>6. ASSUME NEW q \in M, Rank(M, q) < k + 1, q \notin First(M, k) PROVE q = x
  <2>1. Rank(M, q) = k /\ ~(q < x)
    BY <1>1, <1>3, <1>6 DEF First
  <2> QED BY <1>1, <1>3, <1>5, <2>1
<1>7. First(M, k + 1) = First(M, k) \cup {x}
  <2>1. ASSUME NEW q \in First(M, k) PROVE q \in First(M, k + 1)
    <3>1. q \in M /\ Rank(M, q) < k
      BY DEF First
    <3>2. Rank(M, q) < k + 1
      BY <1>1, <3>1
    <3> QED BY <3>1, <3>2 DEF First
  <2>2. x \in First(M, k + 1)
    BY <1>3, <1>5 DEF First
  <2>3. First(M, k + 1) \subseteq First(M, k) \cup {x}
    BY <1>6 DEF First
  <2> QED BY <2>1, <2>2, <2>3
<1> QED BY <1>3, <1>5, <1>7

\* There are k elements of rank below k, and one of rank k if there are more.
LEMMA RankInitial ==
  ASSUME NEW M \in SUBSET Nat, IsFiniteSet(M), NEW k \in Nat, k <= Cardinality(M)
  PROVE  /\ Cardinality(First(M, k)) = k
         /\ k < Cardinality(M) => \E x \in M : Rank(M, x) = k
<1> DEFINE Bad == {j \in 0..k : Cardinality(First(M, j)) # j}
<1>0. Cardinality(M) \in Nat
  BY FS_CardinalityType
<1>1. Bad = {}
  <2> SUFFICES ASSUME Bad # {} PROVE FALSE
    OBVIOUS
  <2>1. PICK j \in Bad : \A i \in Bad : ~(i < j)
    <3>1. Bad \subseteq Nat
      OBVIOUS
    <3> HIDE DEF Bad
    <3> QED BY <3>1, LeastNatural
  <2>2. j # 0
    <3>1. \A q \in M : Rank(M, q) \in Nat
      BY RankOrder
    <3>2. ASSUME NEW q \in First(M, 0) PROVE FALSE
      <4>1. q \in M /\ Rank(M, q) < 0
        BY DEF First
      <4> QED BY <3>1, <4>1
    <3>3. First(M, 0) = {}
      BY <3>2
    <3> QED BY <2>1, <3>3, FS_EmptySet
  <2>3. j - 1 \in 0..k /\ j - 1 < j /\ j - 1 \in Nat
    BY <2>2
  <2>4. Cardinality(First(M, j - 1)) = j - 1 /\ j - 1 < Cardinality(M)
    BY <1>0, <2>1, <2>3
  <2>5. PICK x \in M : x \notin First(M, j - 1)
                       /\ First(M, (j - 1) + 1) = First(M, j - 1) \cup {x}
    BY <2>3, <2>4, RankNext
  <2>6. IsFiniteSet(First(M, j - 1))
    BY FS_Subset DEF First
  <2>7. Cardinality(First(M, j)) = j
    BY <2>3, <2>4, <2>5, <2>6, FS_AddElement
  <2> QED BY <2>1, <2>7
<1>2. Cardinality(First(M, k)) = k
  BY <1>1
<1> QED BY <1>2, RankNext

-----------------------------------------------------------------------------
(***************************************************************************)
(* The calendar.                                                           *)
(***************************************************************************)

\* The next active period is at most a week away, and none lies before it.
LEMMA NextScheduledIs ==
  ASSUME NEW p \in Nat
  PROVE  /\ NextScheduled(p) \in (p + 1)..(p + 7) /\ ScheduledOn(NextScheduled(p))
         /\ \A r \in (p + 1)..(NextScheduled(p) - 1) : ~ScheduledOn(r)
<1> DEFINE T == {q \in (p + 1)..(p + 7) : ScheduledOn(q)}
<1>1. T # {}
  <2>1. PICK d \in ActiveDays : d \in 0..6
    BY CalendarAssumption
  <2>2. \E q \in (p + 1)..(p + 7) : q % 7 = d
    <3> DEFINE q == (p + 1) + ((d - (p + 1)) % 7)
    <3>1. q \in (p + 1)..(p + 7) /\ q % 7 = d
      BY <2>1
    <3> QED BY <3>1
  <2> QED BY <2>1, <2>2 DEF ScheduledOn
<1>2. T \subseteq Nat
  OBVIOUS
<1>3. PICK q \in T : \A r \in T : ~(r < q)
  <2> HIDE DEF T
  <2> QED BY <1>1, <1>2, LeastNatural
<1>4. \A r \in (p + 1)..(q - 1) : ~ScheduledOn(r)
  BY <1>3
<1>5. \E x \in (p + 1)..(p + 7) : ScheduledOn(x) /\ \A r \in (p + 1)..(x - 1) : ~ScheduledOn(r)
  BY <1>3, <1>4
<1> QED BY <1>5 DEF NextScheduled

-----------------------------------------------------------------------------
(***************************************************************************)
(* Settle                                                                  *)
(***************************************************************************)

\* The missed and the charged periods of a settlement are finite sets.
LEMMA ChargedFinite ==
  ASSUME NEW s \in State, NEW cur \in Period
  PROVE  /\ IsFiniteSet(Missed(s, cur)) /\ IsFiniteSet(Charged(s, cur))
         /\ Cardinality(Missed(s, cur)) \in Nat /\ Cardinality(Charged(s, cur)) \in Nat
         /\ Missed(s, cur) \subseteq Period /\ Charged(s, cur) \subseteq Period
<1> DEFINE from == Later(s.lastEarned, s.settledThrough)
<1>1. from \in Nat /\ cur \in Nat /\ cur <= LastPeriod /\ LastPeriod \in Nat
  BY CalendarAssumption DEF State, Later, Date, Period, NoDate
<1>2. IsFiniteSet((from + 1)..(cur - 1))
  BY <1>1, FS_Interval
<1>3. Missed(s, cur) \in SUBSET ((from + 1)..(cur - 1))
  BY DEF Missed
<1>4. Missed(s, cur) \subseteq Period
  BY <1>1, <1>3 DEF Period
<1>5. IsFiniteSet(Missed(s, cur))
  BY <1>2, <1>3, FS_Subset
<1>6. Charged(s, cur) = {} \/ Charged(s, cur) = Missed(s, cur)
  BY DEF Charged
<1> QED BY <1>4, <1>5, <1>6, FS_CardinalityType, FS_EmptySet

\* A settlement never spends more freezes than there are (transition.go:48).
LEMMA SpentType ==
  ASSUME NEW s \in State, NEW cur \in Period
  PROVE  Spent(s, cur) \in Nat /\ Spent(s, cur) <= s.freezes
BY ChargedFinite, ConfigAssumption DEF Spent, State

\* Settle takes a state to a state: in particular the inventory stays natural.
LEMMA SettleType ==
  ASSUME NEW s \in State, NEW cur \in Period
  PROVE  Settle(s, cur) \in State
<1>1. PrevPeriod(cur) \in Date
  BY CalendarAssumption DEF Period, Date, NoDate, PrevPeriod
<1>2. s.freezes - Spent(s, cur) \in Nat
  BY SpentType DEF State
<1>3. Later(s.settledThrough, PrevPeriod(cur)) \in Date
  BY <1>1 DEF State, Later
<1> QED BY <1>1, <1>2, <1>3 DEF Settle, State

\* The events of a settlement are events of periods of the calendar.
LEMMA SettleEventsType ==
  ASSUME NEW s \in State, NEW cur \in Period
  PROVE  SettleEvents(s, cur) \subseteq Event
<1>2. Charged(s, cur) \subseteq Period
  BY ChargedFinite
<1>3. \A q \in Period : /\ Ev("freeze_consumed", q, s.currentCount) \in Event
                        /\ Ev("broken", q, s.currentCount) \in Event
  BY DEF State, Event, Ev, EventType
<1>4. \A e \in SettleEvents(s, cur) :
        \E q \in Charged(s, cur) : \/ e = Ev("freeze_consumed", q, s.currentCount)
                                   \/ e = Ev("broken", q, s.currentCount)
  BY Zenon DEF SettleEvents
<1> QED BY <1>2, <1>3, <1>4

\* An event of a settlement is a charge for a charged period: a freeze for the
\* first Spent of them, the break for the next one.
LEMMA SettleEventsAre ==
  ASSUME NEW s, NEW cur, NEW e
  PROVE  e \in SettleEvents(s, cur) <=>
           \E q \in Charged(s, cur) :
             \/ /\ Rank(Charged(s, cur), q) < Spent(s, cur)
                /\ e = Ev("freeze_consumed", q, s.currentCount)
             \/ /\ Rank(Charged(s, cur), q) = Spent(s, cur)
                /\ e = Ev("broken", q, s.currentCount)
BY Zenon DEF SettleEvents, Rank

\* What a settlement tells: as many freezes as it spends, a break exactly when
\* it breaks the chain, and with every charge the count that is at stake.
LEMMA SettleTold ==
  ASSUME NEW s \in State, NEW cur \in Period
  PROVE  LET evs == SettleEvents(s, cur)
         IN  /\ Cardinality({e \in evs : e.type = "freeze_consumed"}) = Spent(s, cur)
             /\ Breaks(s, cur) <=> \E e \in evs : e.type = "broken"
             /\ \A e \in evs : /\ e.type \in {"freeze_consumed", "broken"}
                               /\ e.count = s.currentCount
                               /\ e.period \in Charged(s, cur)
<1> DEFINE M == Charged(s, cur)
           k == Spent(s, cur)
           consumed == {e \in SettleEvents(s, cur) : e.type = "freeze_consumed"}
           charge == [q \in First(M, k) |-> Ev("freeze_consumed", q, s.currentCount)]
<1>1. M \in SUBSET Nat /\ IsFiniteSet(M) /\ Cardinality(M) \in Nat
  BY ChargedFinite, CalendarAssumption DEF Period
<1>2. k \in Nat /\ k <= Cardinality(M) /\ (Breaks(s, cur) <=> k < Cardinality(M))
  BY <1>1, ConfigAssumption DEF Spent, Breaks, State
<1>3. /\ \A e \in SettleEvents(s, cur) : \E q \in M :
           \/ Rank(M, q) < k /\ e = Ev("freeze_consumed", q, s.currentCount)
           \/ Rank(M, q) = k /\ e = Ev("broken", q, s.currentCount)
      /\ \A q \in M : Rank(M, q) < k =>
           Ev("freeze_consumed", q, s.currentCount) \in SettleEvents(s, cur)
      /\ \A q \in M : Rank(M, q) = k =>
           Ev("broken", q, s.currentCount) \in SettleEvents(s, cur)
  <2>1. \A e : e \in SettleEvents(s, cur) <=>
           \E q \in M :
             \/ Rank(M, q) < k /\ e = Ev("freeze_consumed", q, s.currentCount)
             \/ Rank(M, q) = k /\ e = Ev("broken", q, s.currentCount)
    BY SettleEventsAre
  <2> HIDE DEF M, k
  <2> QED BY <2>1, Zenon
<1>4. /\ Cardinality(First(M, k)) = k
      /\ k < Cardinality(M) => \E q \in M : Rank(M, q) = k
      /\ \A q \in M : Rank(M, q) < Cardinality(M)
      /\ IsFiniteSet(First(M, k))
  <2> HIDE DEF M, k
  <2> QED BY <1>1, <1>2, RankInitial, RankOrder, FS_Subset DEF First
<1> HIDE DEF M, k
<1>5. Cardinality(consumed) = k
  <2>1. \A e \in consumed : \E q \in First(M, k) : e = charge[q]
    BY <1>3 DEF First, Ev
  <2>2. \A q \in First(M, k) : charge[q] \in consumed
    BY <1>3 DEF First, Ev
  <2>3. \A q, x \in First(M, k) : charge[q] = charge[x] => q = x
    BY DEF Ev
  <2>4. charge \in Surjection(First(M, k), consumed) /\ charge \in Injection(First(M, k), consumed)
    <3>1. charge \in [First(M, k) -> consumed]
      BY <2>2
    <3> HIDE DEF charge, consumed
    <3> QED BY <3>1, <2>1, <2>3, Zenon DEF Surjection, Injection, IsInjective
  <2> HIDE DEF charge, consumed
  <2>5. Cardinality(consumed) = Cardinality(First(M, k))
    BY <1>4, <2>4, FS_Surjection
  <2> QED BY <1>4, <2>5
<1>6. Breaks(s, cur) <=> \E e \in SettleEvents(s, cur) : e.type = "broken"
  <2>1. ASSUME Breaks(s, cur) PROVE \E e \in SettleEvents(s, cur) : e.type = "broken"
    <3>1. PICK q \in M : Rank(M, q) = k
      BY <1>2, <1>4, <2>1
    <3> QED BY <1>3, <3>1 DEF Ev
  <2>2. ASSUME NEW e \in SettleEvents(s, cur), e.type = "broken" PROVE Breaks(s, cur)
    <3>1. PICK q \in M : Rank(M, q) = k
      BY <1>3, <2>2 DEF Ev
    <3> QED BY <1>2, <1>4, <3>1
  <2> QED BY <2>1, <2>2
<1>7. \A e \in SettleEvents(s, cur) : /\ e.type \in {"freeze_consumed", "broken"}
                                      /\ e.count = s.currentCount
                                      /\ e.period \in M
  BY <1>3 DEF Ev
<1> QED BY <1>5, <1>6, <1>7 DEF M, k

\* A settlement has finitely many events.
LEMMA SettleEventsFinite ==
  ASSUME NEW s \in State, NEW cur \in Period
  PROVE  IsFiniteSet(SettleEvents(s, cur))
<1> DEFINE types == {"freeze_consumed", "broken"}
           pairs == types \X Charged(s, cur)
           image == {Ev(x[1], x[2], s.currentCount) : x \in pairs}
           f == [x \in pairs |-> Ev(x[1], x[2], s.currentCount)]
<1>1. IsFiniteSet(types)
  <2>1. types = {"freeze_consumed"} \cup {"broken"}
    OBVIOUS
  <2>2. IsFiniteSet({"freeze_consumed"}) /\ IsFiniteSet({"broken"})
    BY FS_Singleton
  <2> HIDE DEF types
  <2> QED BY <2>1, <2>2, FS_Union
<1>2. IsFiniteSet(pairs)
  BY <1>1, ChargedFinite, FS_Product
<1>3. f \in Surjection(pairs, image)
  BY DEF Surjection
<1>4. IsFiniteSet(image)
  <2> HIDE DEF pairs, image, f
  <2> QED BY <1>2, <1>3, FS_Surjection
<1>5. SettleEvents(s, cur) \subseteq image
  <2> SUFFICES ASSUME NEW e \in SettleEvents(s, cur) PROVE e \in image
    OBVIOUS
  <2>1. PICK q \in Charged(s, cur) : \/ e = Ev("freeze_consumed", q, s.currentCount)
                                     \/ e = Ev("broken", q, s.currentCount)
    BY Zenon DEF SettleEvents
  <2>2. <<"freeze_consumed", q>> \in pairs /\ <<"broken", q>> \in pairs
    OBVIOUS
  <2> QED BY <2>1, <2>2
<1> QED BY <1>4, <1>5, FS_Subset

\* A settlement tells of one break at most.
LEMMA OneBreak ==
  ASSUME NEW s \in State, NEW cur \in Period,
         NEW e \in SettleEvents(s, cur), NEW f \in SettleEvents(s, cur),
         e.type = "broken", f.type = "broken"
  PROVE  e = f
<1> DEFINE M == Charged(s, cur)
           k == Spent(s, cur)
<1>1. M \in SUBSET Nat /\ IsFiniteSet(M)
  BY ChargedFinite, CalendarAssumption DEF Period
<1>2. \A q, x \in M : Rank(M, q) = Rank(M, x) => q = x
  <2>1. /\ \A q \in Nat : Rank(M, q) \in Nat
        /\ \A q \in M, x \in Nat : q < x => Rank(M, q) < Rank(M, x)
    BY <1>1, RankOrder
  <2> HIDE DEF M
  <2> QED BY <1>1, <2>1
<1>3. /\ \E q \in M : Rank(M, q) = k /\ e = Ev("broken", q, s.currentCount)
      /\ \E q \in M : Rank(M, q) = k /\ f = Ev("broken", q, s.currentCount)
  BY SettleEventsAre DEF Ev
<1> HIDE DEF M
<1> QED BY <1>2, <1>3, Zenon

\* A settlement tells as much as it does: one event for every freeze, and one
\* for the break.
LEMMA SettleEventsCount ==
  ASSUME NEW s \in State, NEW cur \in Period
  PROVE  /\ IsFiniteSet(SettleEvents(s, cur))
         /\ Cardinality(SettleEvents(s, cur)) =
              Spent(s, cur) + (IF Breaks(s, cur) THEN 1 ELSE 0)
<1> DEFINE M == Charged(s, cur)
           k == Spent(s, cur)
           evs == SettleEvents(s, cur)
           consumed == {e \in evs : e.type = "freeze_consumed"}
           broken == {e \in evs : e.type = "broken"}
<1>1. M \in SUBSET Nat /\ IsFiniteSet(M) /\ k \in Nat
  BY ChargedFinite, SpentType, CalendarAssumption DEF Period
<1>2. /\ Cardinality(consumed) = k
      /\ Breaks(s, cur) <=> broken # {}
      /\ evs = consumed \cup broken
  BY SettleTold
<1>3. \A e, f \in broken : e = f
  BY OneBreak
<1>4. IsFiniteSet(consumed)
  <2>1. IsFiniteSet(evs) /\ consumed \subseteq evs
    BY SettleEventsFinite
  <2> HIDE DEF evs, consumed
  <2> QED BY <2>1, FS_Subset
<1>5. broken \cap consumed = {}
  OBVIOUS
<1> HIDE DEF consumed, broken, evs
<1>6. CASE broken = {}
  BY <1>1, <1>2, <1>4, <1>6 DEF evs
<1>7. CASE broken # {}
  <2>1. PICK e \in broken : TRUE
    BY <1>7
  <2>2. e \notin consumed /\ evs = consumed \cup {e}
    BY <1>2, <1>3, <1>5, <2>1
  <2>3. IsFiniteSet(evs) /\ Cardinality(evs) = k + 1
    BY <1>2, <1>4, <2>2, FS_AddElement
  <2> QED BY <1>2, <1>7, <2>3 DEF evs
<1> QED BY <1>6, <1>7

-----------------------------------------------------------------------------
(***************************************************************************)
(* Apply                                                                   *)
(***************************************************************************)

\* Apply takes a state to a state.
LEMMA ApplyType ==
  ASSUME NEW s \in State, NEW p \in Period
  PROVE  Apply(s, p) \in State
<1>1. EarnEvery \in Nat
  BY ConfigAssumption
<1>2. s.currentCount + 1 \in Nat /\ s.freezes + 1 \in Nat /\ s.freezeProgress + 1 \in Nat
  BY DEF State
<1>3. Later(s.longest, s.currentCount + 1) \in Nat
  BY DEF State, Later
<1>4. CASE ~Earns(s, p)
  BY <1>4 DEF Apply
<1>5. CASE Earns(s, p)
  <2> DEFINE progress == IF EarnEvery = 0 THEN s.freezeProgress
                         ELSE IF FreezeGranted(s) THEN 0
                         ELSE IF FreezeDue(s) THEN EarnEvery
                         ELSE s.freezeProgress + 1
             stock    == IF FreezeGranted(s) THEN s.freezes + 1 ELSE s.freezes
  <2>1. progress \in Nat /\ stock \in Nat
    BY <1>1, <1>2 DEF State
  <2>2. Apply(s, p) = [s EXCEPT !.currentCount = s.currentCount + 1,
                                !.longest = Later(s.longest, s.currentCount + 1),
                                !.lastEarned = p,
                                !.freezes = stock,
                                !.freezeProgress = progress]
    BY <1>5, Zenon DEF Apply
  <2> HIDE DEF progress, stock
  <2> QED BY <1>2, <1>3, <2>1, <2>2 DEF State, Date
<1> QED BY <1>4, <1>5

\* What an earn changes, and what it leaves alone.
LEMMA ApplyFields ==
  ASSUME NEW s \in State, NEW p \in Period
  PROVE  LET t == Apply(s, p)
         IN  /\ Earns(s, p) => /\ t.currentCount = s.currentCount + 1
                               /\ t.longest = Later(s.longest, s.currentCount + 1)
                               /\ t.lastEarned = p
                               /\ t.settledThrough = s.settledThrough
                               /\ t.freezes \in {s.freezes, s.freezes + 1}
             /\ ~Earns(s, p) => t = s
<1>1. CASE ~Earns(s, p)
  BY <1>1 DEF Apply
<1>2. CASE Earns(s, p)
  <2> DEFINE stock == IF FreezeGranted(s) THEN s.freezes + 1 ELSE s.freezes
             progress == IF EarnEvery = 0 THEN s.freezeProgress
                         ELSE IF FreezeGranted(s) THEN 0
                         ELSE IF FreezeDue(s) THEN EarnEvery
                         ELSE s.freezeProgress + 1
  <2>1. Apply(s, p) = [s EXCEPT !.currentCount = s.currentCount + 1,
                                !.longest = Later(s.longest, s.currentCount + 1),
                                !.lastEarned = p,
                                !.freezes = stock,
                                !.freezeProgress = progress]
    BY <1>2, Zenon DEF Apply
  <2>2. stock \in {s.freezes, s.freezes + 1}
    OBVIOUS
  <2> HIDE DEF stock, progress
  <2> QED BY <1>2, <2>1, <2>2 DEF State
<1> QED BY <1>1, <1>2

\* The events of an earned period are events of a period of the calendar.
LEMMA ApplyEventsType ==
  ASSUME NEW s \in State, NEW p \in Period
  PROVE  ApplyEvents(s, p) \subseteq Event
<1>1. s.currentCount + 1 \in Nat
  BY DEF State
<1> QED BY <1>1 DEF ApplyEvents, Event, Ev, EventType

-----------------------------------------------------------------------------
(***************************************************************************)
(* Replay: the ledger is replayed from the first period to the last by a   *)
(* recursively defined function; it exists, and every prefix is a state.   *)
(***************************************************************************)

\* One period of the ledger takes a state to a state.
LEMMA ReplayStepType ==
  ASSUME NEW s \in State, NEW earned, NEW p \in Period
  PROVE  ReplayStep(s, earned, p) \in State
BY SettleType, ApplyType DEF ReplayStep

\* A run of the replay over the periods 1..n.
IsRun(r, earned, n) ==
  /\ r \in [0..n -> State]
  /\ r[0] = NewState
  /\ \A i \in 1..n : r[i] = ReplayStep(r[i - 1], earned, i)

\* A fresh streak has a state.
LEMMA NewStateType == NewState \in State
BY ConfigAssumption DEF NewState, State, Date

\* The recursive function of Replay exists: there is a run over every ledger.
LEMMA RunExists ==
  ASSUME NEW earned
  PROVE  \E r : IsRun(r, earned, LastPeriod)
<1> DEFINE Without == {n \in 0..LastPeriod : ~\E r : IsRun(r, earned, n)}
<1>0. LastPeriod \in Nat
  BY CalendarAssumption
<1> SUFFICES ASSUME Without # {} PROVE FALSE
  BY <1>0
<1>1. PICK n \in Without : \A m \in Without : ~(m < n)
  <2>1. Without \subseteq Nat
    BY <1>0
  <2> HIDE DEF Without
  <2> QED BY <2>1, LeastNatural
<1>2. CASE n = 0
  <2> DEFINE r == [i \in 0..0 |-> NewState]
  <2>1. IsRun(r, earned, 0)
    BY NewStateType DEF IsRun
  <2> QED BY <2>1, <1>2
<1>3. CASE n > 0
  <2>1. n - 1 \in 0..LastPeriod /\ n - 1 < n /\ n \in Period
    BY <1>0, <1>3 DEF Period
  <2>2. PICK q : IsRun(q, earned, n - 1)
    BY <1>1, <2>1
  <2> DEFINE last == ReplayStep(q[n - 1], earned, n)
             r == [i \in 0..n |-> IF i = n THEN last ELSE q[i]]
  <2>3. last \in State
    BY <2>1, <2>2, ReplayStepType DEF IsRun
  <2>4. r \in [0..n -> State] /\ r[0] = NewState
    <3> HIDE DEF last
    <3> QED BY <2>2, <2>3, <1>3 DEF IsRun
  <2>5. ASSUME NEW i \in 1..n PROVE r[i] = ReplayStep(r[i - 1], earned, i)
    <3>1. r[i - 1] = q[i - 1] /\ i - 1 \in 0..(n - 1)
      BY <2>1
    <3>2. CASE i = n
      BY <3>1, <3>2
    <3>3. CASE i # n
      <4>1. i \in 1..(n - 1) /\ r[i] = q[i]
        BY <3>3
      <4> QED BY <4>1, <3>1, <2>2 DEF IsRun
    <3> QED BY <3>2, <3>3
  <2>6. IsRun(r, earned, n)
    BY <2>4, <2>5 DEF IsRun
  <2> QED BY <2>6
<1> QED BY <1>0, <1>2, <1>3

\* ReplayUpTo satisfies its own recursive equation.
LEMMA ReplayRuns ==
  ASSUME NEW earned
  PROVE  IsRun(ReplayUpTo(earned), earned, LastPeriod)
<1>0. LastPeriod \in Nat
  BY CalendarAssumption
<1> DEFINE body(r) == [i \in 0..LastPeriod |->
                         IF i = 0 THEN NewState ELSE ReplayStep(r[i - 1], earned, i)]
<1>1. PICK r : IsRun(r, earned, LastPeriod)
  BY RunExists
<1>2. r = body(r)
  BY <1>0, <1>1 DEF IsRun
<1>3. ReplayUpTo(earned) = CHOOSE f : f = body(f)
  BY DEF ReplayUpTo
<1>4. ReplayUpTo(earned) = body(ReplayUpTo(earned))
  <2> HIDE DEF body
  <2> QED BY <1>2, <1>3
<1> DEFINE R == ReplayUpTo(earned)
<1>5. /\ R[0] = NewState
      /\ \A i \in 1..LastPeriod : R[i] = ReplayStep(R[i - 1], earned, i)
      /\ R = [i \in 0..LastPeriod |-> R[i]]
  <2>1. R = body(R)
    BY <1>4
  <2> HIDE DEF R
  <2> QED BY <2>1, <1>0
<1>6. \A i \in 0..LastPeriod : R[i] \in State
  <2> DEFINE Untyped == {i \in 0..LastPeriod : R[i] \notin State}
  <2> SUFFICES ASSUME Untyped # {} PROVE FALSE
    OBVIOUS
  <2>1. PICK i \in Untyped : \A j \in Untyped : ~(j < i)
    <3>1. Untyped \subseteq Nat
      BY <1>0
    <3> HIDE DEF Untyped
    <3> QED BY <3>1, LeastNatural
  <2>2. i # 0
    BY <1>5, NewStateType
  <2>3. i \in Period /\ i - 1 \in 0..LastPeriod /\ i - 1 < i
    BY <2>2, <1>0 DEF Period
  <2>4. R[i - 1] \in State
    BY <2>1, <2>3
  <2>5. R[i] = ReplayStep(R[i - 1], earned, i)
    BY <1>5, <2>3 DEF Period
  <2> QED BY <2>3, <2>4, <2>5, ReplayStepType
<1> QED
  <2> HIDE DEF R
  <2>1. R \in [0..LastPeriod -> State]
    BY <1>5, <1>6
  <2> QED BY <2>1, <1>5 DEF R, IsRun

\* Induction over the ledger: what a fresh streak has, and every period keeps,
\* every prefix of the replay has.
LEMMA ReplayInduction ==
  ASSUME NEW earned, NEW Good, NewState \in Good,
         \A s \in State, p \in Period : s \in Good => ReplayStep(s, earned, p) \in Good
  PROVE  \A i \in 0..LastPeriod : ReplayUpTo(earned)[i] \in Good
<1> DEFINE R   == ReplayUpTo(earned)
           Bad == {i \in 0..LastPeriod : R[i] \notin Good}
<1>1. IsRun(R, earned, LastPeriod) /\ LastPeriod \in Nat
  BY ReplayRuns, CalendarAssumption
<1> HIDE DEF R
<1> SUFFICES ASSUME Bad # {} PROVE FALSE
  BY DEF R
<1>2. PICK i \in Bad : \A j \in Bad : ~(j < i)
  <2>1. Bad \subseteq Nat
    BY <1>1
  <2> HIDE DEF Bad
  <2> QED BY <2>1, LeastNatural
<1>3. i # 0
  BY <1>1 DEF IsRun
<1>4. i \in Period /\ i - 1 \in 0..LastPeriod /\ i - 1 < i
  BY <1>1, <1>3 DEF Period
<1>5. R[i - 1] \in State /\ R[i - 1] \in Good
  BY <1>1, <1>2, <1>4 DEF IsRun
<1>6. R[i] = ReplayStep(R[i - 1], earned, i)
  BY <1>1, <1>4 DEF IsRun, Period
<1> QED BY <1>4, <1>5, <1>6

\* The replay of any ledger is a state (replay.go:9-19).
LEMMA ReplayType ==
  ASSUME NEW earned, NEW cur \in Period
  PROVE  Replay(earned, cur) \in State
<1>1. ReplayUpTo(earned)[LastPeriod] \in State
  BY ReplayRuns, CalendarAssumption DEF IsRun
<1> QED BY <1>1, SettleType DEF Replay

-----------------------------------------------------------------------------
(***************************************************************************)
(* Settling late is settling often.                                        *)
(***************************************************************************)

\* The fields of a settled state that a settlement never touches or only moves on.
LEMMA SettlePointer ==
  ASSUME NEW s \in State, NEW cur \in Period
  PROVE  /\ Settle(s, cur).lastEarned = s.lastEarned
         /\ Settle(s, cur).longest = s.longest
         /\ s.lastEarned # NoDate =>
              Settle(s, cur).settledThrough = Later(s.settledThrough, cur - 1)
         /\ s.lastEarned = NoDate => Settle(s, cur).settledThrough = cur - 1
BY DEF Settle, State, PrevPeriod

\* What a settlement at cur leaves for one at c is what lies from cur on.
LEMMA MissedParts ==
  ASSUME NEW s \in State, NEW cur \in Period, NEW c \in Period, cur <= c,
         s.lastEarned # NoDate
  PROVE  /\ Missed(s, cur) = {q \in Missed(s, c) : q < cur}
         /\ Missed(Settle(s, cur), c) = {q \in Missed(s, c) : cur <= q}
<1> DEFINE t    == Settle(s, cur)
           from == Later(s.lastEarned, s.settledThrough)
<1>1. t \in State /\ t.lastEarned = s.lastEarned
      /\ t.settledThrough = Later(s.settledThrough, cur - 1)
  BY SettleType, SettlePointer
<1>2. from \in Nat /\ cur \in Nat /\ c \in Nat /\ s.lastEarned \in Nat
      /\ s.settledThrough \in Nat
  BY CalendarAssumption DEF State, Later, Date, Period, NoDate
<1>3. Later(t.lastEarned, t.settledThrough) = Later(from, cur - 1)
  BY <1>1, <1>2 DEF Later
<1>4. /\ Missed(s, c) = {q \in (from + 1)..(c - 1) : ScheduledOn(q)}
      /\ Missed(s, cur) = {q \in (from + 1)..(cur - 1) : ScheduledOn(q)}
      /\ Missed(t, c) = {q \in (Later(from, cur - 1) + 1)..(c - 1) : ScheduledOn(q)}
  BY <1>3 DEF Missed
<1> HIDE DEF from, t
<1>5. /\ \A q : q \in (from + 1)..(cur - 1) <=> q \in (from + 1)..(c - 1) /\ q < cur
      /\ \A q : q \in (Later(from, cur - 1) + 1)..(c - 1)
                  <=> q \in (from + 1)..(c - 1) /\ cur <= q
  BY <1>2 DEF Later
<1> QED BY <1>4, <1>5 DEF t

\* The misses of a settlement at c are those of one at cur and those it leaves.
LEMMA MissedSplits ==
  ASSUME NEW s \in State, NEW cur \in Period, NEW c \in Period, cur <= c,
         s.lastEarned # NoDate
  PROVE  Cardinality(Missed(s, c)) =
           Cardinality(Missed(s, cur)) + Cardinality(Missed(Settle(s, cur), c))
<1> DEFINE m1 == Missed(s, cur)
           m2 == Missed(Settle(s, cur), c)
<1>1. /\ IsFiniteSet(m1) /\ IsFiniteSet(m2)
      /\ Cardinality(m1) \in Nat /\ Cardinality(m2) \in Nat
  BY SettleType, ChargedFinite
<1>2. Missed(s, c) = m1 \cup m2 /\ m1 \cap m2 = {}
  <2>1. \A q \in Missed(s, c) : (q < cur \/ cur <= q) /\ ~(q < cur /\ cur <= q)
    BY ChargedFinite, CalendarAssumption DEF Period
  <2> QED BY <2>1, MissedParts
<1> HIDE DEF m1, m2
<1>3. Cardinality(m1 \cup m2) =
        Cardinality(m1) + Cardinality(m2) - Cardinality(m1 \cap m2)
  BY <1>1, FS_Union
<1>4. Cardinality(m1 \cap m2) = 0
  BY <1>2, FS_EmptySet
<1> QED BY <1>1, <1>2, <1>3, <1>4 DEF m1, m2

\* The fields of a settled state, from the number of misses.
LEMMA SettleFields ==
  ASSUME NEW s \in State, NEW cur \in Period, NEW n, n = Cardinality(Missed(s, cur)),
         s.lastEarned # NoDate \/ s.currentCount = 0
  PROVE  LET t == Settle(s, cur)
             breaks == s.currentCount > 0 /\ n > (IF AutoConsume THEN s.freezes ELSE 0)
         IN  /\ t.currentCount = IF breaks THEN 0 ELSE s.currentCount
             /\ t.freezeProgress = IF breaks THEN 0 ELSE s.freezeProgress
             /\ t.freezes = IF s.currentCount = 0 \/ ~AutoConsume THEN s.freezes
                            ELSE IF breaks THEN 0 ELSE s.freezes - n
             /\ t.longest = s.longest
             /\ t.lastEarned = s.lastEarned
<1>1. n \in Nat /\ s.freezes \in Nat /\ s.currentCount \in Nat
  BY ChargedFinite DEF State
<1>2. CASE s.currentCount = 0
  <2>1. Cardinality(Charged(s, cur)) = 0
    BY <1>2, FS_EmptySet DEF Charged
  <2>2. Spent(s, cur) = 0 /\ ~Breaks(s, cur)
    BY <1>1, <2>1 DEF Spent, Breaks
  <2> QED BY <1>1, <1>2, <2>2 DEF Settle, State
<1>3. CASE s.currentCount > 0
  <2>1. Cardinality(Charged(s, cur)) = n
    BY <1>1, <1>3 DEF Charged
  <2>2. Breaks(s, cur) <=> n > (IF AutoConsume THEN s.freezes ELSE 0)
    BY <1>1, <2>1 DEF Spent, Breaks
  <2>3. Spent(s, cur) = IF ~AutoConsume THEN 0 ELSE IF n < s.freezes THEN n ELSE s.freezes
    BY <2>1 DEF Spent
  <2> QED BY <1>1, <1>3, <2>2, <2>3 DEF Settle, State
<1> QED BY <1>1, <1>2, <1>3

\* The fields of a view, from the number of misses.
LEMMA DeriveFields ==
  ASSUME NEW s \in State, NEW cur \in Period, NEW n, n = Cardinality(Missed(s, cur))
  PROVE  LET d       == Derive(s, cur)
             started == s.lastEarned # NoDate /\ s.currentCount > 0
             covered == n = 0 \/ (AutoConsume /\ n <= s.freezes)
             after   == IF ~started \/ ~AutoConsume THEN s.freezes
                        ELSE IF covered THEN s.freezes - n ELSE 0
         IN  /\ d.count = IF started /\ covered THEN s.currentCount ELSE 0
             /\ d.longest = s.longest
             /\ d.liveness = IF ~(started /\ covered) THEN "broken"
                             ELSE IF n = 0 THEN "alive" ELSE "frozen"
             /\ d.earnedThisPeriod = (s.lastEarned = cur)
             /\ d.freezesAfterSpend = after
             /\ d.freezeProgress = IF started /\ ~covered THEN 0 ELSE s.freezeProgress
             /\ d.lossPeriod = IF started /\ covered
                               THEN LossPeriod(s, cur, IF AutoConsume THEN after ELSE 0)
                               ELSE NoDate
<1>1. n \in Nat /\ s.freezes \in Nat /\ s.currentCount \in Nat
  BY ChargedFinite DEF State
<1>2. s.freezes - 0 = s.freezes /\ s.freezes - s.freezes = 0
  BY <1>1
<1> QED BY <1>1, <1>2 DEF Derive

\* Derive agrees with Settle (state.go:48-49), for every state in which a
\* chain was earned.
LEMMA DeriveAgreesWithSettle ==
  ASSUME NEW s \in State, NEW cur \in Period,
         s.lastEarned # NoDate \/ s.currentCount = 0
  PROVE  LET d == Derive(s, cur)
             t == Settle(s, cur)
         IN  /\ d.count = t.currentCount
             /\ d.longest = t.longest
             /\ d.freezesAfterSpend = t.freezes
             /\ d.freezeProgress = t.freezeProgress
<1> DEFINE n == Cardinality(Missed(s, cur))
<1>1. n \in Nat /\ s.freezes \in Nat /\ s.currentCount \in Nat
  BY ChargedFinite DEF State
<1> HIDE DEF n
<1> QED BY <1>1, SettleFields, DeriveFields DEF n

\* Two states with the same fields are the same.
LEMMA SameState ==
  ASSUME NEW s \in State, NEW t \in State,
         s.currentCount = t.currentCount, s.longest = t.longest,
         s.lastEarned = t.lastEarned, s.settledThrough = t.settledThrough,
         s.freezes = t.freezes, s.freezeProgress = t.freezeProgress
  PROVE  s = t
BY DEF State

\* While nothing was ever earned, or no chain runs, a settlement only moves the
\* settle pointer.
LEMMA SettleIdle ==
  ASSUME NEW s \in State, NEW cur \in Period,
         s.lastEarned = NoDate \/ s.currentCount = 0
  PROVE  LET t == Settle(s, cur)
         IN  /\ Charged(s, cur) = {} /\ Spent(s, cur) = 0 /\ ~Breaks(s, cur)
             /\ SettleEvents(s, cur) = {}
             /\ t.currentCount = s.currentCount /\ t.longest = s.longest
             /\ t.lastEarned = s.lastEarned /\ t.freezes = s.freezes
             /\ t.freezeProgress = s.freezeProgress
<1>1. Charged(s, cur) = {} /\ Cardinality(Charged(s, cur)) = 0
  BY FS_EmptySet DEF Charged
<1>2. s.freezes \in Nat
  BY DEF State
<1>3. Spent(s, cur) = 0 /\ ~Breaks(s, cur)
  BY <1>1, <1>2 DEF Spent, Breaks
<1>4. SettleEvents(s, cur) = {}
  BY <1>1, SettleEventsAre
<1> QED BY <1>1, <1>2, <1>3, <1>4 DEF Settle, State

\* Settling late is settling often (transition.go:28-31, DESIGN.md:412): a
\* settlement does not change what a later one arrives at, and at the same
\* instant a second one changes nothing.
LEMMA SettleComposes ==
  ASSUME NEW s \in State, NEW cur \in Period, NEW c \in Period, cur <= c
  PROVE  Settle(Settle(s, cur), c) = Settle(s, c)
<1> DEFINE t == Settle(s, cur)
           u == Settle(t, c)
           v == Settle(s, c)
<1>1. t \in State /\ u \in State /\ v \in State
  BY SettleType
<1>2. cur \in Nat /\ c \in Nat /\ s.settledThrough \in Nat /\ s.freezes \in Nat
      /\ s.currentCount \in Nat
  BY CalendarAssumption DEF State, Date, Period, NoDate
<1>3. u.lastEarned = v.lastEarned /\ u.longest = v.longest
      /\ u.settledThrough = v.settledThrough
  <2>1. /\ t.lastEarned = s.lastEarned /\ t.longest = s.longest
        /\ u.lastEarned = t.lastEarned /\ u.longest = t.longest
        /\ v.lastEarned = s.lastEarned /\ v.longest = s.longest
    BY <1>1, SettlePointer
  <2>2. CASE s.lastEarned = NoDate
    <3>1. u.settledThrough = c - 1 /\ v.settledThrough = c - 1
      BY <1>1, <2>1, <2>2, SettlePointer
    <3> QED BY <2>1, <3>1
  <2>3. CASE s.lastEarned # NoDate
    <3>1. /\ t.settledThrough = Later(s.settledThrough, cur - 1)
          /\ u.settledThrough = Later(t.settledThrough, c - 1)
          /\ v.settledThrough = Later(s.settledThrough, c - 1)
      BY <1>1, <2>1, <2>3, SettlePointer
    <3>2. Later(Later(s.settledThrough, cur - 1), c - 1) = Later(s.settledThrough, c - 1)
      BY <1>2 DEF Later
    <3> QED BY <2>1, <3>1, <3>2
  <2> QED BY <2>2, <2>3
<1>4. u.currentCount = v.currentCount /\ u.freezes = v.freezes
      /\ u.freezeProgress = v.freezeProgress
  <2>1. CASE s.lastEarned = NoDate \/ s.currentCount = 0
    <3>1. /\ t.currentCount = s.currentCount /\ t.lastEarned = s.lastEarned
          /\ t.freezes = s.freezes /\ t.freezeProgress = s.freezeProgress
      BY <2>1, SettleIdle
    <3>2. /\ v.currentCount = s.currentCount /\ v.freezes = s.freezes
          /\ v.freezeProgress = s.freezeProgress
      BY <2>1, SettleIdle
    <3>3. /\ u.currentCount = t.currentCount /\ u.freezes = t.freezes
          /\ u.freezeProgress = t.freezeProgress
      <4> HIDE DEF t
      <4> QED BY <1>1, <2>1, <3>1, SettleIdle
    <3> QED BY <3>1, <3>2, <3>3
  <2>2. CASE s.lastEarned # NoDate /\ s.currentCount # 0
    <3> DEFINE n  == Cardinality(Missed(s, c))
               n1 == Cardinality(Missed(s, cur))
               n2 == Cardinality(Missed(t, c))
    <3>1. n \in Nat /\ n1 \in Nat /\ n2 \in Nat /\ n = n1 + n2
      BY <1>1, <2>2, ChargedFinite, MissedSplits
    <3>2. /\ t.currentCount = IF s.currentCount > 0 /\ n1 > (IF AutoConsume THEN s.freezes ELSE 0)
                              THEN 0 ELSE s.currentCount
          /\ t.freezeProgress = IF s.currentCount > 0 /\ n1 > (IF AutoConsume THEN s.freezes ELSE 0)
                                THEN 0 ELSE s.freezeProgress
          /\ t.freezes = IF s.currentCount = 0 \/ ~AutoConsume THEN s.freezes
                         ELSE IF n1 > s.freezes THEN 0 ELSE s.freezes - n1
          /\ t.lastEarned = s.lastEarned
      <4> HIDE DEF t, n1
      <4> QED BY <1>2, <2>2, SettleFields DEF t, n1
    <3>3. /\ v.currentCount = IF s.currentCount > 0 /\ n > (IF AutoConsume THEN s.freezes ELSE 0)
                              THEN 0 ELSE s.currentCount
          /\ v.freezeProgress = IF s.currentCount > 0 /\ n > (IF AutoConsume THEN s.freezes ELSE 0)
                                THEN 0 ELSE s.freezeProgress
          /\ v.freezes = IF s.currentCount = 0 \/ ~AutoConsume THEN s.freezes
                         ELSE IF n > s.freezes THEN 0 ELSE s.freezes - n
      <4> HIDE DEF v, n
      <4> QED BY <1>2, <2>2, SettleFields DEF v, n
    <3>4. /\ u.currentCount = IF t.currentCount > 0 /\ n2 > (IF AutoConsume THEN t.freezes ELSE 0)
                              THEN 0 ELSE t.currentCount
          /\ u.freezeProgress = IF t.currentCount > 0 /\ n2 > (IF AutoConsume THEN t.freezes ELSE 0)
                                THEN 0 ELSE t.freezeProgress
          /\ u.freezes = IF t.currentCount = 0 \/ ~AutoConsume THEN t.freezes
                         ELSE IF n2 > t.freezes THEN 0 ELSE t.freezes - n2
      <4>1. t.lastEarned # NoDate /\ t.freezes \in Nat /\ t.currentCount \in Nat
        BY <1>1, <2>2, <3>2 DEF State
      <4> HIDE DEF t, u, n2
      <4> QED BY <1>1, <4>1, SettleFields DEF u, n2
    <3> HIDE DEF t, u, v, n, n1, n2
    <3> QED BY <1>2, <2>2, <3>1, <3>2, <3>3, <3>4
  <2> QED BY <2>1, <2>2
<1> HIDE DEF u, v
<1>5. u = v
  BY <1>1, <1>3, <1>4, SameState
<1> QED BY <1>5 DEF u, v

\* A settlement in two parts charges each period with the same as in one.
LEMMA SettleSplits ==
  ASSUME NEW s \in State, NEW cur \in Period, NEW c \in Period, cur <= c,
         s.lastEarned # NoDate, s.currentCount # 0
  PROVE  LET t == Settle(s, cur)
             M == Charged(s, c)
             k == Spent(s, c)
         IN  /\ Charged(s, cur) = {q \in M : q < cur}
             /\ \A q \in M : q < cur => /\ Rank(Charged(s, cur), q) = Rank(M, q)
                                        /\ Rank(M, q) < k <=> Rank(M, q) < Spent(s, cur)
                                        /\ Rank(M, q) = k <=> Rank(M, q) = Spent(s, cur)
             /\ Breaks(s, cur) => \A q \in M : cur <= q => Rank(M, q) > k
             /\ ~Breaks(s, cur) =>
                  /\ t.currentCount = s.currentCount
                  /\ Charged(t, c) = {q \in M : cur <= q}
                  /\ \A q \in M : cur <= q =>
                       /\ Rank(M, q) < k <=> Rank(Charged(t, c), q) < Spent(t, c)
                       /\ Rank(M, q) = k <=> Rank(Charged(t, c), q) = Spent(t, c)
<1> DEFINE t  == Settle(s, cur)
           M  == Charged(s, c)
           M1 == Charged(s, cur)
           M2 == {q \in M : cur <= q}
           n  == Cardinality(M)
           n1 == Cardinality(M1)
           n2 == Cardinality(M2)
<1>1. t \in State
  BY SettleType
<1>2. M = Missed(s, c) /\ M1 = Missed(s, cur) /\ M2 = Missed(t, c)
  BY MissedParts DEF Charged
<1>3. /\ M \in SUBSET Nat /\ M1 \in SUBSET Nat /\ M2 \in SUBSET Nat
      /\ IsFiniteSet(M) /\ IsFiniteSet(M1) /\ IsFiniteSet(M2)
      /\ n \in Nat /\ n1 \in Nat /\ n2 \in Nat /\ n = n1 + n2
  BY <1>1, <1>2, ChargedFinite, MissedSplits, CalendarAssumption DEF Period
<1>4. M1 = {q \in M : q < cur}
  BY <1>2, MissedParts
<1>5. s.freezes \in Nat /\ s.currentCount \in Nat /\ cur \in Nat
  BY CalendarAssumption DEF State, Period
<1>6. /\ Spent(s, c) = IF ~AutoConsume THEN 0 ELSE IF n < s.freezes THEN n ELSE s.freezes
      /\ Spent(s, cur) = IF ~AutoConsume THEN 0 ELSE IF n1 < s.freezes THEN n1 ELSE s.freezes
      /\ Breaks(s, cur) <=> n1 > Spent(s, cur)
  BY DEF Spent, Breaks
<1>7. ~Breaks(s, cur) =>
        /\ t.currentCount = s.currentCount /\ t.lastEarned = s.lastEarned
        /\ t.freezes = s.freezes - Spent(s, cur)
  BY DEF Settle, State
<1>8. ~Breaks(s, cur) =>
        /\ Charged(t, c) = M2
        /\ Spent(t, c) = IF ~AutoConsume THEN 0 ELSE IF n2 < t.freezes THEN n2 ELSE t.freezes
  BY <1>2, <1>7 DEF Spent, Charged
<1> HIDE DEF t, M, M1, n, n1, n2
<1>9. ASSUME NEW q \in M, q < cur PROVE Rank(M1, q) = Rank(M, q) /\ Rank(M, q) < n1
                                       /\ Rank(M, q) \in Nat
  <2>1. \A x \in M : x < q => x < cur
    BY <1>3, <1>5, <1>9
  <2>2. {x \in M1 : x < q} = {x \in M : x < q}
    BY <1>4, <2>1, Zenon
  <2>3. q \in M1
    BY <1>4, <1>9
  <2>4. Rank(M1, q) < n1 /\ Rank(M1, q) \in Nat
    BY <1>3, <2>3, RankOrder DEF n1
  <2> QED BY <2>2, <2>4 DEF Rank
<1>10. ASSUME NEW q \in M, cur <= q
       PROVE  Rank(M, q) = n1 + Rank(M2, q) /\ Rank(M2, q) < n2 /\ Rank(M2, q) \in Nat
  <2> DEFINE b == {x \in M2 : x < q}
  <2>1. \A x \in M : x \in Nat /\ (x < cur \/ cur <= x) /\ ~(x < cur /\ cur <= x)
                     /\ (x < cur => x < q)
    BY <1>3, <1>5, <1>10
  <2>2. {x \in M : x < q} = M1 \cup b /\ M1 \cap b = {}
    BY <1>4, <2>1
  <2>3. IsFiniteSet(b) /\ Cardinality(b) \in Nat
    <3>1. b \in SUBSET M2
      OBVIOUS
    <3> HIDE DEF b
    <3> QED BY <1>3, <3>1, FS_Subset, FS_CardinalityType
  <2> HIDE DEF b
  <2>4. Cardinality(M1 \cup b) = n1 + Cardinality(b)
    <3>1. Cardinality(M1 \cup b) = Cardinality(M1) + Cardinality(b) - Cardinality(M1 \cap b)
      BY <1>3, <2>3, FS_Union
    <3>2. Cardinality(M1 \cap b) = 0
      BY <2>2, FS_EmptySet
    <3> QED BY <1>3, <2>3, <3>1, <3>2 DEF n1
  <2>5. Cardinality(b) < n2
    <3>1. q \in M2
      BY <1>10
    <3> HIDE DEF M2
    <3> QED BY <1>3, <3>1, RankOrder DEF n2, b, Rank
  <2> QED BY <2>2, <2>3, <2>4, <2>5 DEF Rank, b
<1> HIDE DEF M2
<1>11. \A q \in M : q < cur => /\ Rank(M1, q) = Rank(M, q)
                               /\ Rank(M, q) < Spent(s, c) <=> Rank(M, q) < Spent(s, cur)
                               /\ Rank(M, q) = Spent(s, c) <=> Rank(M, q) = Spent(s, cur)
  BY <1>3, <1>5, <1>6, <1>9, ConfigAssumption
<1>12. Breaks(s, cur) => \A q \in M : cur <= q => Rank(M, q) > Spent(s, c)
  BY <1>3, <1>5, <1>6, <1>10, ConfigAssumption
<1>13. ~Breaks(s, cur) =>
         \A q \in M : cur <= q =>
            /\ Rank(M, q) < Spent(s, c) <=> Rank(M2, q) < Spent(t, c)
            /\ Rank(M, q) = Spent(s, c) <=> Rank(M2, q) = Spent(t, c)
  BY <1>3, <1>5, <1>6, <1>7, <1>8, <1>10, ConfigAssumption
<1> QED BY <1>4, <1>7, <1>8, <1>11, <1>12, <1>13 DEF t, M, M1, M2

\* The events of a settlement at c are those of one at cur, and of the
\* settlement at c that follows it.
LEMMA SettleEventsCompose ==
  ASSUME NEW s \in State, NEW cur \in Period, NEW c \in Period, cur <= c
  PROVE  /\ SettleEvents(s, cur) = {e \in SettleEvents(s, c) : e.period < cur}
         /\ SettleEvents(Settle(s, cur), c) = {e \in SettleEvents(s, c) : e.period >= cur}
<1> DEFINE t == Settle(s, cur)
<1>1. t \in State /\ t.lastEarned = s.lastEarned
  BY SettleType, SettlePointer
<1>2. CASE s.lastEarned = NoDate \/ s.currentCount = 0
  <2>1. t.lastEarned = NoDate \/ t.currentCount = 0
    BY <1>2, SettleIdle
  <2>2. SettleEvents(s, cur) = {} /\ SettleEvents(s, c) = {}
    BY <1>2, SettleIdle
  <2>3. SettleEvents(t, c) = {}
    <3> HIDE DEF t
    <3> QED BY <1>1, <2>1, SettleIdle
  <2> QED BY <2>2, <2>3
<1>3. CASE s.lastEarned # NoDate /\ s.currentCount # 0
  <2> DEFINE M == Charged(s, c)
             k == Spent(s, c)
  <2>0. \A q \in M : q \in Nat /\ (q < cur <=> ~(q >= cur)) /\ (cur <= q <=> q >= cur)
    BY ChargedFinite, CalendarAssumption DEF Period
  <2>1. /\ Charged(s, cur) = {q \in M : q < cur}
        /\ \A q \in M : q < cur => /\ Rank(Charged(s, cur), q) = Rank(M, q)
                                   /\ Rank(M, q) < k <=> Rank(M, q) < Spent(s, cur)
                                   /\ Rank(M, q) = k <=> Rank(M, q) = Spent(s, cur)
        /\ Breaks(s, cur) => \A q \in M : cur <= q => Rank(M, q) > k
        /\ ~Breaks(s, cur) =>
             /\ t.currentCount = s.currentCount
             /\ Charged(t, c) = {q \in M : cur <= q}
             /\ \A q \in M : cur <= q =>
                  /\ Rank(M, q) < k <=> Rank(Charged(t, c), q) < Spent(t, c)
                  /\ Rank(M, q) = k <=> Rank(Charged(t, c), q) = Spent(t, c)
    BY <1>3, SettleSplits
  <2>2. \A e : e \in SettleEvents(s, c) <=>
          \E q \in M : \/ Rank(M, q) < k /\ e = Ev("freeze_consumed", q, s.currentCount)
                       \/ Rank(M, q) = k /\ e = Ev("broken", q, s.currentCount)
    BY SettleEventsAre
  <2>3. SettleEvents(s, cur) = {e \in SettleEvents(s, c) : e.period < cur}
    <3>1. \A e : e \in SettleEvents(s, cur) <=>
            \E q \in Charged(s, cur) :
              \/ /\ Rank(Charged(s, cur), q) < Spent(s, cur)
                 /\ e = Ev("freeze_consumed", q, s.currentCount)
              \/ /\ Rank(Charged(s, cur), q) = Spent(s, cur)
                 /\ e = Ev("broken", q, s.currentCount)
      BY SettleEventsAre
    <3> HIDE DEF M, k
    <3>2. ASSUME NEW e \in SettleEvents(s, cur) PROVE e \in SettleEvents(s, c) /\ e.period < cur
      <4>1. PICK q \in M : /\ q < cur
                           /\ \/ Rank(M, q) < k /\ e = Ev("freeze_consumed", q, s.currentCount)
                              \/ Rank(M, q) = k /\ e = Ev("broken", q, s.currentCount)
        BY <2>1, <3>1
      <4>2. e.period = q
        BY <4>1 DEF Ev
      <4> QED BY <2>2, <4>1, <4>2
    <3>3. ASSUME NEW e \in SettleEvents(s, c), e.period < cur PROVE e \in SettleEvents(s, cur)
      <4>1. PICK q \in M : \/ Rank(M, q) < k /\ e = Ev("freeze_consumed", q, s.currentCount)
                           \/ Rank(M, q) = k /\ e = Ev("broken", q, s.currentCount)
        BY <2>2
      <4>2. q < cur
        BY <3>3, <4>1 DEF Ev
      <4> QED BY <2>1, <3>1, <4>1, <4>2
    <3> QED BY <3>2, <3>3
  <2>4. SettleEvents(t, c) = {e \in SettleEvents(s, c) : e.period >= cur}
    <3>1. \A e : e \in SettleEvents(t, c) <=>
            \E q \in Charged(t, c) :
              \/ /\ Rank(Charged(t, c), q) < Spent(t, c)
                 /\ e = Ev("freeze_consumed", q, t.currentCount)
              \/ /\ Rank(Charged(t, c), q) = Spent(t, c)
                 /\ e = Ev("broken", q, t.currentCount)
      BY SettleEventsAre
    <3>2. k \in Nat /\ \A q \in M : Rank(M, q) \in Nat
      <4>1. M \in SUBSET Nat /\ IsFiniteSet(M)
        BY ChargedFinite, CalendarAssumption DEF Period
      <4> HIDE DEF M
      <4> QED BY <4>1, SpentType, RankOrder
    <3>3. CASE Breaks(s, cur)
      <4>1. t.currentCount = 0
        BY <3>3, <1>1 DEF Settle, State
      <4>2. SettleEvents(t, c) = {}
        <5> HIDE DEF t
        <5> QED BY <1>1, <4>1, SettleIdle
      <4>3. ASSUME NEW e \in SettleEvents(s, c), e.period >= cur PROVE FALSE
        <5>1. PICK q \in M : Rank(M, q) <= k /\ e.period = q
          <6> HIDE DEF M, k
          <6> QED BY <2>2, <3>2 DEF Ev
        <5>2. cur <= q /\ Rank(M, q) > k
          <6> HIDE DEF M, k
          <6> QED BY <2>0, <2>1, <3>3, <4>3, <5>1
        <5> HIDE DEF M, k
        <5> QED BY <3>2, <5>1, <5>2
      <4> QED BY <4>2, <4>3
    <3>4. CASE ~Breaks(s, cur)
      <4> HIDE DEF M, k, t
      <4>1. ASSUME NEW e \in SettleEvents(t, c) PROVE e \in SettleEvents(s, c) /\ e.period >= cur
        <5>1. PICK q \in M : /\ cur <= q
                             /\ \/ Rank(M, q) < k /\ e = Ev("freeze_consumed", q, s.currentCount)
                                \/ Rank(M, q) = k /\ e = Ev("broken", q, s.currentCount)
          BY <2>1, <3>1, <3>4
        <5>2. e.period = q /\ q >= cur
          BY <2>0, <5>1 DEF Ev
        <5> QED BY <2>2, <5>1, <5>2
      <4>2. ASSUME NEW e \in SettleEvents(s, c), e.period >= cur PROVE e \in SettleEvents(t, c)
        <5>1. PICK q \in M : \/ Rank(M, q) < k /\ e = Ev("freeze_consumed", q, s.currentCount)
                             \/ Rank(M, q) = k /\ e = Ev("broken", q, s.currentCount)
          BY <2>2
        <5>2. cur <= q
          BY <2>0, <4>2, <5>1 DEF Ev
        <5> QED BY <2>1, <3>1, <3>4, <5>1, <5>2
      <4> QED BY <4>1, <4>2
    <3> QED BY <3>3, <3>4
  <2> QED BY <2>3, <2>4
<1> QED BY <1>2, <1>3

\* A settled state has no miss left at the same instant.
LEMMA NothingMissed ==
  ASSUME NEW s \in State, NEW cur \in Period,
         s.settledThrough >= cur - 1 \/ s.lastEarned >= cur - 1
  PROVE  Missed(s, cur) = {} /\ Cardinality(Missed(s, cur)) = 0
<1>1. s.lastEarned \in Int /\ s.settledThrough \in Int /\ cur \in Int
  BY CalendarAssumption DEF State, Date, Period, NoDate
<1>2. Later(s.lastEarned, s.settledThrough) >= cur - 1
      /\ Later(s.lastEarned, s.settledThrough) \in Int
  BY <1>1 DEF Later
<1> HIDE DEF Later
<1> QED BY <1>1, <1>2, FS_EmptySet DEF Missed

\* A chain needs an earned period.
Rooted(s) == s.lastEarned = NoDate => s.currentCount = 0

\* The core functions give a chain no other beginning.
LEMMA RootedKept ==
  ASSUME NEW s \in State, NEW p \in Period, Rooted(s)
  PROVE  Rooted(Settle(s, p)) /\ Rooted(Apply(s, p))
<1>1. p # NoDate
  BY CalendarAssumption DEF Period, NoDate
<1>2. Rooted(Settle(s, p))
  BY SettleIdle, SettlePointer DEF Rooted
<1> QED BY <1>1, <1>2, ApplyFields DEF Rooted

\* The replay of a ledger is rooted.
LEMMA ReplayRooted ==
  ASSUME NEW earned, NEW cur \in Period
  PROVE  Rooted(Replay(earned, cur))
<1> DEFINE Good == {s \in State : Rooted(s)}
<1>1. NewState \in Good
  BY NewStateType DEF NewState, Rooted
<1>2. ASSUME NEW s \in State, NEW p \in Period, s \in Good
      PROVE  ReplayStep(s, earned, p) \in Good
  BY <1>2, SettleType, ApplyType, RootedKept DEF ReplayStep
<1> HIDE DEF Good
<1>3. ReplayUpTo(earned)[LastPeriod] \in Good
  BY <1>1, <1>2, ReplayInduction, CalendarAssumption
<1> QED BY <1>3, RootedKept DEF Replay, Good
=============================================================================
