--------------------------- MODULE UtilityProofs ---------------------------
(***************************************************************************)
(* Proofs about three parts of the feed that depend on no other: the       *)
(* backoff of Reconnect, for every first and greatest backoff and every    *)
(* length of a healthy session; the time stamps of Rfc3339, for every day  *)
(* of every year and every text; the CRC32 of Checksum, for every text.    *)
(***************************************************************************)
EXTENDS Reconnect, Rfc3339, Checksum, FiniteSetTheorems, NaturalsInduction,
        WellFoundedInduction, SequenceTheorems, TLAPS

----------------------------------------------------------------------------
(* Reconnect.                                                              *)

\* The backoff that follows a delay, or the first one.
After(d) == IF d = 0 THEN First ELSE IF 2 * d < Max THEN 2 * d ELSE Max

\* A sleep lasts for the backoff, which is doubled when it is over; the time a
\* connection was up is part of the time since the attempt began.
Inv ==
  /\ TypeOK
  /\ upFor <= elapsed
  /\ IF phase = "sleep"
       THEN delay = backoff /\ (elapsed > Healthy => delay = First)
       ELSE backoff = After(delay)

LEMMA Initially == Init => Inv
  BY BackoffAssumption, TickAssumption DEF Init, Inv, TypeOK, After

LEMMA Preserved == Inv /\ [Next]_vars => Inv'
<1> SUFFICES ASSUME Inv, [Next]_vars PROVE Inv'
  OBVIOUS
<1> USE BackoffAssumption, TickAssumption DEF Inv, TypeOK
<1>1. CASE Tick
  BY <1>1 DEF Tick, After
<1>2. CASE Connected
  BY <1>2 DEF Connected, After
<1>3. CASE SessionEnds
  BY <1>3 DEF SessionEnds, BackoffAfterSession
<1>4. CASE Wake
  BY <1>4 DEF Wake, Doubled, After
<1>5. CASE UNCHANGED vars
  BY <1>5 DEF vars, After
<1> QED  BY <1>1, <1>2, <1>3, <1>4, <1>5 DEF Next

LEMMA Invariant == Spec => []Inv
  BY Initially, Preserved, PTL DEF Spec

\* The backoff stays between its first value and the cap (feed.rs, run).
THEOREM TypeCorrect == Spec => []TypeOK
<1>1. Inv => TypeOK
  BY DEF Inv
<1> QED  BY <1>1, Invariant, PTL

\* A connection that stayed up for longer than the threshold is retried after
\* the first backoff, whatever failed before it (feed.rs, run).
THEOREM HealthyConnectionsReset == Spec => []HealthyResets
<1>1. Inv => HealthyResets
  BY TickAssumption DEF Inv, TypeOK, HealthyResets
<1> QED  BY <1>1, Invariant, PTL

\* Failures in a row are retried after delays that double up to the cap
\* (feed.rs, run).
THEOREM DelaysDouble == Spec => ShortSessionsBackOff
<1>1. Inv /\ [Next]_vars =>
        [phase # "sleep" /\ phase' = "sleep" /\ elapsed <= Healthy =>
           delay' = IF delay = 0 THEN First
                    ELSE IF 2 * delay < Max THEN 2 * delay ELSE Max]_vars
  <2> SUFFICES ASSUME Inv, Next, phase # "sleep", phase' = "sleep",
                      elapsed <= Healthy
               PROVE  delay' = After(delay)
    BY DEF vars, After
  <2>1. SessionEnds
    BY DEF Next, Tick, Connected, Wake
  <2> QED
    BY <2>1, TickAssumption DEF Inv, TypeOK, SessionEnds, BackoffAfterSession
<1> QED  BY <1>1, Invariant, PTL DEF Spec, ShortSessionsBackOff

----------------------------------------------------------------------------
(* The calendar.                                                           *)

\* A set of numbers has a least one; inductions below are by the least
\* counterexample.
LEMMA HasMin ==
  ASSUME NEW S, S \subseteq Nat, S # {}
  PROVE  \E n \in S : \A k \in S : n <= k
<1>1. PICK n \in S : \A k \in S : <<k, n>> \notin OpToRel(<, Nat)
  BY NatLessThanWellFounded, WFMin
<1>2. \A k \in S : ~(k < n)
  BY <1>1 DEF OpToRel
<1> QED  BY <1>2

\* The day before the first of March of y, and the days from there to the
\* first of a month: days_from_civil lets a year begin in March.
MarchOf(y) ==
  LET era == y \div 400
      yoe == y - era * 400
  IN  era * 146097 + yoe * 365 + yoe \div 4 - yoe \div 100 - 719468
MonthStart == <<306, 337, 0, 31, 61, 92, 122, 153, 184, 214, 245, 275>>
MarchYear(y, m) == IF m <= 2 THEN y - 1 ELSE y

\* Year r of era e is y; an era is 400 years.
InEra(y, e, r) == e \in Int /\ r \in 0 .. 399 /\ y = 400 * e + r
EraMarch(e, r) == e * 146097 + r * 365 + r \div 4 - r \div 100 - 719468

\* Every year is in an era.
LEMMA Eras ==
  ASSUME NEW y \in Int
  PROVE  \E e, r : InEra(y, e, r)
<1>1. y \div 400 \in Int /\ y % 400 \in 0 .. 399
  OBVIOUS
<1>2. y = 400 * (y \div 400) + (y % 400)
  OBVIOUS
<1>3. PICK e, r : e = y \div 400 /\ r = y % 400
  OBVIOUS
<1>4. InEra(y, e, r)
  BY <1>1, <1>2, <1>3 DEF InEra
<1> QED  BY <1>4

\* The first of March by the era of its year.
LEMMA MarchIs ==
  ASSUME NEW y, NEW e, NEW r, InEra(y, e, r)
  PROVE  MarchOf(y) = EraMarch(e, r)
<1> USE DEF InEra
<1>1. y \div 400 = e
  OBVIOUS
<1>2. y - e * 400 = r
  OBVIOUS
<1> QED BY <1>1, <1>2 DEF MarchOf, EraMarch

LEMMA MarchType == ASSUME NEW y \in Int PROVE MarchOf(y) \in Int
<1>1. PICK e, r : InEra(y, e, r)
  BY Eras
<1>2. EraMarch(e, r) \in Int
  <2>1. e \in Int /\ r \in Int /\ r \div 4 \in Int /\ r \div 100 \in Int
    BY <1>1 DEF InEra
  <2> QED BY <2>1 DEF EraMarch
<1> QED BY <1>1, <1>2, MarchIs

\* days_from_civil adds the days from the first of March to the first of the
\* month and the days of the month.
LEMMA CivilIs ==
  ASSUME NEW y \in Int, NEW m \in 1 .. 12, NEW d \in Int
  PROVE  DaysFromCivil(y, m, d) = MarchOf(MarchYear(y, m)) + MonthStart[m] + d - 1
<1> DEFINE doy == (153 * (IF m > 2 THEN m - 3 ELSE m + 9) + 2) \div 5 + d - 1
<1>1. doy = MonthStart[m] + d - 1
  <2>1. m \in {1, 2, 3, 4, 5, 6, 7, 8, 9, 10, 11, 12}
    OBVIOUS
  <2> QED BY <2>1 DEF MonthStart
<1>2. MonthStart[m] \in Int
  <2>1. m \in {1, 2, 3, 4, 5, 6, 7, 8, 9, 10, 11, 12}
    OBVIOUS
  <2> QED BY <2>1 DEF MonthStart
<1>3. PICK z \in Int : z = MarchYear(y, m)
  BY DEF MarchYear
<1>4. PICK e, r : InEra(z, e, r)
  BY Eras
<1>5. z \div 400 = e /\ z - e * 400 = r /\ e \in Int /\ r \in 0 .. 399
  BY <1>4 DEF InEra
<1>6. DaysFromCivil(y, m, d) = e * 146097 + (r * 365 + r \div 4 - r \div 100 + doy) - 719468
  BY <1>3, <1>5 DEF DaysFromCivil, MarchYear
<1>7. MarchOf(z) = e * 146097 + r * 365 + r \div 4 - r \div 100 - 719468
  BY <1>4, MarchIs DEF EraMarch
<1>8. r \div 4 \in Int /\ r \div 100 \in Int /\ r \in Int /\ e \in Int
  BY <1>5
<1> HIDE DEF doy
<1> QED BY <1>1, <1>2, <1>3, <1>6, <1>7, <1>8

\* From March to March there is one February.
LEMMA MarchNext ==
  ASSUME NEW y \in Int
  PROVE  MarchOf(y + 1) = MarchOf(y) + 365 + (IF Leap(y + 1) THEN 1 ELSE 0)
<1>1. PICK e, r : InEra(y, e, r)
  BY Eras
<1>2. e \in Int /\ r \in 0 .. 399 /\ y = 400 * e + r
  BY <1>1 DEF InEra
<1>3. CASE r < 399
  <2>1. InEra(y + 1, e, r + 1)
    BY <1>2, <1>3 DEF InEra
  <2>2. /\ (r + 1) \div 4 = r \div 4 + (IF (r + 1) % 4 = 0 THEN 1 ELSE 0)
        /\ (r + 1) \div 100 = r \div 100 + (IF (r + 1) % 100 = 0 THEN 1 ELSE 0)
    BY <1>2, <1>3
  <2>3. Leap(y + 1) <=> (r + 1) % 4 = 0 /\ (r + 1) % 100 # 0
    <3>1. PICK q \in 1 .. 399 : q = r + 1 /\ y + 1 = 400 * e + q
      BY <1>2, <1>3
    <3>2. (y + 1) % 4 = q % 4
      BY <1>2, <3>1
    <3>3. (y + 1) % 100 = q % 100
      BY <1>2, <3>1
    <3>4. (y + 1) % 400 # 0
      BY <1>2, <3>1
    <3> QED BY <3>1, <3>2, <3>3, <3>4 DEF Leap
  <2>4. (r + 1) % 100 = 0 => (r + 1) % 4 = 0
    BY <1>2
  <2>5. r \div 4 \in Int /\ r \div 100 \in Int
    BY <1>2
  <2>6. EraMarch(e, r + 1) = EraMarch(e, r) + 365 + (IF Leap(y + 1) THEN 1 ELSE 0)
    BY <1>2, <2>2, <2>3, <2>4, <2>5 DEF EraMarch
  <2> QED BY <1>1, <2>1, <2>6, MarchIs
<1>4. CASE r = 399
  <2>1. InEra(y + 1, e + 1, 0)
    BY <1>2, <1>4 DEF InEra
  <2>2. EraMarch(e + 1, 0) = EraMarch(e, 399) + 366
    BY <1>2 DEF EraMarch
  <2>3. Leap(y + 1)
    BY <2>1 DEF Leap, InEra
  <2>4. MarchOf(y + 1) = MarchOf(y) + 366 /\ MarchOf(y) \in Int
    BY <1>1, <1>4, <2>1, <2>2, MarchIs, MarchType
  <2> QED BY <2>3, <2>4
<1> QED BY <1>2, <1>3, <1>4

Date == {d \in [year : Int, month : 1 .. 12, day : Int] :
           d.day \in 1 .. LastDay(d.year, d.month)}
DayOf(d) == DaysFromCivil(d.year, d.month, d.day)

\* The number of a day is one more than that of the day before.
LEMMA DayNext ==
  ASSUME NEW d \in Date
  PROVE  Tomorrow(d) \in Date /\ DayOf(Tomorrow(d)) = DayOf(d) + 1
<1> DEFINE y == d.year
           m == d.month
<1>1. /\ d = [year |-> y, month |-> m, day |-> d.day]
      /\ y \in Int /\ m \in 1 .. 12 /\ d.day \in 1 .. LastDay(y, m)
  BY DEF Date
<1>2. LastDay(y, m) \in 28 .. 31
  BY DEF LastDay
<1>3. d.day \in Int /\ DayOf(d) = MarchOf(MarchYear(y, m)) + MonthStart[m] + d.day - 1
  BY <1>1, <1>2, CivilIs DEF DayOf
<1>4. /\ \A n \in 1 .. 12 : MonthStart[n] \in Int /\ MarchOf(MarchYear(y, n)) \in Int
      /\ MarchOf(y) \in Int /\ MarchOf(y - 1) \in Int
  <2>1. \A n \in 1 .. 12 : n \in {1, 2, 3, 4, 5, 6, 7, 8, 9, 10, 11, 12}
    OBVIOUS
  <2>2. \A n \in 1 .. 12 : MonthStart[n] \in Int
    BY <2>1 DEF MonthStart
  <2>3. \A n \in 1 .. 12 : MarchYear(y, n) \in Int
    BY <1>1 DEF MarchYear
  <2> QED BY <1>1, <2>2, <2>3, MarchType
<1>5. CASE d.day < LastDay(y, m)
  <2>1. Tomorrow(d) = [year |-> y, month |-> m, day |-> d.day + 1]
    BY <1>1, <1>5 DEF Tomorrow
  <2>2. d.day + 1 \in 1 .. LastDay(y, m) /\ d.day + 1 \in Int
    BY <1>1, <1>2, <1>5
  <2>3. DaysFromCivil(y, m, d.day + 1) = MarchOf(MarchYear(y, m)) + MonthStart[m] + (d.day + 1) - 1
    BY <1>1, <2>2, CivilIs
  <2>4. DayOf(Tomorrow(d)) = DayOf(d) + 1
    BY <1>1, <1>3, <1>4, <2>1, <2>3 DEF DayOf
  <2> QED BY <1>1, <2>1, <2>2, <2>4 DEF Date
<1>6. CASE ~ (d.day < LastDay(y, m)) /\ m < 12
  <2>1. d.day = LastDay(y, m)
    BY <1>1, <1>2, <1>6
  <2>2. Tomorrow(d) = [year |-> y, month |-> m + 1, day |-> 1]
    BY <1>1, <1>6 DEF Tomorrow
  <2>3. m + 1 \in 1 .. 12 /\ 1 \in 1 .. LastDay(y, m + 1)
    BY <1>1, <1>6 DEF LastDay
  <2>4. DaysFromCivil(y, m + 1, 1) = MarchOf(MarchYear(y, m + 1)) + MonthStart[m + 1] + 1 - 1
    BY <1>1, <2>3, CivilIs
  <2>5. CASE m = 2
    <3>1. MarchOf(y) = MarchOf(y - 1) + 365 + (IF Leap(y) THEN 1 ELSE 0)
      <4>1. y - 1 \in Int /\ (y - 1) + 1 = y
        BY <1>1
      <4> QED BY <4>1, MarchNext
    <3>2. MarchYear(y, m) = y - 1 /\ MarchYear(y, m + 1) = y
      BY <2>5 DEF MarchYear
    <3>3. MonthStart[m] = 337 /\ MonthStart[m + 1] = 0
      BY <2>5 DEF MonthStart
    <3>4. d.day = IF Leap(y) THEN 29 ELSE 28
      BY <2>1, <2>5 DEF LastDay
    <3>5. DayOf(d) = MarchOf(y - 1) + 337 + d.day - 1
      BY <1>3, <3>2, <3>3
    <3>6. DayOf(Tomorrow(d)) = MarchOf(y)
      BY <1>4, <2>2, <2>4, <3>2, <3>3 DEF DayOf
    <3>7. DayOf(Tomorrow(d)) = DayOf(d) + 1
      BY <1>4, <3>1, <3>4, <3>5, <3>6
    <3> QED BY <1>1, <2>2, <2>3, <3>7 DEF Date
  <2>6. CASE m # 2
    <3>1. MarchYear(y, m) = MarchYear(y, m + 1)
      BY <1>1, <1>6, <2>6 DEF MarchYear
    <3>2. MonthStart[m] + LastDay(y, m) = MonthStart[m + 1]
      <4>1. m \in {1, 3, 4, 5, 6, 7, 8, 9, 10, 11}
        BY <1>1, <1>6, <2>6
      <4> HIDE DEF m, y
      <4> QED BY <4>1 DEF MonthStart, LastDay
    <3>3. DayOf(Tomorrow(d)) = DayOf(d) + 1
      <4>1. DayOf(Tomorrow(d)) = MarchOf(MarchYear(y, m + 1)) + MonthStart[m + 1] + 1 - 1
        BY <2>2, <2>4 DEF DayOf
      <4>2. MonthStart[m + 1] \in Int /\ MonthStart[m] \in Int
        BY <1>1, <1>4, <2>3
      <4>3. MarchOf(MarchYear(y, m + 1)) \in Int
        BY <1>4, <2>3
      <4> HIDE DEF m, y
      <4> QED BY <1>2, <1>3, <2>1, <3>1, <3>2, <4>1, <4>2, <4>3
    <3> QED BY <1>1, <2>2, <2>3, <3>3 DEF Date
  <2> QED BY <2>5, <2>6
<1>7. CASE ~ (d.day < LastDay(y, m)) /\ m = 12
  <2>1. d.day = 31
    BY <1>1, <1>2, <1>7 DEF LastDay
  <2>2. Tomorrow(d) = [year |-> y + 1, month |-> 1, day |-> 1]
    BY <1>1, <1>7 DEF Tomorrow
  <2>3. y + 1 \in Int /\ 1 \in 1 .. LastDay(y + 1, 1)
    BY <1>1 DEF LastDay
  <2>4. DaysFromCivil(y + 1, 1, 1) = MarchOf(MarchYear(y + 1, 1)) + MonthStart[1] + 1 - 1
    BY <2>3, CivilIs
  <2>5. MarchYear(y + 1, 1) = y /\ MarchYear(y, m) = y
    BY <1>1, <1>7 DEF MarchYear
  <2>6. MonthStart[1] = 306 /\ MonthStart[m] = 275
    BY <1>7 DEF MonthStart
  <2>7. DayOf(Tomorrow(d)) = MarchOf(y) + 306
    BY <1>4, <2>2, <2>4, <2>5, <2>6 DEF DayOf
  <2>8. DayOf(d) = MarchOf(y) + 275 + 31 - 1
    BY <1>3, <2>1, <2>5, <2>6
  <2>9. DayOf(Tomorrow(d)) = DayOf(d) + 1
    BY <1>4, <2>7, <2>8
  <2> QED BY <1>1, <2>2, <2>3, <2>9 DEF Date
<1> QED BY <1>1, <1>5, <1>6, <1>7

\* One more year is one more leap year, or none.
LEMMA LeapsAre ==
  ASSUME NEW S, NEW U, NEW y \in Int, IsFiniteSet(S), y \notin S,
         U = IF Leap(y) THEN S \cup {y} ELSE S
  PROVE  /\ Cardinality(U) = Cardinality(S) + (IF Leap(y) THEN 1 ELSE 0)
         /\ Cardinality(S) \in Nat
<1>1. Cardinality(S) \in Nat
  BY FS_CardinalityType
<1>2. CASE Leap(y)
  BY <1>1, <1>2, FS_AddElement
<1>3. CASE ~ Leap(y)
  BY <1>1, <1>3
<1> QED  BY <1>2, <1>3

\* The leap years from a to b.
LeapYears(a, b) == {k \in a .. b : Leap(k)}

LEMMA LeapYearsFinite ==
  ASSUME NEW a \in Int, NEW b \in Int
  PROVE  IsFiniteSet(LeapYears(a, b)) /\ Cardinality(LeapYears(a, b)) \in Nat
<1>1. IsFiniteSet(a .. b)
  BY FS_Interval
<1>2. LeapYears(a, b) \subseteq a .. b
  BY DEF LeapYears
<1> QED  BY <1>1, <1>2, FS_Subset, FS_CardinalityType

LEMMA YearType == ASSUME NEW y \in Int PROVE DaysBefore(y) \in Int
<1>1. /\ Cardinality(LeapYears(1970, y - 1)) \in Nat
      /\ Cardinality(LeapYears(y, 1969)) \in Nat
  BY LeapYearsFinite
<1> QED  BY <1>1 DEF DaysBefore, LeapYears

\* The clock counts 365 days in a year, and one more in a leap year.
LEMMA YearNext ==
  ASSUME NEW y \in Int
  PROVE  DaysBefore(y + 1) = DaysBefore(y) + 365 + (IF Leap(y) THEN 1 ELSE 0)
<1>1. CASE y >= 1970
  <2> DEFINE S == LeapYears(1970, y - 1)
             U == LeapYears(1970, y)
  <2>1. DaysBefore(y) = 365 * (y - 1970) + Cardinality(S)
    BY <1>1 DEF DaysBefore, LeapYears
  <2>2. DaysBefore(y + 1) = 365 * (y + 1 - 1970) + Cardinality(U)
    <3>1. y + 1 >= 1970 /\ (y + 1) - 1 = y
      BY <1>1
    <3> QED  BY <3>1 DEF DaysBefore, LeapYears
  <2>3. U = IF Leap(y) THEN S \cup {y} ELSE S
    <3>1. \A k : k \in U <=> k \in S \/ (k = y /\ Leap(y))
      BY <1>1 DEF LeapYears
    <3> HIDE DEF S, U
    <3>2. CASE Leap(y)
      <4>1. \A k : k \in U <=> k \in S \cup {y}
        BY <3>1, <3>2
      <4>2. U = S \cup {y}
        BY <4>1
      <4> QED  BY <3>2, <4>2
    <3>3. CASE ~ Leap(y)
      <4>1. \A k : k \in U <=> k \in S
        BY <3>1, <3>3
      <4>2. U = S
        BY <4>1
      <4> QED  BY <3>3, <4>2
    <3> QED  BY <3>2, <3>3
  <2>4. y \notin S
    BY DEF LeapYears
  <2>5. IsFiniteSet(S)
    BY LeapYearsFinite
  <2> HIDE DEF S, U
  <2>6. Cardinality(U) = Cardinality(S) + (IF Leap(y) THEN 1 ELSE 0) /\ Cardinality(S) \in Nat
    BY <2>3, <2>4, <2>5, LeapsAre
  <2> QED  BY <2>1, <2>2, <2>6
<1>2. CASE y < 1970
  <2> DEFINE S == LeapYears(y + 1, 1969)
             U == LeapYears(y, 1969)
  <2>1. DaysBefore(y) = 365 * (y - 1970) - Cardinality(U)
    BY <1>2 DEF DaysBefore, LeapYears
  <2>2. DaysBefore(y + 1) = 365 * (y + 1 - 1970) - Cardinality(S)
    <3>1. CASE y + 1 >= 1970
      <4>1. y = 1969 /\ y + 1 = 1970
        BY <1>2, <3>1
      <4>2. LeapYears(1970, 1969) = {}
        BY DEF LeapYears
      <4>3. DaysBefore(1970) = 365 * (1970 - 1970) + Cardinality(LeapYears(1970, 1969))
        BY DEF DaysBefore, LeapYears
      <4>4. Cardinality({}) = 0
        BY FS_EmptySet
      <4>5. S = LeapYears(1970, 1969)
        BY <4>1
      <4>6. Cardinality(S) = 0 /\ DaysBefore(1970) = 0
        BY <4>2, <4>3, <4>4, <4>5
      <4> HIDE DEF S
      <4>7. DaysBefore(y + 1) = 0
        BY <4>1, <4>6
      <4>8. 365 * (y + 1 - 1970) = 0
        BY <4>1
      <4> QED  BY <4>6, <4>7, <4>8
    <3>2. CASE ~ (y + 1 >= 1970)
      BY <3>2 DEF DaysBefore, LeapYears
    <3> QED  BY <3>1, <3>2
  <2>3. U = IF Leap(y) THEN S \cup {y} ELSE S
    <3>1. \A k : k \in U <=> k \in S \/ (k = y /\ Leap(y))
      BY <1>2 DEF LeapYears
    <3> HIDE DEF S, U
    <3>2. CASE Leap(y)
      <4>1. \A k : k \in U <=> k \in S \cup {y}
        BY <3>1, <3>2
      <4>2. U = S \cup {y}
        BY <4>1
      <4> QED  BY <3>2, <4>2
    <3>3. CASE ~ Leap(y)
      <4>1. \A k : k \in U <=> k \in S
        BY <3>1, <3>3
      <4>2. U = S
        BY <4>1
      <4> QED  BY <3>3, <4>2
    <3> QED  BY <3>2, <3>3
  <2>4. y \notin S
    BY DEF LeapYears
  <2>5. IsFiniteSet(S)
    BY LeapYearsFinite
  <2> HIDE DEF S, U
  <2>6. Cardinality(U) = Cardinality(S) + (IF Leap(y) THEN 1 ELSE 0) /\ Cardinality(S) \in Nat
    BY <2>3, <2>4, <2>5, LeapsAre
  <2> QED  BY <2>1, <2>2, <2>6
<1> QED  BY <1>1, <1>2

\* The two ways to count agree on years.
Agree(y) == DaysBefore(y) = MarchOf(y - 1) + 306

LEMMA AgreeNext == ASSUME NEW y \in Int PROVE Agree(y) <=> Agree(y + 1)
<1>1. DaysBefore(y) \in Int /\ MarchOf(y - 1) \in Int /\ MarchOf(y) \in Int
  BY YearType, MarchType
<1>2. y - 1 \in Int /\ (y - 1) + 1 = y /\ (y + 1) - 1 = y
  OBVIOUS
<1>3. MarchOf(y) = MarchOf(y - 1) + 365 + (IF Leap(y) THEN 1 ELSE 0)
  BY <1>2, MarchNext
<1>4. DaysBefore(y + 1) = DaysBefore(y) + 365 + (IF Leap(y) THEN 1 ELSE 0)
  BY YearNext
<1> QED  BY <1>1, <1>2, <1>3, <1>4 DEF Agree

\* They do in every year, since they do in 1970.
LEMMA YearStart == ASSUME NEW y \in Int PROVE Agree(y)
<1>1. Agree(1970)
  <2>1. LeapYears(1970, 1969) = {}
    BY DEF LeapYears
  <2>2. DaysBefore(1970) = 0
    <3>1. DaysBefore(1970) = 365 * (1970 - 1970) + Cardinality(LeapYears(1970, 1969))
      BY DEF DaysBefore, LeapYears
    <3> QED  BY <2>1, <3>1, FS_EmptySet
  <2>3. MarchOf(1969) = -306
    BY DEF MarchOf
  <2> QED  BY <2>2, <2>3 DEF Agree
<1>2. \A n \in Nat : Agree(1970 + n)
  <2> DEFINE S == {n \in Nat : ~ Agree(1970 + n)}
  <2>0. SUFFICES ASSUME NEW q \in S PROVE FALSE
    BY DEF S
  <2>a. S \subseteq Nat
    OBVIOUS
  <2> HIDE DEF S
  <2>c. S # {}
    BY <2>0
  <2>1. PICK n \in S : \A k \in S : n <= k
    BY <2>a, <2>c, HasMin
  <2>b. n \in Nat /\ ~ Agree(1970 + n)
    BY DEF S
  <2>2. n # 0
    BY <1>1, <2>b
  <2>3. n - 1 \in Nat /\ n - 1 \notin S
    BY <2>a, <2>b, <2>1, <2>2
  <2>4. Agree(1970 + (n - 1))
    BY <2>3 DEF S
  <2>5. 1970 + (n - 1) \in Int /\ (1970 + (n - 1)) + 1 = 1970 + n
    BY <2>b
  <2>6. Agree(1970 + n)
    BY <2>4, <2>5, AgreeNext
  <2> QED  BY <2>b, <2>6
<1>3. \A n \in Nat : Agree(1970 - n)
  <2> DEFINE S == {n \in Nat : ~ Agree(1970 - n)}
  <2>0. SUFFICES ASSUME NEW q \in S PROVE FALSE
    BY DEF S
  <2>a. S \subseteq Nat
    OBVIOUS
  <2> HIDE DEF S
  <2>c. S # {}
    BY <2>0
  <2>1. PICK n \in S : \A k \in S : n <= k
    BY <2>a, <2>c, HasMin
  <2>b. n \in Nat /\ ~ Agree(1970 - n)
    BY DEF S
  <2>2. n # 0
    BY <1>1, <2>b
  <2>3. n - 1 \in Nat /\ n - 1 \notin S
    BY <2>a, <2>b, <2>1, <2>2
  <2>4. Agree(1970 - (n - 1))
    BY <2>3 DEF S
  <2>5. 1970 - n \in Int /\ (1970 - n) + 1 = 1970 - (n - 1)
    BY <2>b
  <2>6. Agree(1970 - n)
    BY <2>4, <2>5, AgreeNext
  <2> QED  BY <2>b, <2>6
<1>4. CASE y >= 1970
  <2>1. y - 1970 \in Nat /\ 1970 + (y - 1970) = y
    BY <1>4
  <2> QED  BY <1>2, <2>1
<1>5. CASE y < 1970
  <2>1. 1970 - y \in Nat /\ 1970 - (1970 - y) = y
    BY <1>5
  <2> QED  BY <1>3, <2>1
<1> QED  BY <1>4, <1>5

\* The first day of a year is at the distance at which the clock begins.
LEMMA NewYear == ASSUME NEW y \in Int PROVE DaysFromCivil(y, 1, 1) = DaysBefore(y)
<1>1. DaysFromCivil(y, 1, 1) = MarchOf(MarchYear(y, 1)) + MonthStart[1] + 1 - 1
  BY CivilIs
<1>2. MarchYear(y, 1) = y - 1 /\ MonthStart[1] = 306
  BY DEF MarchYear, MonthStart
<1>3. MarchOf(y - 1) \in Int
  BY MarchType
<1>4. DaysBefore(y) = MarchOf(y - 1) + 306
  BY YearStart DEF Agree
<1> QED  BY <1>1, <1>2, <1>3, <1>4

----------------------------------------------------------------------------
(* Time stamps.                                                            *)

\* The digits of a fraction, however written, are its milliseconds.
LEMMA MillisRead ==
  ASSUME NEW t \in Time
  PROVE  Millis(t.frac) = t.ms
<1>1. t.ms \in 0 .. 999 /\ Written(t.frac, t.ms)
  BY DEF Time
<1> DEFINE f == t.frac
           n == t.ms
           digit(i) == IF i <= Len(f) THEN f[i] ELSE 0
<1>2. /\ digit(1) = n \div 100
      /\ digit(2) = (n \div 10) % 10
      /\ digit(3) = n % 10
  BY <1>1 DEF Written
<1>3. Millis(f) = 100 * digit(1) + 10 * digit(2) + digit(3)
  BY DEF Millis
<1> HIDE DEF digit
<1>4. PICK k \in 0 .. 999 : k = n
  BY <1>1
<1>5. 100 * (k \div 100) + 10 * ((k \div 10) % 10) + (k % 10) = k
  BY SMT
<1>6. Millis(f) = 100 * (k \div 100) + 10 * ((k \div 10) % 10) + (k % 10)
  BY <1>2, <1>3, <1>4
<1> QED  BY <1>4, <1>5, <1>6

LEMMA CivilType ==
  ASSUME NEW y \in Int, NEW m \in 1 .. 12, NEW d \in Int
  PROVE  DaysFromCivil(y, m, d) \in Int
<1>1. MonthStart[m] \in Int
  <2>1. m \in {1, 2, 3, 4, 5, 6, 7, 8, 9, 10, 11, 12}
    OBVIOUS
  <2> QED BY <2>1 DEF MonthStart
<1>2. MarchYear(y, m) \in Int
  BY DEF MarchYear
<1>3. MarchOf(MarchYear(y, m)) \in Int
  BY <1>2, MarchType
<1>4. DaysFromCivil(y, m, d) = MarchOf(MarchYear(y, m)) + MonthStart[m] + d - 1
  BY CivilIs
<1> QED  BY <1>1, <1>3, <1>4

\* What is read of any text is an instant that fits, or nothing.
Fits(p) == p \in (Nat \X (0 .. DayMs - 1)) \cup {None}

LEMMA DayType == DayMs \in Nat
  BY SMT DEF DayMs

\* DayMs is hidden but where it is computed with.
LEMMA DayDivides ==
  ASSUME NEW ms \in Int
  PROVE  ms \div DayMs \in Int /\ ms % DayMs \in 0 .. DayMs - 1
<1>1. ms \div DayMs \in Int /\ ms % DayMs \in Int
  BY SMT DEF DayMs
<1>2. 0 <= ms % DayMs /\ ms % DayMs <= DayMs - 1
  BY SMT DEF DayMs
<1> QED  BY <1>1, <1>2, DayType

LEMMA BelowDay ==
  ASSUME NEW ms \in Int, 0 <= ms, ms < DayMs
  PROVE  ms \div DayMs = 0 /\ ms % DayMs = ms
BY SMT DEF DayMs

LEMMA WithinDay ==
  ASSUME NEW ms \in 0 .. DayMs - 1
  PROVE  ms \div DayMs = 0 /\ ms % DayMs = ms
<1>1. ms \in Int /\ 0 <= ms /\ ms < DayMs
  BY DayType
<1> QED  BY <1>1, BelowDay

\* Whatever day and millisecond a text gives.
LEMMA InstantFits ==
  ASSUME NEW n \in Int, NEW ms \in Int
  PROVE  Fits(NotNegative(Instant(n, ms)))
<1>1. PICK a, b : a = n + (ms \div DayMs) /\ b = ms % DayMs
  OBVIOUS
<1>2. a \in Int /\ b \in 0 .. DayMs - 1
  BY <1>1, DayDivides
<1>3. Instant(n, ms) = <<a, b>>
  BY <1>1 DEF Instant
<1>4. CASE a < 0
  BY <1>3, <1>4 DEF NotNegative, Fits
<1>5. CASE ~ (a < 0)
  <2>1. a \in Nat /\ <<a, b>>[1] = a
    BY <1>2, <1>5
  <2>2. NotNegative(Instant(n, ms)) = <<a, b>>
    BY <1>3, <1>5, <2>1 DEF NotNegative
  <2>3. <<a, b>> \in Nat \X (0 .. DayMs - 1)
    BY <1>2, <2>1
  <2> QED  BY <2>2, <2>3 DEF Fits
<1> QED  BY <1>4, <1>5

LEMMA ParseType ==
  ASSUME NEW t \in Text
  PROVE  Fits(Parse(t))
<1>1. CASE Parse(t) = None
  BY <1>1 DEF Fits
<1>2. CASE Parse(t) # None
  <2>1. /\ t.year \in Int /\ t.month \in 1 .. 12 /\ t.day \in Int
        /\ t.hour \in Int /\ t.min \in Int /\ t.sec \in Int
        /\ t.frac \in Seq((0 .. 9) \cup {Bad})
        /\ \A i \in DOMAIN t.frac : t.frac[i] # Bad
        /\ Parse(t) = NotNegative(Instant(DaysFromCivil(t.year, t.month, t.day),
             ((t.hour * 60 + t.min) * 60 + t.sec) * 1000 + Millis(t.frac)))
    BY <1>2, StampAssumption DEF Parse, Text, Field
  <2>2. Millis(t.frac) \in Int
    <3> DEFINE f == t.frac
               digit(i) == IF i <= Len(f) THEN f[i] ELSE 0
    <3>1. \A i \in 1 .. 3 : digit(i) \in 0 .. 9
      <4>1. f \in Seq((0 .. 9) \cup {Bad}) /\ \A i \in DOMAIN f : f[i] # Bad
        BY <2>1
      <4> HIDE DEF f
      <4>2. \A i \in 1 .. Len(f) : f[i] \in (0 .. 9)
        BY <4>1
      <4>3. Len(f) \in Nat
        BY <4>1
      <4> QED  BY <4>2, <4>3
    <3>2. Millis(f) = 100 * digit(1) + 10 * digit(2) + digit(3)
      BY DEF Millis
    <3>3. digit(1) \in Int /\ digit(2) \in Int /\ digit(3) \in Int
      BY <3>1
    <3> HIDE DEF digit
    <3> QED  BY <3>2, <3>3
  <2>3. DaysFromCivil(t.year, t.month, t.day) \in Int
    BY <2>1, CivilType
  <2>4. ((t.hour * 60 + t.min) * 60 + t.sec) * 1000 + Millis(t.frac) \in Int
    <3>1. t.hour \in Int /\ t.min \in Int /\ t.sec \in Int
      BY <2>1
    <3> QED  BY <2>2, <3>1
  <2> QED  BY <2>1, <2>3, <2>4, InstantFits
<1> QED  BY <1>1, <1>2

\* A stamp of the clock is a text, and read as the instant it was taken at.
Ms(h, i, s, n) == h * 3600000 + i * 60000 + s * 1000 + n
StampedAt(t) == <<days, Ms(t.hour, t.min, t.sec, t.ms)>>

Daytime(h, i, s, n) == h \in 0 .. 23 /\ i \in 0 .. 59 /\ s \in 0 .. 59 /\ n \in 0 .. 999
Summed(h, i, s, n) == ((h * 60 + i) * 60 + s) * 1000 + n

\* The code sums a time of the day in another order.
LEMMA MsIs ==
  ASSUME NEW h, NEW i, NEW s, NEW n, Daytime(h, i, s, n)
  PROVE  Summed(h, i, s, n) = Ms(h, i, s, n) /\ Ms(h, i, s, n) \in 0 .. DayMs - 1
<1> USE DEF Daytime
<1>1. Ms(h, i, s, n) \in Int
  BY SMT DEF Ms
<1>2. 0 <= Ms(h, i, s, n) /\ Ms(h, i, s, n) <= DayMs - 1
  BY SMT DEF Ms, DayMs
<1>3. Summed(h, i, s, n) = Ms(h, i, s, n)
  BY SMT DEF Ms, Summed
<1> QED  BY <1>1, <1>2, <1>3, DayType

LEMMA StampIs ==
  ASSUME NEW t, Receive(Stamped(t),
           <<days, t.hour * 3600000 + t.min * 60000 + t.sec * 1000 + t.ms>>)
  PROVE  Receive(Stamped(t), StampedAt(t))
BY SMT DEF Ms, StampedAt

LEMMA StampRead ==
  ASSUME NEW t \in Time, date \in Date, days = DayOf(date), days \in Int
  PROVE  /\ Stamped(t) \in Text
         /\ Parse(Stamped(t)) = IF days < 0 THEN None ELSE StampedAt(t)
<1>1. /\ t.hour \in 0 .. 23 /\ t.min \in 0 .. 59 /\ t.sec \in 0 .. 59
      /\ t.ms \in 0 .. 999
  BY DEF Time
<1>a. t.frac \in Seq(0 .. 9)
  BY DEF Time
<1>2. /\ date.year \in Int /\ date.month \in 1 .. 12 /\ date.day \in Int
  BY DEF Date
<1>3. date.day \in 1 .. 31
  <2>1. LastDay(date.year, date.month) \in 28 .. 31
    BY DEF LastDay
  <2>2. date.day \in 1 .. LastDay(date.year, date.month)
    BY DEF Date
  <2> QED  BY <1>2, <2>1, <2>2
<1>4. Stamped(t) \in Text
  <2>1. /\ date.year \in Field /\ date.month \in Field /\ date.day \in Field
        /\ t.hour \in Field /\ t.min \in Field /\ t.sec \in Field
    BY <1>1, <1>2, SMT DEF Field
  <2>2. t.frac \in Seq((0 .. 9) \cup {Bad})
    BY <1>a
  <2> QED  BY <2>1, <2>2, Zenon DEF Stamped, Text
<1>5. \A i \in DOMAIN t.frac : t.frac[i] # Bad
  <2>1. \A i \in DOMAIN t.frac : t.frac[i] \in 0 .. 9
    BY <1>a
  <2> QED  BY <2>1, StampAssumption
<1>6. Bad \notin {date.year, date.month, date.day, t.hour, t.min, t.sec}
  <2>1. /\ date.year \in Int /\ date.month \in Int /\ date.day \in Int
        /\ t.hour \in Int /\ t.min \in Int /\ t.sec \in Int
    BY <1>1, <1>2
  <2> QED  BY <2>1, StampAssumption, Zenon
<1> DEFINE msec(n) == ((t.hour * 60 + t.min) * 60 + t.sec) * 1000 + n
           at == Ms(t.hour, t.min, t.sec, t.ms)
           s == Stamped(t)
<1>7. Parse(Stamped(t)) = NotNegative(Instant(days, msec(t.ms)))
  <2>1. /\ s.parts = TRUE /\ s.year = date.year /\ s.month = date.month
        /\ s.day = date.day /\ s.hour = t.hour /\ s.min = t.min /\ s.sec = t.sec
        /\ s.frac = t.frac
    BY DEF Stamped
  <2> HIDE DEF s
  <2>2. /\ ~ (s.hour > 23) /\ ~ (s.min > 59) /\ ~ (s.sec > 60)
        /\ s.month \in 1 .. 12 /\ s.day \in 1 .. 31
    BY <1>1, <1>2, <1>3, <2>1
  <2>3. Bad \notin {s.year, s.month, s.day, s.hour, s.min, s.sec}
    BY <1>6, <2>1
  <2>4. ~ \E i \in DOMAIN s.frac : s.frac[i] = Bad
    BY <1>5, <2>1
  <2>5. Parse(s) = NotNegative(Instant(DaysFromCivil(s.year, s.month, s.day),
             ((s.hour * 60 + s.min) * 60 + s.sec) * 1000 + Millis(s.frac)))
    BY <2>1, <2>2, <2>3, <2>4 DEF Parse
  <2>6. DaysFromCivil(s.year, s.month, s.day) = days
    BY <2>1 DEF DayOf
  <2>7. Millis(s.frac) = t.ms
    BY <2>1, MillisRead
  <2>8. Parse(s) = NotNegative(Instant(days, msec(t.ms)))
    BY <2>1, <2>5, <2>6, <2>7
  <2> QED  BY <2>8 DEF s
<1>8. msec(t.ms) = at /\ at \in 0 .. DayMs - 1
  <2>1. Daytime(t.hour, t.min, t.sec, t.ms)
    BY <1>1 DEF Daytime
  <2>2. msec(t.ms) = Summed(t.hour, t.min, t.sec, t.ms)
    BY DEF Summed
  <2> HIDE DEF msec
  <2> QED  BY <2>1, <2>2, MsIs
<1> HIDE DEF msec, at
<1>9. Instant(days, at) = <<days, at>>
  <2>1. at \div DayMs = 0 /\ at % DayMs = at
    BY <1>8, WithinDay
  <2> QED  BY <2>1 DEF Instant
<1>10. NotNegative(<<days, at>>) = IF days < 0 THEN None ELSE <<days, at>>
  BY DEF NotNegative
<1>11. StampedAt(t) = <<days, at>>
  BY DEF at, StampedAt
<1> QED  BY <1>4, <1>7, <1>8, <1>9, <1>10, <1>11

\* The days counted by the clock are those of its calendar.
ClockInv ==
  /\ date \in Date
  /\ days = DayOf(date) /\ days \in Int
  /\ Fits(parsed)
  /\ ReadsTheClock

LEMMA ClockInitially == ClockInit => ClockInv
<1> SUFFICES ASSUME ClockInit PROVE ClockInv
  OBVIOUS
<1>1. PICK y \in FirstYears :
        date = [year |-> y, month |-> 1, day |-> 1] /\ days = DaysBefore(y)
  BY DEF ClockInit
<1>2. y \in Int
  BY StampAssumption
<1>3. date \in Date
  BY <1>1, <1>2 DEF Date, LastDay
<1>4. days = DayOf(date) /\ days \in Int
  BY <1>1, <1>2, NewYear, YearType DEF DayOf
<1> QED  BY <1>3, <1>4 DEF ClockInit, ClockInv, Fits, ReadsTheClock

LEMMA ClockPreserved == ClockInv /\ [ClockNext]_clockVars => ClockInv'
<1> SUFFICES ASSUME ClockInv, [ClockNext]_clockVars PROVE ClockInv'
  OBVIOUS
<1>1. CASE NextDay
  <2>1. date' = Tomorrow(date) /\ days' = days + 1 /\ parsed' = None /\ sentAt' = None
    BY <1>1 DEF NextDay
  <2>2. date' \in Date /\ days' = DayOf(date') /\ days' \in Int
    BY <2>1, DayNext DEF ClockInv
  <2> QED  BY <2>1, <2>2 DEF ClockInv, Fits, ReadsTheClock, DayOf
<1>2. CASE Stamp
  <2>1. PICK t \in Times : Receive(Stamped(t), StampedAt(t))
    BY <1>2, StampIs, SMT DEF Stamp
  <2>2. t \in Time
    BY StampAssumption
  <2>3. /\ date' = date /\ days' = days /\ sentAt' = StampedAt(t)
        /\ parsed' = Parse(Stamped(t))
    BY <2>1 DEF Receive
  <2>4. /\ Stamped(t) \in Text
        /\ Parse(Stamped(t)) = IF days < 0 THEN None ELSE StampedAt(t)
    BY <2>2, StampRead DEF ClockInv
  <2>5. Fits(parsed')
    BY <2>3, <2>4, ParseType
  <2>6. ReadsTheClock'
    BY <2>3, <2>4 DEF ReadsTheClock
  <2>7. DayOf(date') = DayOf(date)
    BY <2>3
  <2> QED  BY <2>3, <2>5, <2>6, <2>7 DEF ClockInv, Fits, DayOf
<1>3. CASE ReceiveOther
  <2>1. PICK t \in Others : Receive(t, None)
    BY <1>3 DEF ReceiveOther
  <2>2. t \in Text
    BY StampAssumption
  <2>3. date' = date /\ days' = days /\ sentAt' = None /\ parsed' = Parse(t)
    BY <2>1 DEF Receive
  <2>4. Fits(parsed')
    BY <2>2, <2>3, ParseType
  <2>5. DayOf(date') = DayOf(date)
    BY <2>3
  <2> QED  BY <2>3, <2>4, <2>5 DEF ClockInv, Fits, ReadsTheClock, DayOf
<1>4. CASE UNCHANGED clockVars
  BY <1>4 DEF clockVars, ClockInv, Fits, ReadsTheClock, DayOf
<1> QED  BY <1>1, <1>2, <1>3, <1>4 DEF ClockNext

LEMMA ClockInvariant == ClockSpec => []ClockInv
  BY ClockInitially, ClockPreserved, PTL DEF ClockSpec

\* What rfc3339_to_epoch_ms returns fits a u64 and its milliseconds belong to
\* one day, whatever the text (exchanges/mod.rs).
THEOREM InstantsFit == ClockSpec => []InstantOK
<1>1. ClockInv => InstantOK
  BY DEF ClockInv, InstantOK, Date, Fits
<1> QED  BY <1>1, ClockInvariant, PTL

\* A time stamp of the exchange's clock is read as the instant it was taken at,
\* on every day of every year (exchanges/mod.rs, days_from_civil).
THEOREM StampsAreRead == ClockSpec => []ReadsTheClock
<1>1. ClockInv => ReadsTheClock
  BY DEF ClockInv
<1> QED  BY <1>1, ClockInvariant, PTL

----------------------------------------------------------------------------
(* Checksum: bits.                                                         *)

\* Exclusive or is told by whether its operands are equal.
LEMMA XorIs ==
  ASSUME NEW a \in Bit, NEW b \in Bit
  PROVE  Xor(a, b) \in Bit /\ Xor(a, b) = IF a = b THEN 0 ELSE 1
<1>1. (a = 0 \/ a = 1) /\ (b = 0 \/ b = 1)
  BY DEF Bit
<1>2. 0 % 2 = 0 /\ 1 % 2 = 1 /\ 2 % 2 = 0
  OBVIOUS
<1> QED  BY <1>1, <1>2 DEF Xor, Bit

\* The bits of a byte are what it is.
LEMMA BitOfIs ==
  ASSUME NEW b \in 0 .. 255
  PROVE  /\ BitOf(b, 0) = b % 2 /\ BitOf(b, 1) = (b \div 2) % 2
         /\ BitOf(b, 2) = (b \div 4) % 2 /\ BitOf(b, 3) = (b \div 8) % 2
         /\ BitOf(b, 4) = (b \div 16) % 2 /\ BitOf(b, 5) = (b \div 32) % 2
         /\ BitOf(b, 6) = (b \div 64) % 2 /\ BitOf(b, 7) = (b \div 128) % 2
<1>1. /\ PowerOfTwo[1] = 1 /\ PowerOfTwo[2] = 2 /\ PowerOfTwo[3] = 4 /\ PowerOfTwo[4] = 8
      /\ PowerOfTwo[5] = 16 /\ PowerOfTwo[6] = 32 /\ PowerOfTwo[7] = 64
      /\ PowerOfTwo[8] = 128
  BY SMT DEF PowerOfTwo
<1>2. b \div 1 = b
  BY SMT
<1>3. /\ 0 + 1 = 1 /\ 1 + 1 = 2 /\ 2 + 1 = 3 /\ 3 + 1 = 4 /\ 4 + 1 = 5 /\ 5 + 1 = 6
      /\ 6 + 1 = 7 /\ 7 + 1 = 8
  BY SMT
<1> QED  BY <1>1, <1>2, <1>3, SMT DEF BitOf

\* A bit of a byte is a bit.
LEMMA BitOfType ==
  ASSUME NEW b \in 0 .. 255, NEW i \in 0 .. 7
  PROVE  BitOf(b, i) \in Bit
<1>1. i \in {0, 1, 2, 3, 4, 5, 6, 7}
  OBVIOUS
<1>2. /\ b % 2 \in Bit /\ (b \div 2) % 2 \in Bit /\ (b \div 4) % 2 \in Bit
      /\ (b \div 8) % 2 \in Bit /\ (b \div 16) % 2 \in Bit /\ (b \div 32) % 2 \in Bit
      /\ (b \div 64) % 2 \in Bit /\ (b \div 128) % 2 \in Bit
  BY SMT DEF Bit
<1> QED  BY <1>1, <1>2, BitOfIs

\* The quotients of a byte halve.
LEMMA Halves ==
  ASSUME NEW n \in 0 .. 255
  PROVE  /\ n \div 2 \in Nat /\ n \div 4 \in Nat /\ n \div 8 \in Nat /\ n \div 16 \in Nat
         /\ n \div 32 \in Nat /\ n \div 64 \in Nat
         /\ n \div 4 = (n \div 2) \div 2 /\ n \div 8 = (n \div 4) \div 2
         /\ n \div 16 = (n \div 8) \div 2 /\ n \div 32 = (n \div 16) \div 2
         /\ n \div 64 = (n \div 32) \div 2 /\ n \div 128 = (n \div 64) \div 2
<1>1. /\ n \div 2 \in Nat /\ n \div 4 \in Nat /\ n \div 8 \in Nat /\ n \div 16 \in Nat
      /\ n \div 32 \in Nat /\ n \div 64 \in Nat
  BY SMT
<1>2. n \div 4 = (n \div 2) \div 2
  BY SMT
<1>3. n \div 8 = (n \div 4) \div 2
  BY SMT
<1>4. n \div 16 = (n \div 8) \div 2
  BY SMT
<1>5. n \div 32 = (n \div 16) \div 2
  BY SMT
<1>6. n \div 64 = (n \div 32) \div 2
  BY SMT
<1>7. n \div 128 = (n \div 64) \div 2
  BY SMT
<1> QED  BY <1>1, <1>2, <1>3, <1>4, <1>5, <1>6, <1>7

\* A number is told by its half and its parity.
LEMMA SameHalves ==
  ASSUME NEW m \in Nat, NEW n \in Nat, m % 2 = n % 2, m \div 2 = n \div 2
  PROVE  m = n
BY SMT

\* Bytes with the same bits are the same.
LEMMA BitsTell ==
  ASSUME NEW a \in 0 .. 255, NEW b \in 0 .. 255, \A i \in 0 .. 7 : BitOf(a, i) = BitOf(b, i)
  PROVE  a = b
<1>1. /\ a % 2 = b % 2 /\ (a \div 2) % 2 = (b \div 2) % 2
      /\ (a \div 4) % 2 = (b \div 4) % 2 /\ (a \div 8) % 2 = (b \div 8) % 2
      /\ (a \div 16) % 2 = (b \div 16) % 2 /\ (a \div 32) % 2 = (b \div 32) % 2
      /\ (a \div 64) % 2 = (b \div 64) % 2 /\ (a \div 128) % 2 = (b \div 128) % 2
  <2>1. /\ BitOf(a, 0) = BitOf(b, 0) /\ BitOf(a, 1) = BitOf(b, 1)
        /\ BitOf(a, 2) = BitOf(b, 2) /\ BitOf(a, 3) = BitOf(b, 3)
        /\ BitOf(a, 4) = BitOf(b, 4) /\ BitOf(a, 5) = BitOf(b, 5)
        /\ BitOf(a, 6) = BitOf(b, 6) /\ BitOf(a, 7) = BitOf(b, 7)
    OBVIOUS
  <2>2. /\ BitOf(a, 0) = a % 2 /\ BitOf(a, 1) = (a \div 2) % 2
        /\ BitOf(a, 2) = (a \div 4) % 2 /\ BitOf(a, 3) = (a \div 8) % 2
        /\ BitOf(a, 4) = (a \div 16) % 2 /\ BitOf(a, 5) = (a \div 32) % 2
        /\ BitOf(a, 6) = (a \div 64) % 2 /\ BitOf(a, 7) = (a \div 128) % 2
    BY BitOfIs
  <2>3. /\ BitOf(b, 0) = b % 2 /\ BitOf(b, 1) = (b \div 2) % 2
        /\ BitOf(b, 2) = (b \div 4) % 2 /\ BitOf(b, 3) = (b \div 8) % 2
        /\ BitOf(b, 4) = (b \div 16) % 2 /\ BitOf(b, 5) = (b \div 32) % 2
        /\ BitOf(b, 6) = (b \div 64) % 2 /\ BitOf(b, 7) = (b \div 128) % 2
    BY BitOfIs
  <2> QED  BY <2>1, <2>2, <2>3
<1>2. a \div 128 = b \div 128
  <2>1. a \div 128 \in {0, 1} /\ b \div 128 \in {0, 1}
    BY SMT
  <2>2. 0 % 2 = 0 /\ 1 % 2 = 1
    BY SMT
  <2> QED  BY <1>1, <2>1, <2>2
<1>3. a \div 64 = b \div 64
  <2>1. PICK m \in Nat, n \in Nat : m = a \div 64 /\ n = b \div 64
    BY Halves
  <2>2. m % 2 = n % 2 /\ m \div 2 = n \div 2
    BY <1>1, <1>2, <2>1, Halves
  <2> QED  BY <2>1, <2>2, SameHalves
<1>4. a \div 32 = b \div 32
  <2>1. PICK m \in Nat, n \in Nat : m = a \div 32 /\ n = b \div 32
    BY Halves
  <2>2. m % 2 = n % 2 /\ m \div 2 = n \div 2
    BY <1>1, <1>3, <2>1, Halves
  <2> QED  BY <2>1, <2>2, SameHalves
<1>5. a \div 16 = b \div 16
  <2>1. PICK m \in Nat, n \in Nat : m = a \div 16 /\ n = b \div 16
    BY Halves
  <2>2. m % 2 = n % 2 /\ m \div 2 = n \div 2
    BY <1>1, <1>4, <2>1, Halves
  <2> QED  BY <2>1, <2>2, SameHalves
<1>6. a \div 8 = b \div 8
  <2>1. PICK m \in Nat, n \in Nat : m = a \div 8 /\ n = b \div 8
    BY Halves
  <2>2. m % 2 = n % 2 /\ m \div 2 = n \div 2
    BY <1>1, <1>5, <2>1, Halves
  <2> QED  BY <2>1, <2>2, SameHalves
<1>7. a \div 4 = b \div 4
  <2>1. PICK m \in Nat, n \in Nat : m = a \div 4 /\ n = b \div 4
    BY Halves
  <2>2. m % 2 = n % 2 /\ m \div 2 = n \div 2
    BY <1>1, <1>6, <2>1, Halves
  <2> QED  BY <2>1, <2>2, SameHalves
<1>8. a \div 2 = b \div 2
  <2>1. PICK m \in Nat, n \in Nat : m = a \div 2 /\ n = b \div 2
    BY Halves
  <2>2. m % 2 = n % 2 /\ m \div 2 = n \div 2
    BY <1>1, <1>7, <2>1, Halves
  <2> QED  BY <2>1, <2>2, SameHalves
<1>9. a \in Nat /\ b \in Nat
  OBVIOUS
<1> QED  BY <1>1, <1>8, <1>9, SameHalves

\* The code's polynomial is the generator without its highest coefficient.
LEMMA PolynomialIs ==
  /\ \A i \in 0 .. 31 : Polynomial[i] = Generator[i + 1] /\ Polynomial[i] \in Bit
  /\ Polynomial[31] = 1 /\ Generator[0] = 1
<1>1. /\ PowerOfTwo[1] = 1 /\ PowerOfTwo[2] = 2 /\ PowerOfTwo[3] = 4 /\ PowerOfTwo[4] = 8
      /\ PowerOfTwo[5] = 16 /\ PowerOfTwo[6] = 32 /\ PowerOfTwo[7] = 64
      /\ PowerOfTwo[8] = 128 /\ PowerOfTwo[9] = 256 /\ PowerOfTwo[10] = 512
      /\ PowerOfTwo[11] = 1024 /\ PowerOfTwo[12] = 2048 /\ PowerOfTwo[13] = 4096
      /\ PowerOfTwo[14] = 8192 /\ PowerOfTwo[15] = 16384 /\ PowerOfTwo[16] = 32768
  BY SMT DEF PowerOfTwo
<1>2. \A i \in 0 .. 15 : BitOf(33568, i) = IF i \in {5, 8, 9, 15} THEN 1 ELSE 0
  <2>1. \A i \in 0 .. 15 : i \in {0, 1, 2, 3, 4, 5, 6, 7, 8, 9, 10, 11, 12, 13, 14, 15}
    BY SMT
  <2> QED  BY <1>1, <2>1, SMT DEF BitOf
<1>3. \A i \in 0 .. 15 : BitOf(60856, i) = IF i \in {3, 4, 5, 7, 8, 10, 11, 13, 14, 15} THEN 1 ELSE 0
  <2>1. \A i \in 0 .. 15 : i \in {0, 1, 2, 3, 4, 5, 6, 7, 8, 9, 10, 11, 12, 13, 14, 15}
    BY SMT
  <2> QED  BY <1>1, <2>1, SMT DEF BitOf
<1>4. \A i \in 0 .. 31 : Polynomial[i] = IF i < 16 THEN BitOf(33568, i) ELSE BitOf(60856, i - 16)
  BY SMT DEF Polynomial, WordOf
<1>5. \A i \in 0 .. 31 : Polynomial[i] =
         IF i \in {5, 8, 9, 15, 19, 20, 21, 23, 24, 26, 27, 29, 30, 31} THEN 1 ELSE 0
  <2> SUFFICES ASSUME NEW i \in 0 .. 31
               PROVE  Polynomial[i] = IF i \in {5, 8, 9, 15, 19, 20, 21, 23, 24, 26, 27, 29, 30, 31}
                                        THEN 1 ELSE 0
    OBVIOUS
  <2>1. CASE i < 16
    <3>1. i \in 0 .. 15 /\ Polynomial[i] = BitOf(33568, i)
      BY <1>4, <2>1, SMT
    <3>2. BitOf(33568, i) = IF i \in {5, 8, 9, 15} THEN 1 ELSE 0
      BY <1>2, <3>1, SMT
    <3> HIDE DEF BitOf
    <3> QED  BY <2>1, <3>1, <3>2, SMT
  <2>2. CASE ~ (i < 16)
    <3>1. i - 16 \in 0 .. 15 /\ Polynomial[i] = BitOf(60856, i - 16)
      BY <1>4, <2>2, SMT
    <3>2. BitOf(60856, i - 16) = IF i - 16 \in {3, 4, 5, 7, 8, 10, 11, 13, 14, 15} THEN 1 ELSE 0
      BY <1>3, <3>1, SMT
    <3> QED  BY <2>2, <3>1, <3>2, SMT
  <2> QED  BY <2>1, <2>2
<1>6. \A i \in 0 .. 31 : Generator[i + 1] =
         IF i \in {5, 8, 9, 15, 19, 20, 21, 23, 24, 26, 27, 29, 30, 31} THEN 1 ELSE 0
  BY SMT DEF Generator
<1>7. Generator[0] = 1
  BY SMT DEF Generator
<1>8. Polynomial[31] = 1 /\ \A i \in 0 .. 31 : Polynomial[i] \in Bit
  BY <1>5, SMT DEF Bit
<1> QED  BY <1>5, <1>6, <1>7, <1>8, SMT

\* What a round does to a bit.
LEMMA RoundAt ==
  ASSUME NEW w \in Word
  PROVE  /\ Round(w) \in Word
         /\ Round(w)[31] = w[0]
         /\ \A i \in 0 .. 30 :
              Round(w)[i] = IF w[0] = 0 THEN w[i + 1] ELSE Xor(w[i + 1], Polynomial[i])
<1>1. \A i \in 0 .. 31 : w[i] \in Bit
  BY DEF Word
<1>2. (w[0] = 0 \/ w[0] = 1) /\ 0 \in Bit /\ 1 \in Bit
  BY <1>1 DEF Bit
<1>3. \A i \in 0 .. 31 : Polynomial[i] \in Bit /\ Polynomial[31] = 1
  BY PolynomialIs
<1>4. \A i \in 0 .. 30 : i + 1 \in 0 .. 31 /\ i \in 0 .. 31 /\ i # 31
  OBVIOUS
<1>5. \A i \in 0 .. 31 : i # 31 => i \in 0 .. 30
  OBVIOUS
<1>6. 31 \in 0 .. 31
  OBVIOUS
<1>7. \A i \in 0 .. 31 : ShiftRight(w)[i] = (IF i = 31 THEN 0 ELSE w[i + 1])
  BY DEF ShiftRight
<1>8. \A i \in 0 .. 31 : ShiftRight(w)[i] \in Bit
  BY <1>1, <1>2, <1>4, <1>5, <1>7
<1>9. ShiftRight(w) \in Word
  BY <1>8 DEF Word, ShiftRight
<1>10. CASE w[0] = 0
  <2>1. Round(w) = ShiftRight(w)
    BY <1>10 DEF Round
  <2> QED  BY <1>4, <1>6, <1>7, <1>9, <1>10, <2>1
<1>11. CASE w[0] = 1
  <2>1. Round(w) = [i \in 0 .. 31 |-> Xor(ShiftRight(w)[i], Polynomial[i])]
    BY <1>11 DEF Round
  <2>2. \A i \in 0 .. 31 : Xor(ShiftRight(w)[i], Polynomial[i]) \in Bit
    BY <1>3, <1>8, XorIs
  <2>3. Round(w) \in Word
    BY <2>1, <2>2 DEF Word
  <2>4. \A i \in 0 .. 31 : Round(w)[i] = Xor(ShiftRight(w)[i], Polynomial[i])
    BY <2>1
  <2>5. Round(w)[31] = 1
    BY <1>2, <1>3, <1>6, <1>7, <2>4, XorIs
  <2> QED  BY <1>4, <1>7, <1>11, <2>3, <2>4, <2>5
<1> QED  BY <1>2, <1>10, <1>11

\* Every bit of a text, and of the zeros after it, is a bit.
LEMMA BitAtType ==
  ASSUME NEW s \in Seq(Byte), NEW k \in Nat, k > 0
  PROVE  BitAt(s, k) \in Bit
<1>1. Len(s) \in Nat
  BY LenProperties
<1>2. CASE k > 8 * Len(s)
  BY <1>2 DEF BitAt, Bit
<1>3. CASE ~ (k > 8 * Len(s))
  <2>1. (k - 1) \div 8 + 1 \in 1 .. Len(s) /\ (k - 1) % 8 \in 0 .. 7
    BY <1>1, <1>3
  <2>2. PICK j, i : j = (k - 1) \div 8 + 1 /\ i = (k - 1) % 8
    OBVIOUS
  <2>3. s[j] \in Byte
    BY <2>1, <2>2, ElementOfSeq
  <2>4. BitAt(s, k) = BitOf(s[j], i)
    BY <1>3, <2>2 DEF BitAt
  <2> QED  BY <2>1, <2>2, <2>3, <2>4, BitOfType, ByteAssumption
<1> QED  BY <1>2, <1>3

----------------------------------------------------------------------------
(* The register bit by bit: the text enters at bit 0.                      *)

WithBit(w, b) == [i \in 0 .. 31 |-> IF i = 0 THEN Xor(w[0], b) ELSE w[i]]
Bits(s) == 8 * Len(s)
Serial(r, s) ==
  /\ r \in [0 .. Bits(s) -> Word]
  /\ r[0] = Start
  /\ \A k \in 1 .. Bits(s) : r[k] = Round(WithBit(r[k - 1], BitAt(s, k)))

\* What adding a bit does to a register.
LEMMA WithBitIs ==
  ASSUME NEW w \in Word, NEW b \in Bit
  PROVE  /\ WithBit(w, b) \in Word
         /\ WithBit(w, b)[0] = Xor(w[0], b)
         /\ \A i \in 1 .. 31 : WithBit(w, b)[i] = w[i]
<1>1. \A i \in 0 .. 31 : w[i] \in Bit
  BY DEF Word
<1>2. Xor(w[0], b) \in Bit
  BY <1>1, XorIs
<1> HIDE DEF WithBit
<1>3. \A i \in 0 .. 31 : WithBit(w, b)[i] = IF i = 0 THEN Xor(w[0], b) ELSE w[i]
  BY DEF WithBit
<1>4. WithBit(w, b) \in Word
  BY <1>1, <1>2 DEF WithBit, Word
<1> QED  BY <1>3, <1>4

\* A bit of the text, then a round: x decides what is added.
Step(w, b, v) == w \in Word /\ b \in Bit /\ v = Round(WithBit(w, b))
Stepped(w, x, v) ==
  /\ v \in Word /\ x \in Bit /\ v[31] = x
  /\ \A i \in 0 .. 30 : v[i] = IF x = 0 THEN w[i + 1] ELSE Xor(w[i + 1], Polynomial[i])

\* Every bit of the register after a step.
LEMMA StepAt ==
  ASSUME NEW w, NEW b, NEW v, Step(w, b, v)
  PROVE  Stepped(w, Xor(w[0], b), v)
<1>0. w \in Word /\ b \in Bit /\ v = Round(WithBit(w, b))
  BY DEF Step
<1>x. PICK x : x = Xor(w[0], b)
  OBVIOUS
<1>1. PICK u \in Word : u = WithBit(w, b)
  BY <1>0, WithBitIs
<1>2. u[0] = x /\ \A i \in 1 .. 31 : u[i] = w[i]
  BY <1>0, <1>1, <1>x, WithBitIs
<1>3. \A i \in 0 .. 30 : i + 1 \in 1 .. 31
  OBVIOUS
<1>4. w[0] \in Bit
  BY <1>0 DEF Word
<1>5. x \in Bit
  BY <1>0, <1>4, <1>x, XorIs
<1>6. v = Round(u)
  BY <1>0, <1>1
<1>7. /\ v \in Word /\ v[31] = u[0]
      /\ \A i \in 0 .. 30 : v[i] = IF u[0] = 0 THEN u[i + 1] ELSE Xor(u[i + 1], Polynomial[i])
  BY <1>6, RoundAt
<1>8. Stepped(w, x, v)
  BY <1>2, <1>3, <1>5, <1>7 DEF Stepped
<1> QED  BY <1>8, <1>x

\* A run takes a step for each bit.
LEMMA SerialSteps ==
  ASSUME NEW s \in Seq(Byte), NEW r, Serial(r, s), NEW k \in 1 .. Bits(s)
  PROVE  Step(r[k - 1], BitAt(s, k), r[k])
<1>1. Bits(s) \in Nat /\ k \in Nat /\ k > 0 /\ k - 1 \in 0 .. Bits(s)
  BY LenProperties DEF Bits
<1>2. BitAt(s, k) \in Bit
  BY <1>1, BitAtType
<1>3. r[k - 1] \in Word
  BY <1>1 DEF Serial
<1>4. r[k] = Round(WithBit(r[k - 1], BitAt(s, k)))
  BY DEF Serial
<1> QED  BY <1>2, <1>3, <1>4 DEF Step

----------------------------------------------------------------------------
(* The division, after k steps: nothing is left of the first k digits, the *)
(* next 32 are the register with what it has not read, the others are as   *)
(* they were.                                                              *)

Left(r, s, k) ==
  [i \in 1 .. Bits(s) + 32 |->
     IF i <= k THEN 0
     ELSE IF i <= k + 32 THEN Xor(r[k][i - k - 1], BitAt(s, i)) ELSE BitAt(s, i)]

\* Before the first step all of the dividend is left.
LEMMA LeftFirst ==
  ASSUME NEW s \in Seq(Byte), NEW r, Serial(r, s)
  PROVE  Left(r, s, 0) = Dividend(s)
<1>1. Bits(s) \in Nat
  BY LenProperties DEF Bits
<1>2. \A i \in 1 .. Bits(s) + 32 : BitAt(s, i) \in Bit
  BY <1>1, BitAtType
<1>3. \A i \in 0 .. 31 : r[0][i] = 1
  BY DEF Serial, Start, Ones
<1>4. \A b \in Bit : Xor(1, b) = 1 - b
  BY XorIs DEF Bit
<1>5. ASSUME NEW i \in 1 .. Bits(s) + 32
      PROVE  Left(r, s, 0)[i] = Dividend(s)[i]
  <2>1. CASE i <= 32
    <3>1. i - 0 - 1 \in 0 .. 31
      BY <1>1, <2>1
    <3>2. r[0][i - 0 - 1] = 1
      BY <1>3, <3>1
    <3>3. Left(r, s, 0)[i] = Xor(1, BitAt(s, i))
      BY <1>1, <2>1, <3>2 DEF Left
    <3>4. Dividend(s)[i] = 1 - BitAt(s, i)
      BY <2>1 DEF Dividend, Bits
    <3> QED  BY <1>2, <1>4, <3>3, <3>4
  <2>2. CASE ~ (i <= 32)
    <3>1. Left(r, s, 0)[i] = BitAt(s, i)
      BY <1>1, <2>2 DEF Left
    <3>2. Dividend(s)[i] = BitAt(s, i)
      BY <2>2 DEF Dividend, Bits
    <3> QED  BY <3>1, <3>2
  <2> QED  BY <2>1, <2>2
<1> QED  BY <1>5 DEF Left, Dividend, Bits

\* A step of the register is a step of the division.
LEMMA LeftNext ==
  ASSUME NEW s \in Seq(Byte), NEW r, Serial(r, s), NEW k \in 1 .. Bits(s)
  PROVE  Left(r, s, k) = Subtracted(Left(r, s, k - 1), k)
<1> DEFINE N == Bits(s) + 32
           d == Left(r, s, k - 1)
           c == Left(r, s, k)
           w == r[k - 1]
           v == r[k]
           b == BitAt(s, k)
           x == Xor(w[0], b)
<1>1. Bits(s) \in Nat /\ k \in Nat /\ k > 0 /\ k <= Bits(s) /\ k - 1 \in 0 .. Bits(s)
  BY LenProperties DEF Bits
<1>2. \A i \in 1 .. N : BitAt(s, i) \in Bit
  BY <1>1, BitAtType
<1>3. Step(w, b, v)
  BY SerialSteps
<1>4. /\ v \in Word /\ x \in Bit /\ v[31] = x
      /\ \A i \in 0 .. 30 : v[i] = IF x = 0 THEN w[i + 1] ELSE Xor(w[i + 1], Polynomial[i])
  <2> HIDE DEF w, b, v
  <2>1. Stepped(w, x, v)
    BY <1>3, StepAt
  <2> QED  BY <2>1 DEF Stepped
<1>5. \A i \in 0 .. 31 : w[i] \in Bit
  BY <1>3 DEF Step, Word
<1>6. /\ d[k] = x
      /\ \A i \in 1 .. N : i < k => d[i] = 0
      /\ \A i \in 1 .. N : k < i /\ i < k + 32 => d[i] = Xor(w[i - k], BitAt(s, i))
      /\ \A i \in 1 .. N : k + 32 <= i => d[i] = BitAt(s, i)
  <2>1. k \in 1 .. N
    BY <1>1
  <2>2. \A i \in 1 .. N : d[i] =
          IF i <= k - 1 THEN 0
          ELSE IF i <= k - 1 + 32 THEN Xor(w[i - (k - 1) - 1], BitAt(s, i)) ELSE BitAt(s, i)
    BY DEF Left
  <2>3. \A i \in 1 .. N : i - (k - 1) - 1 = i - k
    BY <1>1
  <2>4. k - k = 0
    BY <1>1
  <2> HIDE DEF d, w
  <2> QED  BY <1>1, <2>1, <2>2, <2>3, <2>4
<1>7. /\ \A i \in 1 .. N : i <= k => c[i] = 0
      /\ \A i \in 1 .. N : k < i /\ i <= k + 32 => c[i] = Xor(v[i - k - 1], BitAt(s, i))
      /\ \A i \in 1 .. N : k + 32 < i => c[i] = BitAt(s, i)
  <2>1. \A i \in 1 .. N : c[i] =
          IF i <= k THEN 0
          ELSE IF i <= k + 32 THEN Xor(v[i - k - 1], BitAt(s, i)) ELSE BitAt(s, i)
    BY DEF Left
  <2> HIDE DEF c, v
  <2> QED  BY <1>1, <2>1
<1>8. DOMAIN d = 1 .. N /\ DOMAIN c = 1 .. N /\ c = [i \in 1 .. N |-> c[i]]
      /\ d = [i \in 1 .. N |-> d[i]]
  BY DEF Left
<1>s. SUFFICES c = Subtracted(d, k)
  OBVIOUS
<1> HIDE DEF d, c, w, v, b, N, x
<1>9. x = 0 \/ x = 1
  BY <1>4 DEF Bit
<1>10. N \in Nat /\ Bits(s) + 32 = N
  BY <1>1 DEF N
<1>11. \A i \in 1 .. N : k < i /\ i <= k + 32 => i - k - 1 \in 0 .. 31 /\ i - k \in 1 .. 32
  BY <1>1, <1>10
<1>12. CASE x = 0
  <2>1. Subtracted(d, k) = d
    BY <1>6, <1>12 DEF Subtracted
  <2>2. ASSUME NEW i \in 1 .. N PROVE c[i] = d[i]
    <3>1. CASE i <= k
      BY <1>1, <1>6, <1>7, <1>10, <1>12, <3>1
    <3>2. CASE k < i /\ i < k + 32
      <4>1. i - k - 1 \in 0 .. 30 /\ (i - k - 1) + 1 = i - k
        BY <1>1, <1>10, <3>2
      <4>2. v[i - k - 1] = w[i - k]
        BY <1>4, <1>12, <4>1
      <4> QED  BY <1>6, <1>7, <1>1, <1>10, <3>2, <4>2
    <3>3. CASE i = k + 32
      <4>1. i - k - 1 = 31
        BY <1>1, <3>3
      <4>0. v[i - k - 1] = 0
        BY <1>4, <1>12, <4>1
      <4>2. c[i] = Xor(0, BitAt(s, i))
        BY <1>1, <1>7, <3>3, <4>0
      <4>3. Xor(0, BitAt(s, i)) = BitAt(s, i)
        BY <1>2, XorIs DEF Bit, N
      <4> QED  BY <1>1, <1>6, <3>3, <4>2, <4>3
    <3>4. CASE i > k + 32
      BY <1>1, <1>6, <1>7, <1>10, <3>4
    <3> QED  BY <1>1, <1>10, <3>1, <3>2, <3>3, <3>4
  <2> QED  BY <1>8, <2>1, <2>2
<1>13. CASE x = 1
  <2>1. Subtracted(d, k) =
          [i \in 1 .. N |-> IF i \in k .. k + 32 THEN Xor(d[i], Generator[i - k]) ELSE d[i]]
    BY <1>6, <1>8, <1>13 DEF Subtracted
  <2>2. ASSUME NEW i \in 1 .. N
        PROVE  c[i] = IF i \in k .. k + 32 THEN Xor(d[i], Generator[i - k]) ELSE d[i]
    <3>1. CASE i < k
      BY <1>1, <1>6, <1>7, <1>10, <3>1
    <3>2. CASE i = k
      <4>1. i - k = 0 /\ i \in k .. k + 32
        BY <1>1, <3>2
      <4>2. Xor(1, 1) = 0
        BY XorIs DEF Bit
      <4>3. d[i] = 1 /\ Generator[i - k] = 1
        BY <1>6, <1>13, <3>2, <4>1, PolynomialIs
      <4> QED  BY <1>1, <1>7, <3>2, <4>1, <4>2, <4>3
    <3>3. CASE k < i /\ i < k + 32
      <4>1. i - k - 1 \in 0 .. 30 /\ (i - k - 1) + 1 = i - k /\ i \in k .. k + 32
            /\ i - k - 1 \in 0 .. 31 /\ i - k \in 0 .. 31
        BY <1>1, <1>10, <3>3
      <4>2. PICK p \in Bit : p = Polynomial[i - k - 1] /\ p = Generator[i - k]
        BY <4>1, PolynomialIs
      <4>3. PICK y \in Bit : y = w[i - k]
        BY <1>5, <4>1
      <4>4. PICK z \in Bit : z = BitAt(s, i)
        BY <1>2 DEF N
      <4>5. v[i - k - 1] = Xor(y, p)
        <5>1. x # 0
          BY <1>13
        <5> QED  BY <1>4, <4>1, <4>2, <4>3, <5>1
      <4>6. c[i] = Xor(Xor(y, p), z)
        BY <1>1, <1>7, <1>10, <3>3, <4>4, <4>5
      <4>7. d[i] = Xor(y, z)
        BY <1>6, <3>3, <4>3, <4>4
      <4>8. Xor(Xor(y, p), z) = Xor(Xor(y, z), p)
        BY XorIs DEF Bit
      <4> QED  BY <4>1, <4>2, <4>6, <4>7, <4>8
    <3>4. CASE i = k + 32
      <4>1. i - k - 1 = 31 /\ i - k = 31 + 1 /\ i \in k .. k + 32 /\ 31 \in 0 .. 31
        BY <1>1, <3>4
      <4>2. Generator[i - k] = 1
        BY <4>1, PolynomialIs
      <4>0. v[i - k - 1] = 1
        BY <1>4, <1>13, <4>1
      <4>3. c[i] = Xor(1, BitAt(s, i))
        BY <1>1, <1>7, <3>4, <4>0
      <4>4. Xor(1, BitAt(s, i)) = Xor(BitAt(s, i), 1)
        BY <1>2, XorIs DEF Bit, N
      <4>5. d[i] = BitAt(s, i)
        BY <1>1, <1>6, <3>4
      <4> QED  BY <4>1, <4>2, <4>3, <4>4, <4>5
    <3>5. CASE i > k + 32
      BY <1>1, <1>6, <1>7, <1>10, <3>5
    <3> QED  BY <1>1, <1>10, <3>1, <3>2, <3>3, <3>4, <3>5
  <2> QED  BY <1>8, <2>1, <2>2
<1> QED  BY <1>9, <1>12, <1>13

\* The run of the division.
IsDivision(f, s) ==
  f = [k \in 0 .. Bits(s) |-> IF k = 0 THEN Dividend(s) ELSE Subtracted(f[k - 1], k)]

\* The run gives a division, and the only one.
LEMMA DivisionExists ==
  ASSUME NEW s \in Seq(Byte), NEW r, Serial(r, s)
  PROVE  IsDivision([k \in 0 .. Bits(s) |-> Left(r, s, k)], s)
<1> DEFINE f == [k \in 0 .. Bits(s) |-> Left(r, s, k)]
<1>1. \A k \in 0 .. Bits(s) : f[k] = Left(r, s, k)
  OBVIOUS
<1> HIDE DEF f
<1>2. Bits(s) \in Nat
  BY LenProperties DEF Bits
<1>3. ASSUME NEW k \in 0 .. Bits(s)
      PROVE  Left(r, s, k) = IF k = 0 THEN Dividend(s) ELSE Subtracted(f[k - 1], k)
  <2>1. CASE k = 0
    BY <2>1, LeftFirst
  <2>2. CASE k # 0
    <3>1. k \in 1 .. Bits(s) /\ k - 1 \in 0 .. Bits(s)
      BY <1>2, <2>2
    <3>2. f[k - 1] = Left(r, s, k - 1)
      BY <1>1, <3>1
    <3>3. Left(r, s, k) = Subtracted(Left(r, s, k - 1), k)
      BY <3>1, LeftNext
    <3> QED  BY <2>2, <3>2, <3>3
  <2> QED  BY <2>1, <2>2
<1>4. f = [k \in 0 .. Bits(s) |-> IF k = 0 THEN Dividend(s) ELSE Subtracted(f[k - 1], k)]
  BY <1>3 DEF f
<1> QED  BY <1>4 DEF IsDivision, f

LEMMA DivisionUnique ==
  ASSUME NEW s \in Seq(Byte), NEW r, Serial(r, s), NEW f, IsDivision(f, s),
         NEW n \in 0 .. Bits(s)
  PROVE  f[n] = Left(r, s, n)
<1> DEFINE Wrong == {k \in 0 .. Bits(s) : f[k] # Left(r, s, k)}
<1>1. SUFFICES ASSUME f[n] # Left(r, s, n) PROVE FALSE
  OBVIOUS
<1>2. Bits(s) \in Nat
  BY LenProperties DEF Bits
<1>3. Wrong \subseteq Nat /\ n \in Wrong
  BY <1>1, <1>2
<1>4. \A k \in Wrong : k \in 0 .. Bits(s) /\ f[k] # Left(r, s, k)
  OBVIOUS
<1>5. \A k \in 0 .. Bits(s) : k \notin Wrong => f[k] = Left(r, s, k)
  OBVIOUS
<1> HIDE DEF Wrong
<1>6. PICK k \in Wrong : \A j \in Wrong : k <= j
  BY <1>3, HasMin
<1>7. \A j \in 0 .. Bits(s) : f[j] = IF j = 0 THEN Dividend(s) ELSE Subtracted(f[j - 1], j)
  BY DEF IsDivision
<1>8. k # 0
  BY <1>4, <1>6, <1>7, LeftFirst
<1>9. k \in 1 .. Bits(s) /\ k - 1 \in 0 .. Bits(s) /\ ~ (k <= k - 1)
  BY <1>2, <1>4, <1>8
<1>10. f[k - 1] = Left(r, s, k - 1)
  BY <1>5, <1>6, <1>9
<1>11. f[k] = Subtracted(f[k - 1], k)
  BY <1>4, <1>7, <1>8
<1>12. Left(r, s, k) = Subtracted(Left(r, s, k - 1), k)
  BY <1>9, LeftNext
<1> QED  BY <1>4, <1>10, <1>11, <1>12

\* What is left of a whole text is the register.
LEMMA RemainderIs ==
  ASSUME NEW s \in Seq(Byte), NEW r, Serial(r, s)
  PROVE  RemainderOf(s) = r[Bits(s)]
<1> DEFINE f == CHOOSE f : IsDivision(f, s)
           n == Bits(s)
<1>1. n \in Nat
  BY LenProperties DEF Bits
<1>2. IsDivision(f, s)
  BY DivisionExists
<1>3. RemainderOf(s) = [i \in 0 .. 31 |-> f[n][n + 1 + i]]
  BY DEF RemainderOf, IsDivision, Bits
<1>4. n \in 0 .. Bits(s)
  BY <1>1
<1> HIDE DEF f
<1>5. f[n] = Left(r, s, n)
  BY <1>2, <1>4, DivisionUnique
<1>6. r[n] \in Word
  BY <1>4 DEF Serial
<1>7. ASSUME NEW i \in 0 .. 31 PROVE Left(r, s, n)[n + 1 + i] = r[n][i]
  <2>1. PICK j \in 1 .. n + 32 : j = n + 1 + i
    BY <1>1
  <2>2. j - n - 1 = i /\ ~ (j <= n) /\ j <= n + 32 /\ j > n
    BY <1>1, <2>1
  <2>3. BitAt(s, j) = 0
    BY <2>2 DEF BitAt, Bits
  <2>4. Left(r, s, n)[j] = Xor(r[n][i], 0)
    BY <2>1, <2>2, <2>3 DEF Left
  <2>5. r[n][i] \in Bit
    BY <1>6 DEF Word
  <2>6. Xor(r[n][i], 0) = r[n][i]
    BY <2>5, XorIs DEF Bit
  <2> QED  BY <2>1, <2>4, <2>6
<1>8. \A i \in 0 .. 31 : f[n][n + 1 + i] = r[n][i]
  BY <1>5, <1>7
<1>9. [i \in 0 .. 31 |-> f[n][n + 1 + i]] = [i \in 0 .. 31 |-> r[n][i]]
  BY <1>8
<1>10. r[n] = [i \in 0 .. 31 |-> r[n][i]]
  BY <1>6 DEF Word
<1> QED  BY <1>3, <1>9, <1>10

----------------------------------------------------------------------------
(* Eight rounds of a byte that was added at once are eight bits.           *)

\* After t of them the byte's other bits are still to come.
Pending(x, b, t) ==
  [i \in 0 .. 31 |-> IF i < 8 - t THEN Xor(x[i], BitOf(b, t + i)) ELSE x[i]]

Bitwise(v, w, b) ==
  /\ v \in [0 .. 8 -> Word] /\ v[0] = w
  /\ \A t \in 1 .. 8 : v[t] = Round(WithBit(v[t - 1], BitOf(b, t - 1)))

\* The bits of a register with a part of a byte to come.
LEMMA PendingAt ==
  ASSUME NEW x \in Word, NEW b \in 0 .. 255, NEW t \in 0 .. 8
  PROVE  /\ Pending(x, b, t) \in Word
         /\ \A i \in 0 .. 31 : Pending(x, b, t)[i] =
              IF i < 8 - t THEN Xor(x[i], BitOf(b, t + i)) ELSE x[i]
<1>1. \A i \in 0 .. 31 : i < 8 - t => t + i \in 0 .. 7
  OBVIOUS
<1>2. \A i \in 0 .. 31 : x[i] \in Bit
  BY DEF Word
<1>3. \A i \in 0 .. 31 : i < 8 - t => Xor(x[i], BitOf(b, t + i)) \in Bit
  BY <1>1, <1>2, XorIs, BitOfType
<1> QED  BY <1>2, <1>3 DEF Pending, Word

\* A round of the loop is a step with the next bit of the byte.
LEMMA PendingNext ==
  ASSUME NEW x \in Word, NEW b \in 0 .. 255, NEW t \in 0 .. 7
  PROVE  Round(Pending(x, b, t)) = Pending(Round(WithBit(x, BitOf(b, t))), b, t + 1)
<1>0. t \in 0 .. 8
  OBVIOUS
<1>1. PICK u \in Word : u = Pending(x, b, t)
  BY <1>0, PendingAt
<1>2. \A i \in 0 .. 31 : u[i] = IF i < 8 - t THEN Xor(x[i], BitOf(b, t + i)) ELSE x[i]
  BY <1>1 DEF Pending
<1>3. BitOf(b, t) \in Bit
  BY BitOfType
<1>4. PICK v : v = Round(WithBit(x, BitOf(b, t)))
  OBVIOUS
<1>5. Step(x, BitOf(b, t), v)
  BY <1>3, <1>4 DEF Step
<1>6. PICK y : y = Xor(x[0], BitOf(b, t))
  OBVIOUS
<1>7. Stepped(x, y, v)
  BY <1>5, <1>6, StepAt
<1>8. u[0] = y
  <2>1. 0 < 8 - t /\ t + 0 = t /\ 0 \in 0 .. 31
    OBVIOUS
  <2> QED  BY <1>2, <1>6, <2>1
<1>9. PICK z \in Word : z = Round(u)
  BY RoundAt
<1>10. /\ z[31] = y
       /\ \A i \in 0 .. 30 : z[i] = IF y = 0 THEN u[i + 1] ELSE Xor(u[i + 1], Polynomial[i])
  BY <1>8, <1>9, RoundAt
<1>11. PICK q \in Word : q = Pending(v, b, t + 1)
  <2>1. t + 1 \in 0 .. 8 /\ v \in Word
    BY <1>7 DEF Stepped
  <2> QED  BY <2>1, PendingAt
<1>12. \A i \in 0 .. 31 : q[i] = IF i < 8 - (t + 1) THEN Xor(v[i], BitOf(b, t + 1 + i)) ELSE v[i]
  BY <1>11 DEF Pending
<1>13. ASSUME NEW i \in 0 .. 31 PROVE q[i] = z[i]
  <2>1. CASE i = 31
    <3>1. ~ (i < 8 - (t + 1))
      BY <2>1
    <3>2. q[i] = v[i] /\ v[31] = y
      BY <1>7, <1>12, <3>1 DEF Stepped
    <3> QED  BY <1>10, <2>1, <3>2
  <2>2. CASE i # 31
    <3>1. i \in 0 .. 30 /\ i + 1 \in 0 .. 31
      BY <2>2
    <3>2. PICK p \in Bit : p = Polynomial[i]
      BY PolynomialIs
    <3>3. PICK a \in Bit : a = x[i + 1]
      BY <3>1 DEF Word
    <3>4. v[i] = IF y = 0 THEN a ELSE Xor(a, p)
      BY <1>7, <3>1, <3>2, <3>3 DEF Stepped
    <3>5. z[i] = IF y = 0 THEN u[i + 1] ELSE Xor(u[i + 1], p)
      BY <1>10, <3>1, <3>2
    <3>6. CASE i < 8 - (t + 1)
      <4>1. i + 1 < 8 - t /\ t + 1 + i \in 0 .. 7 /\ t + (i + 1) = t + 1 + i
        BY <3>6
      <4>2. PICK c \in Bit : c = BitOf(b, t + 1 + i)
        BY <4>1, BitOfType
      <4>3. u[i + 1] = Xor(a, c)
        BY <1>2, <3>1, <3>3, <4>1, <4>2
      <4>4. q[i] = Xor(v[i], c)
        BY <1>12, <3>6, <4>2
      <4>5. Xor(Xor(a, c), p) = Xor(Xor(a, p), c)
        BY XorIs DEF Bit
      <4> QED  BY <3>4, <3>5, <4>3, <4>4, <4>5
    <3>7. CASE ~ (i < 8 - (t + 1))
      <4>1. ~ (i + 1 < 8 - t)
        BY <3>7
      <4>2. u[i + 1] = a
        BY <1>2, <3>1, <3>3, <4>1
      <4>3. q[i] = v[i]
        BY <1>12, <3>7
      <4> QED  BY <3>4, <3>5, <4>2, <4>3
    <3> QED  BY <3>6, <3>7
  <2> QED  BY <2>1, <2>2
<1>14. q = z
  BY <1>13 DEF Word
<1> QED  BY <1>1, <1>4, <1>9, <1>11, <1>14

\* The inner loop.
IsTurns(f, w, b) ==
  f = [n \in 0 .. 8 |-> IF n = 0 THEN Mixed(w, b) ELSE Round(f[n - 1])]

\* At first all of the byte is to come.
LEMMA MixedIs ==
  ASSUME NEW w \in Word, NEW b \in 0 .. 255
  PROVE  Mixed(w, b) = Pending(w, b, 0)
<1>1. 8 - 0 = 8 /\ \A i \in 0 .. 31 : 0 + i = i
  OBVIOUS
<1> QED  BY <1>1 DEF Mixed, Pending

\* The inner loop is eight steps.
LEMMA TurnsAre ==
  ASSUME NEW w \in Word, NEW b \in 0 .. 255, NEW v, Bitwise(v, w, b)
  PROVE  /\ IsTurns([n \in 0 .. 8 |-> Pending(v[n], b, n)], w, b)
         /\ \A f : IsTurns(f, w, b) => f[8] = v[8]
<1> DEFINE g == [n \in 0 .. 8 |-> Pending(v[n], b, n)]
<1>1. Pending(v[0], b, 0) = Mixed(w, b)
  BY MixedIs DEF Bitwise
<1>2. ASSUME NEW n \in 1 .. 8
      PROVE  Pending(v[n], b, n) = Round(Pending(v[n - 1], b, n - 1))
  <2>1. n - 1 \in 0 .. 7 /\ (n - 1) + 1 = n /\ v[n - 1] \in Word
    BY DEF Bitwise
  <2>2. v[n] = Round(WithBit(v[n - 1], BitOf(b, n - 1)))
    BY DEF Bitwise
  <2> QED  BY <2>1, <2>2, PendingNext
<1>3. \A n \in 0 .. 8 : g[n] = Pending(v[n], b, n)
  OBVIOUS
<1>4. g = [n \in 0 .. 8 |-> g[n]]
  OBVIOUS
<1> HIDE DEF g
<1>5. ASSUME NEW n \in 0 .. 8
      PROVE  g[n] = IF n = 0 THEN Mixed(w, b) ELSE Round(g[n - 1])
  <2>1. CASE n = 0
    BY <1>1, <1>3, <2>1
  <2>2. CASE n # 0
    <3>1. n \in 1 .. 8 /\ n - 1 \in 0 .. 8
      BY <2>2
    <3>2. g[n] = Pending(v[n], b, n) /\ g[n - 1] = Pending(v[n - 1], b, n - 1)
      BY <1>3, <3>1
    <3> QED  BY <1>2, <2>2, <3>1, <3>2
  <2> QED  BY <2>1, <2>2
<1>6. IsTurns(g, w, b)
  BY <1>4, <1>5 DEF IsTurns
<1>7. ASSUME NEW f, IsTurns(f, w, b) PROVE f[8] = g[8]
  <2>1. \A n \in 0 .. 8 : f[n] = IF n = 0 THEN Mixed(w, b) ELSE Round(f[n - 1])
    BY <1>7 DEF IsTurns
  <2>2. f[0] = g[0]
    BY <1>5, <2>1
  <2>3. \A n \in 1 .. 8 : f[n] = Round(f[n - 1]) /\ g[n] = Round(g[n - 1])
    BY <1>5, <2>1
  <2>4. /\ 1 - 1 = 0 /\ 2 - 1 = 1 /\ 3 - 1 = 2 /\ 4 - 1 = 3
        /\ 5 - 1 = 4 /\ 6 - 1 = 5 /\ 7 - 1 = 6 /\ 8 - 1 = 7
    OBVIOUS
  <2>5. f[1] = g[1] /\ f[2] = g[2]
    BY <2>2, <2>3, <2>4
  <2>6. f[3] = g[3] /\ f[4] = g[4]
    BY <2>3, <2>4, <2>5
  <2>7. f[5] = g[5] /\ f[6] = g[6]
    BY <2>3, <2>4, <2>6
  <2> QED  BY <2>3, <2>4, <2>7
<1>8. g[8] = v[8]
  <2>1. g[8] = Pending(v[8], b, 8)
    BY <1>3
  <2>2. v[8] \in Word
    BY DEF Bitwise
  <2>3. \A i \in 0 .. 31 : ~ (i < 8 - 8)
    OBVIOUS
  <2>4. v[8] = [i \in 0 .. 31 |-> v[8][i]]
    BY <2>2 DEF Word
  <2>5. Pending(v[8], b, 8) = [i \in 0 .. 31 |-> v[8][i]]
    BY <2>3 DEF Pending
  <2> QED  BY <2>1, <2>4, <2>5
<1> QED  BY <1>6, <1>7, <1>8 DEF g

\* So is the body of the outer loop.
LEMMA Eaten ==
  ASSUME NEW w \in Word, NEW b \in 0 .. 255, NEW v, Bitwise(v, w, b)
  PROVE  Eat(w, b) = v[8]
<1> DEFINE f == CHOOSE f : IsTurns(f, w, b)
<1>1. IsTurns(f, w, b)
  BY TurnsAre
<1>2. Eat(w, b) = f[8]
  BY DEF Eat, IsTurns
<1>3. \A g : IsTurns(g, w, b) => g[8] = v[8]
  BY TurnsAre
<1> HIDE DEF f
<1> QED  BY <1>1, <1>2, <1>3

\* Eight bits can always be read.
LEMMA BitwiseExists ==
  ASSUME NEW w \in Word, NEW b \in 0 .. 255
  PROVE  \E v : Bitwise(v, w, b)
<1>1. ASSUME NEW x \in Word, NEW i \in 0 .. 7
      PROVE  Round(WithBit(x, BitOf(b, i))) \in Word
  <2>1. BitOf(b, i) \in Bit
    BY BitOfType
  <2> QED  BY <2>1, WithBitIs, RoundAt
<1>2. /\ 0 \in 0 .. 7 /\ 1 \in 0 .. 7 /\ 2 \in 0 .. 7 /\ 3 \in 0 .. 7
      /\ 4 \in 0 .. 7 /\ 5 \in 0 .. 7 /\ 6 \in 0 .. 7 /\ 7 \in 0 .. 7
  OBVIOUS
<1> DEFINE R(x, i) == Round(WithBit(x, BitOf(b, i)))
<1>3. \A x \in Word, i \in 0 .. 7 : R(x, i) \in Word
  BY <1>1
<1> HIDE DEF R
<1>4. PICK v1 \in Word : v1 = R(w, 0)
  BY <1>2, <1>3
<1>5. PICK v2 \in Word : v2 = R(v1, 1)
  BY <1>2, <1>3
<1>6. PICK v3 \in Word : v3 = R(v2, 2)
  BY <1>2, <1>3
<1>7. PICK v4 \in Word : v4 = R(v3, 3)
  BY <1>2, <1>3
<1>8. PICK v5 \in Word : v5 = R(v4, 4)
  BY <1>2, <1>3
<1>9. PICK v6 \in Word : v6 = R(v5, 5)
  BY <1>2, <1>3
<1>10. PICK v7 \in Word : v7 = R(v6, 6)
  BY <1>2, <1>3
<1>11. PICK v8 \in Word : v8 = R(v7, 7)
  BY <1>2, <1>3
<1> DEFINE u(t) == IF t = 0 THEN w ELSE IF t = 1 THEN v1 ELSE IF t = 2 THEN v2
                   ELSE IF t = 3 THEN v3 ELSE IF t = 4 THEN v4 ELSE IF t = 5 THEN v5
                   ELSE IF t = 6 THEN v6 ELSE IF t = 7 THEN v7 ELSE v8
           v == [t \in 0 .. 8 |-> u(t)]
<1>12. \A t \in 0 .. 8 : u(t) \in Word
  OBVIOUS
<1>13. v \in [0 .. 8 -> Word]
  BY <1>12
<1>14. v[0] = w
  OBVIOUS
<1>15. \A t \in 1 .. 8 : u(t) = R(u(t - 1), t - 1)
  <2>1. \A t \in 1 .. 8 : t \in {1, 2, 3, 4, 5, 6, 7, 8}
    OBVIOUS
  <2>2. /\ u(1) = R(u(0), 0) /\ u(2) = R(u(1), 1) /\ u(3) = R(u(2), 2) /\ u(4) = R(u(3), 3)
        /\ u(5) = R(u(4), 4) /\ u(6) = R(u(5), 5) /\ u(7) = R(u(6), 6) /\ u(8) = R(u(7), 7)
    BY <1>4, <1>5, <1>6, <1>7, <1>8, <1>9, <1>10, <1>11
  <2>3. /\ 1 - 1 = 0 /\ 2 - 1 = 1 /\ 3 - 1 = 2 /\ 4 - 1 = 3
        /\ 5 - 1 = 4 /\ 6 - 1 = 5 /\ 7 - 1 = 6 /\ 8 - 1 = 7
    OBVIOUS
  <2> HIDE DEF u
  <2> QED  BY <2>1, <2>2, <2>3
<1>16. \A t \in 0 .. 8 : v[t] = u(t)
  OBVIOUS
<1> HIDE DEF v, u
<1>17. \A t \in 1 .. 8 : v[t] = R(v[t - 1], t - 1)
  <2>1. \A t \in 1 .. 8 : t \in 0 .. 8 /\ t - 1 \in 0 .. 8
    OBVIOUS
  <2> QED  BY <1>15, <1>16, <2>1
<1> QED  BY <1>13, <1>14, <1>17 DEF Bitwise, R

\* The bits of a text, one by one, lead to a register.
Leads(s, c) == \E r : Serial(r, s) /\ r[Bits(s)] = c

\* One more byte is eight more bits.
LEMMA SerialNext ==
  ASSUME NEW s \in Seq(Byte), NEW c, Leads(s, c), NEW b \in Byte,
         NEW s2, s2 = Append(s, b)
  PROVE  Leads(s2, Eat(c, b))
<1>0. PICK r : Serial(r, s) /\ r[Bits(s)] = c
  BY DEF Leads
<1> DEFINE n == Bits(s)
<1>1. Len(s) \in Nat /\ n \in Nat /\ n = 8 * Len(s)
  BY LenProperties DEF Bits
<1>2. s2 \in Seq(Byte) /\ Len(s2) = Len(s) + 1 /\ Bits(s2) = n + 8
  BY AppendProperties DEF Bits
<1>3. b \in 0 .. 255
  BY ByteAssumption
<1>4. r[n] \in Word
  BY <1>0, <1>1 DEF Serial
<1>5. PICK v : Bitwise(v, r[n], b)
  BY <1>3, <1>4, BitwiseExists
<1>6. Eat(r[n], b) = v[8]
  BY <1>3, <1>4, <1>5, Eaten
<1>7. \A k \in 1 .. n : BitAt(s2, k) = BitAt(s, k)
  <2> SUFFICES ASSUME NEW k \in 1 .. n PROVE BitAt(s2, k) = BitAt(s, k)
    OBVIOUS
  <2>1. PICK j, i : j = (k - 1) \div 8 + 1 /\ i = (k - 1) % 8
    OBVIOUS
  <2>2. j \in 1 .. Len(s) /\ ~ (k > 8 * Len(s)) /\ ~ (k > 8 * Len(s2))
    BY <1>1, <1>2, <2>1
  <2>3. s2[j] = s[j]
    BY <2>2, AppendProperties
  <2> QED  BY <2>1, <2>2, <2>3 DEF BitAt
<1>8. \A t \in 1 .. 8 : BitAt(s2, n + t) = BitOf(b, t - 1)
  <2> SUFFICES ASSUME NEW t \in 1 .. 8 PROVE BitAt(s2, n + t) = BitOf(b, t - 1)
    OBVIOUS
  <2>1. PICK l \in Nat : l = Len(s) /\ n = 8 * l /\ Len(s2) = l + 1
    BY <1>1, <1>2
  <2>2. PICK j, i, m : j = (m - 1) \div 8 + 1 /\ i = (m - 1) % 8 /\ m = 8 * l + t
    OBVIOUS
  <2>3. j = l + 1 /\ i = t - 1 /\ ~ (m > 8 * (l + 1))
    BY <2>2
  <2>4. s2[l + 1] = b
    BY <2>1, AppendProperties
  <2>5. BitAt(s2, m) = BitOf(s2[j], i)
    BY <2>1, <2>2, <2>3 DEF BitAt
  <2>6. n + t = m
    BY <2>1, <2>2
  <2> QED  BY <2>3, <2>4, <2>5, <2>6
<1> DEFINE u(k) == IF k <= n THEN r[k] ELSE v[k - n]
           q == [k \in 0 .. n + 8 |-> u(k)]
<1>9. \A k \in 0 .. n + 8 : u(k) \in Word
  <2>1. \A k \in 0 .. n : r[k] \in Word
    BY <1>0 DEF Serial
  <2>2. \A k \in 0 .. n + 8 : k <= n => k \in 0 .. n
    BY <1>1
  <2>3. \A k \in 0 .. n + 8 : ~ (k <= n) => k - n \in 0 .. 8
    BY <1>1
  <2>4. \A t \in 0 .. 8 : v[t] \in Word
    BY <1>5 DEF Bitwise
  <2> QED  BY <2>1, <2>2, <2>3, <2>4
<1>10. u(0) = Start
  BY <1>0, <1>1 DEF Serial
<1>11. \A k \in 1 .. n + 8 : u(k) = Round(WithBit(u(k - 1), BitAt(s2, k)))
  <2> SUFFICES ASSUME NEW k \in 1 .. n + 8
               PROVE  u(k) = Round(WithBit(u(k - 1), BitAt(s2, k)))
    OBVIOUS
  <2>1. CASE k <= n
    <3>1. k \in 1 .. n /\ k - 1 <= n
      BY <1>1, <2>1
    <3>2. r[k] = Round(WithBit(r[k - 1], BitAt(s, k)))
      BY <1>0, <3>1 DEF Serial
    <3> QED  BY <1>7, <2>1, <3>1, <3>2
  <2>2. CASE ~ (k <= n)
    <3>1. PICK t \in 1 .. 8 : t = k - n /\ k = n + t /\ t - 1 = (k - 1) - n
      <4>1. k - n \in 1 .. 8 /\ k = n + (k - n) /\ (k - n) - 1 = (k - 1) - n
        <5>1. PICK m \in Nat : m = n
          BY <1>1
        <5>2. k \in 1 .. m + 8 /\ ~ (k <= m)
          BY <2>2, <5>1
        <5>3. k - m \in 1 .. 8 /\ k = m + (k - m) /\ (k - m) - 1 = (k - 1) - m
          BY <5>2
        <5> QED  BY <5>1, <5>3
      <4> QED  BY <4>1
    <3>2. v[t] = Round(WithBit(v[t - 1], BitOf(b, t - 1)))
      BY <1>5 DEF Bitwise
    <3>3. BitAt(s2, k) = BitOf(b, t - 1)
      BY <1>8, <3>1
    <3>4. u(k) = v[t]
      BY <2>2, <3>1
    <3>5. u(k - 1) = v[t - 1]
      <4>1. CASE t = 1
        <5>1. k - 1 = n /\ t - 1 = 0
          BY <1>1, <3>1, <4>1
        <5>2. v[0] = r[n]
          BY <1>5 DEF Bitwise
        <5> QED  BY <1>1, <5>1, <5>2
      <4>2. CASE t # 1
        <5>1. ~ (k - 1 <= n)
          BY <1>1, <3>1, <4>2
        <5> QED  BY <3>1, <5>1
      <4> QED  BY <4>1, <4>2
    <3> HIDE DEF u
    <3> QED  BY <3>2, <3>3, <3>4, <3>5
  <2> QED  BY <2>1, <2>2
<1>12. u(n + 8) = v[8]
  <2>1. ~ (n + 8 <= n) /\ (n + 8) - n = 8
    BY <1>1
  <2> QED  BY <2>1
<1>13. \A k \in 0 .. n + 8 : q[k] = u(k)
  OBVIOUS
<1> HIDE DEF u
<1>14. q \in [0 .. n + 8 -> Word]
  BY <1>9
<1> HIDE DEF q
<1>15. Serial(q, s2)
  <2>1. 0 \in 0 .. n + 8 /\ \A k \in 1 .. n + 8 : k \in 0 .. n + 8 /\ k - 1 \in 0 .. n + 8
    BY <1>1
  <2>2. \A k \in 1 .. n + 8 : q[k] = Round(WithBit(q[k - 1], BitAt(s2, k)))
    BY <1>11, <1>13, <2>1
  <2>3. q[0] = Start
    BY <1>10, <1>13, <2>1
  <2> HIDE DEF n
  <2> QED  BY <1>2, <1>14, <2>2, <2>3 DEF Serial
<1>16. q[Bits(s2)] = Eat(r[n], b)
  <2>1. n + 8 \in 0 .. n + 8
    BY <1>1
  <2> QED  BY <1>2, <1>6, <1>12, <1>13, <2>1
<1> QED  BY <1>0, <1>1, <1>15, <1>16 DEF Leads

----------------------------------------------------------------------------
(* Any text.                                                               *)

\* Each register is that of the bits of its text, in order.
CrcInv ==
  /\ bytes \in [Who -> Seq(Byte)]
  /\ Len(bytes["ours"]) = Len(bytes["theirs"])
  /\ \A w \in Who : Leads(bytes[w], crc[w])

LEMMA CrcInitially == CrcInit => CrcInv
<1> SUFFICES ASSUME CrcInit PROVE CrcInv
  OBVIOUS
<1>1. /\ \A w \in Who : bytes[w] = <<>> /\ crc[w] = Start
      /\ bytes \in [Who -> Seq(Byte)]
  BY DEF CrcInit
<1>2. "ours" \in Who /\ "theirs" \in Who
  BY DEF Who
<1>3. Bits(<<>>) = 0
  BY DEF Bits
<1>4. Start \in Word
  BY DEF Start, Ones, Word, Bit
<1>5. Leads(<<>>, Start)
  <2> DEFINE r == [k \in 0 .. 0 |-> Start]
  <2>1. r \in [0 .. 0 -> Word] /\ r[0] = Start
    BY <1>4
  <2>2. \A k \in 1 .. 0 : FALSE
    OBVIOUS
  <2> HIDE DEF r
  <2>3. Serial(r, <<>>)
    BY <1>3, <2>1, <2>2 DEF Serial
  <2> QED  BY <1>3, <2>1, <2>3 DEF Leads
<1> QED  BY <1>1, <1>2, <1>5 DEF CrcInv

LEMMA CrcPreserved == CrcInv /\ [CrcNext]_crcVars => CrcInv'
<1> SUFFICES ASSUME CrcInv, [CrcNext]_crcVars PROVE CrcInv'
  OBVIOUS
<1>1. CASE CrcNext
  <2>1. PICK b \in [Who -> Byte] :
          /\ bytes' = [w \in Who |-> Append(bytes[w], b[w])]
          /\ crc' = [w \in Who |-> Eat(crc[w], b[w])]
    BY <1>1 DEF CrcNext
  <2>2. \A w \in Who : /\ bytes[w] \in Seq(Byte) /\ b[w] \in Byte
                       /\ bytes'[w] = Append(bytes[w], b[w]) /\ crc'[w] = Eat(crc[w], b[w])
    BY <2>1 DEF CrcInv
  <2>3. ASSUME NEW w \in Who
        PROVE  bytes'[w] \in Seq(Byte) /\ Len(bytes'[w]) = Len(bytes[w]) + 1
    <3>1. PICK s \in Seq(Byte), c \in Byte : s = bytes[w] /\ c = b[w]
      BY <2>2
    <3>2. Append(s, c) \in Seq(Byte) /\ Len(Append(s, c)) = Len(s) + 1
      BY AppendProperties
    <3> QED  BY <2>2, <3>1, <3>2
  <2>4. bytes' \in [Who -> Seq(Byte)]
    BY <2>1, <2>3
  <2>5. Len(bytes'["ours"]) = Len(bytes'["theirs"])
    <3>1. "ours" \in Who /\ "theirs" \in Who
      BY DEF Who
    <3> QED  BY <2>3, <3>1 DEF CrcInv
  <2>6. ASSUME NEW w \in Who
        PROVE  Leads(bytes'[w], crc'[w])
    <3>1. PICK s \in Seq(Byte), c \in Byte : s = bytes[w] /\ c = b[w]
      BY <2>2
    <3>2. Leads(s, crc[w])
      BY <3>1 DEF CrcInv
    <3>3. PICK s2 : s2 = Append(s, c)
      OBVIOUS
    <3>4. Leads(s2, Eat(crc[w], c))
      BY <3>2, <3>3, SerialNext
    <3> QED  BY <2>2, <3>1, <3>3, <3>4
  <2> QED  BY <2>4, <2>5, <2>6 DEF CrcInv
<1>2. CASE UNCHANGED crcVars
  BY <1>2 DEF crcVars, CrcInv
<1> QED  BY <1>1, <1>2

LEMMA CrcInvariant == CrcSpec => []CrcInv
  BY CrcInitially, CrcPreserved, PTL DEF CrcSpec

\* crc32 is the remainder of the division that defines the checksum, for every
\* text (checksum.rs, crc32).
THEOREM ChecksumIsRemainder == CrcSpec => []IsRemainder
<1>1. CrcInv => IsRemainder
  <2> SUFFICES ASSUME CrcInv, NEW w \in Who PROVE Crc32(crc[w]) = Reference(bytes[w])
    BY DEF IsRemainder
  <2>1. PICK r : Serial(r, bytes[w]) /\ r[Bits(bytes[w])] = crc[w]
    BY DEF CrcInv, Leads
  <2>2. bytes[w] \in Seq(Byte)
    BY DEF CrcInv
  <2>3. RemainderOf(bytes[w]) = crc[w]
    BY <2>1, <2>2, RemainderIs
  <2> QED  BY <2>3 DEF Crc32, Reference
<1> QED  BY <1>1, CrcInvariant, PTL

----------------------------------------------------------------------------
(* Bursts.  The highest bit of a register tells what was added in the last *)
(* round, so a round can be undone from the bits that are known.           *)

Alike(v, w, p) == \A i \in 0 .. 31 : i >= p => v[i] = w[i]

\* What is known of two registers after a step is known of one bit less before it.
LEMMA Backwards ==
  ASSUME NEW w, NEW a, NEW v, Step(w, a, v), NEW w2, NEW a2, NEW v2, Step(w2, a2, v2),
         NEW p \in Int, p <= 31, Alike(v, v2, p), p < 0 => a = a2
  PROVE  Alike(w, w2, p + 1)
<1>1. /\ w \in Word /\ a \in Bit /\ w2 \in Word /\ a2 \in Bit
  BY DEF Step
<1>2. PICK x, x2 : x = Xor(w[0], a) /\ x2 = Xor(w2[0], a2)
  OBVIOUS
<1>3. Stepped(w, x, v) /\ Stepped(w2, x2, v2)
  BY <1>2, StepAt
<1>4. x = x2
  BY <1>3 DEF Stepped, Alike
<1>5. \A i \in 0 .. 31 : w[i] \in Bit /\ w2[i] \in Bit
  BY <1>1 DEF Word
<1> SUFFICES ASSUME NEW i \in 0 .. 31, i >= p + 1 PROVE w[i] = w2[i]
  BY DEF Alike
<1>6. CASE i = 0
  <2>1. a = a2
    BY <1>6
  <2>2. PICK y \in Bit, z \in Bit : y = w[0] /\ z = w2[0]
    BY <1>5
  <2>3. Xor(y, a) = Xor(z, a)
    BY <1>2, <1>4, <2>1, <2>2
  <2> QED  BY <1>1, <1>6, <2>2, <2>3, XorIs DEF Bit
<1>7. CASE i # 0
  <2>1. PICK j \in 0 .. 30 : j = i - 1 /\ j + 1 = i /\ j >= p /\ j \in 0 .. 31
    <3>1. i - 1 \in 0 .. 30 /\ (i - 1) + 1 = i /\ i - 1 >= p /\ i - 1 \in 0 .. 31
      BY <1>7
    <3> QED  BY <3>1
  <2>2. PICK y \in Bit, z \in Bit : y = w[i] /\ z = w2[i]
    BY <1>5
  <2>3. PICK c \in Bit : c = Polynomial[j]
    BY <2>1, PolynomialIs
  <2>4. v[j] = v2[j]
    BY <2>1 DEF Alike
  <2>5. /\ v[j] = IF x = 0 THEN y ELSE Xor(y, c)
        /\ v2[j] = IF x = 0 THEN z ELSE Xor(z, c)
    BY <1>3, <1>4, <2>1, <2>2, <2>3 DEF Stepped
  <2>6. Xor(y, c) = Xor(z, c) => y = z
    BY XorIs DEF Bit
  <2> QED  BY <2>2, <2>4, <2>5, <2>6
<1> QED  BY <1>6, <1>7

\* The first bit in which two texts differ; all others are less than 32 after it.
FirstBit(s, t, g) ==
  /\ g \in 1 .. Bits(s)
  /\ BitAt(s, g) # BitAt(t, g)
  /\ \A k \in 1 .. Bits(s) : BitAt(s, k) # BitAt(t, k) => g <= k /\ k <= g + 31

\* Registers that agree in the end agree back to the first difference in the
\* bits that the differences have not reached.
LEMMA BurstDistinguishes ==
  ASSUME NEW s \in Seq(Byte), NEW t \in Seq(Byte), Bits(t) = Bits(s),
         NEW c, NEW d, Leads(s, c), Leads(t, d), NEW g, FirstBit(s, t, g)
  PROVE  c # d
<1> SUFFICES ASSUME c = d PROVE FALSE
  OBVIOUS
<1>1. PICK r : Serial(r, s) /\ r[Bits(s)] = c
  BY DEF Leads
<1>2. PICK q : Serial(q, t) /\ q[Bits(t)] = d
  BY DEF Leads
<1>3. PICK n \in Nat : n = Bits(s) /\ n = Bits(t)
  BY LenProperties DEF Bits
<1>4. \A k \in 1 .. n : Step(r[k - 1], BitAt(s, k), r[k]) /\ Step(q[k - 1], BitAt(t, k), q[k])
  BY <1>1, <1>2, <1>3, SerialSteps
<1>5. r[0] = q[0] /\ r[n] = q[n]
  BY <1>1, <1>2, <1>3 DEF Serial
<1>6. /\ g \in 1 .. n /\ BitAt(s, g) # BitAt(t, g)
      /\ \A k \in 1 .. n : BitAt(s, k) # BitAt(t, k) => g <= k /\ k <= g + 31
  BY <1>3 DEF FirstBit
<1>7. r[g - 1] = q[g - 1]
  <2> DEFINE Wrong == {k \in 0 .. g - 1 : r[k] # q[k]}
  <2> SUFFICES ASSUME r[g - 1] # q[g - 1] PROVE FALSE
    OBVIOUS
  <2>1. Wrong \subseteq Nat /\ g - 1 \in Wrong
    BY <1>6
  <2>2. \A k \in Wrong : k \in 0 .. g - 1 /\ r[k] # q[k]
    OBVIOUS
  <2>3. \A k \in 0 .. g - 1 : k \notin Wrong => r[k] = q[k]
    OBVIOUS
  <2> HIDE DEF Wrong
  <2>4. PICK k \in Wrong : \A j \in Wrong : k <= j
    BY <2>1, HasMin
  <2>5. k # 0 /\ k \in 0 .. g - 1
    BY <1>5, <2>2, <2>4
  <2>6. k \in 1 .. n /\ k - 1 \in 0 .. g - 1 /\ ~ (k <= k - 1) /\ ~ (g <= k)
    BY <1>6, <2>5
  <2>7. r[k - 1] = q[k - 1] /\ BitAt(s, k) = BitAt(t, k)
    BY <1>6, <2>3, <2>4, <2>6
  <2>8. r[k] = q[k]
    BY <1>4, <2>6, <2>7 DEF Step
  <2> QED  BY <2>2, <2>4, <2>8
<1> DEFINE Reached(m) == Alike(r[m], q[m], g + 31 - m)
<1>8. Reached(n)
  BY <1>5 DEF Alike
<1>9. ASSUME NEW m \in 1 .. n, g < m, Reached(m) PROVE Reached(m - 1)
  <2>1. PICK p \in Int : p = g + 31 - m /\ p <= 31 /\ p + 1 = g + 31 - (m - 1)
    <3>1. /\ g + 31 - m \in Int /\ g + 31 - m <= 31
          /\ (g + 31 - m) + 1 = g + 31 - (m - 1)
      BY <1>6, <1>9
    <3> QED  BY <3>1
  <2>2. p < 0 => BitAt(s, m) = BitAt(t, m)
    <3>1. p < 0 => ~ (m <= g + 31)
      BY <1>6, <2>1
    <3> QED  BY <1>6, <3>1
  <2>3. Alike(r[m], q[m], p)
    BY <1>9, <2>1
  <2>4. Alike(r[m - 1], q[m - 1], p + 1)
    BY <1>4, <2>1, <2>2, <2>3, Backwards
  <2> QED  BY <2>1, <2>4
<1>10. Reached(g)
  <2> HIDE DEF Reached
  <2> DEFINE Wrong == {j \in 0 .. n - g : ~ Reached(n - j)}
  <2> SUFFICES ASSUME ~ Reached(g) PROVE FALSE
    OBVIOUS
  <2>1. Wrong \subseteq Nat /\ n - g \in Wrong
    <3>1. n - g \in 0 .. n - g /\ n - (n - g) = g
      BY <1>6
    <3> QED  BY <3>1
  <2>2. \A j \in Wrong : j \in 0 .. n - g /\ ~ Reached(n - j)
    OBVIOUS
  <2>3. \A j \in 0 .. n - g : j \notin Wrong => Reached(n - j)
    OBVIOUS
  <2> HIDE DEF Wrong
  <2>4. PICK j \in Wrong : \A i \in Wrong : j <= i
    BY <2>1, HasMin
  <2>5. j # 0
    <3>1. n - 0 = n
      OBVIOUS
    <3> QED  BY <1>8, <2>2, <2>4, <3>1
  <2>6. j \in 0 .. n - g
    BY <2>2, <2>4
  <2>7. PICK m \in 1 .. n : m = n - (j - 1) /\ g < m /\ m - 1 = n - j /\ j - 1 \in 0 .. n - g
                            /\ ~ (j <= j - 1)
    <3>1. /\ n - (j - 1) \in 1 .. n /\ g < n - (j - 1) /\ (n - (j - 1)) - 1 = n - j
          /\ j - 1 \in 0 .. n - g /\ ~ (j <= j - 1)
      BY <1>6, <2>5, <2>6
    <3> QED  BY <3>1
  <2>8. Reached(m)
    BY <2>3, <2>4, <2>7
  <2>9. Reached(m - 1)
    BY <1>9, <2>7, <2>8
  <2> QED  BY <2>2, <2>4, <2>7, <2>9
<1>11. r[g][31] = q[g][31]
  <2>1. 31 >= g + 31 - g /\ 31 \in 0 .. 31
    BY <1>6
  <2> QED  BY <1>10, <2>1 DEF Alike
<1>12. PICK w : w = r[g - 1]
  OBVIOUS
<1>13. Step(w, BitAt(s, g), r[g]) /\ Step(w, BitAt(t, g), q[g])
  BY <1>4, <1>6, <1>7, <1>12
<1>14. PICK a, b : a = BitAt(s, g) /\ b = BitAt(t, g)
  OBVIOUS
<1>15. /\ Stepped(w, Xor(w[0], a), r[g]) /\ Stepped(w, Xor(w[0], b), q[g])
       /\ w[0] \in Bit /\ a \in Bit /\ b \in Bit
  <2>1. Stepped(w, Xor(w[0], a), r[g]) /\ Stepped(w, Xor(w[0], b), q[g])
    BY <1>13, <1>14, StepAt
  <2>2. w[0] \in Bit /\ a \in Bit /\ b \in Bit
    BY <1>13, <1>14 DEF Step, Word
  <2> QED  BY <2>1, <2>2
<1>16. Xor(w[0], a) = Xor(w[0], b)
  BY <1>11, <1>15 DEF Stepped
<1>17. a = b
  BY <1>15, <1>16, XorIs DEF Bit
<1> QED  BY <1>6, <1>14, <1>17

----------------------------------------------------------------------------
(* Bytes that differ within four, and the bits in which they do.           *)

Burst(s, t) ==
  /\ \E i \in 1 .. Len(s) : s[i] # t[i]
  /\ \A i, j \in 1 .. Len(s) : s[i] # t[i] /\ s[j] # t[j] => j - i <= 3

\* Bytes within four are bits within 32.
LEMMA BurstHasFirstBit ==
  ASSUME NEW s \in Seq(Byte), NEW t \in Seq(Byte), Len(t) = Len(s), Burst(s, t)
  PROVE  \E g : FirstBit(s, t, g)
<1>1. PICK l \in Nat : l = Len(s) /\ l = Len(t) /\ Bits(s) = 8 * l
  BY LenProperties DEF Bits
<1>2. \A j \in 1 .. l : s[j] \in 0 .. 255 /\ t[j] \in 0 .. 255
  BY <1>1, ElementOfSeq, ByteAssumption
<1> DEFINE Differ == {k \in 1 .. 8 * l : BitAt(s, k) # BitAt(t, k)}
<1>3. ASSUME NEW k \in Differ
      PROVE  \E j \in 1 .. l : s[j] # t[j] /\ 8 * (j - 1) < k /\ k <= 8 * j
  <2>0. k \in 1 .. 8 * l /\ BitAt(s, k) # BitAt(t, k)
    OBVIOUS
  <2>1. PICK j, i : j = (k - 1) \div 8 + 1 /\ i = (k - 1) % 8
    OBVIOUS
  <2>2. j \in 1 .. l /\ ~ (k > 8 * l) /\ 8 * (j - 1) < k /\ k <= 8 * j
    BY <2>0, <2>1
  <2>3. BitAt(s, k) = BitOf(s[j], i) /\ BitAt(t, k) = BitOf(t[j], i)
    BY <1>1, <2>1, <2>2 DEF BitAt
  <2> QED  BY <2>0, <2>2, <2>3
<1>4. Differ # {}
  <2>1. PICK j \in 1 .. l : s[j] # t[j]
    BY <1>1 DEF Burst
  <2>2. PICK i \in 0 .. 7 : BitOf(s[j], i) # BitOf(t[j], i)
    BY <1>2, <2>1, BitsTell
  <2>3. PICK k : k = 8 * (j - 1) + i + 1
    OBVIOUS
  <2>4. k \in 1 .. 8 * l /\ (k - 1) \div 8 + 1 = j /\ (k - 1) % 8 = i /\ ~ (k > 8 * l)
    BY <2>3
  <2>5. BitAt(s, k) = BitOf(s[j], i) /\ BitAt(t, k) = BitOf(t[j], i)
    BY <1>1, <2>4 DEF BitAt
  <2> QED  BY <2>2, <2>4, <2>5
<1>5. Differ \subseteq Nat /\ \A k \in Differ : k \in 1 .. 8 * l /\ BitAt(s, k) # BitAt(t, k)
  OBVIOUS
<1>6. \A k \in 1 .. 8 * l : BitAt(s, k) # BitAt(t, k) => k \in Differ
  OBVIOUS
<1> HIDE DEF Differ
<1>7. PICK g \in Differ : \A k \in Differ : g <= k
  BY <1>4, <1>5, HasMin
<1>8. ASSUME NEW k \in Differ PROVE k <= g + 31
  <2>1. PICK i \in 1 .. l : s[i] # t[i] /\ 8 * (i - 1) < g
    BY <1>3, <1>7
  <2>2. PICK j \in 1 .. l : s[j] # t[j] /\ k <= 8 * j
    BY <1>3
  <2>3. j - i <= 3
    BY <1>1, <2>1, <2>2 DEF Burst
  <2>4. k \in Nat /\ g \in Nat
    BY <1>5, <1>7
  <2> QED  BY <2>1, <2>2, <2>3, <2>4
<1> QED  BY <1>1, <1>5, <1>6, <1>7, <1>8 DEF FirstBit

\* Texts of one length that differ within four bytes next to each other have
\* different checksums, whatever precedes and follows (what verify_checksum,
\* kraken.rs, relies on).
THEOREM BurstsNoticed == CrcSpec => []BurstsAreNoticed
<1>1. CrcInv => BurstsAreNoticed
  <2> SUFFICES ASSUME CrcInv PROVE BurstsAreNoticed
    OBVIOUS
  <2>1. PICK s, t : s = bytes["ours"] /\ t = bytes["theirs"]
    OBVIOUS
  <2>2. /\ s \in Seq(Byte) /\ t \in Seq(Byte) /\ Len(t) = Len(s)
        /\ Leads(s, crc["ours"]) /\ Leads(t, crc["theirs"])
    BY <2>1 DEF CrcInv, Who
  <2>3. Bits(t) = Bits(s)
    BY <2>2 DEF Bits
  <2>4. DOMAIN s = 1 .. Len(s)
    BY <2>2, LenProperties
  <2> DEFINE differ == {i \in DOMAIN s : s[i] # t[i]}
  <2> SUFFICES ASSUME differ # {}, \A i, j \in differ : j - i <= 3
               PROVE  crc["ours"] # crc["theirs"]
    BY <2>1 DEF BurstsAreNoticed
  <2>5. Burst(s, t)
    BY <2>4 DEF Burst
  <2>6. PICK g : FirstBit(s, t, g)
    BY <2>2, <2>5, BurstHasFirstBit
  <2> QED  BY <2>2, <2>3, <2>6, BurstDistinguishes
<1> QED  BY <1>1, CrcInvariant, PTL
============================================================================
