-------------------------- MODULE TranscriptProofs ---------------------------
(***************************************************************************)
(* What the detectors of Transcript make of a date and of an amount, for   *)
(* every date of the calendar and every amount that can be said.           *)
(***************************************************************************)
EXTENDS Transcript, Foundations, SequenceTheorems, TLAPS

-----------------------------------------------------------------------------
(* The day before the first of January, and before the first of a month    *)
(* counted from the year 0.                                                *)
YearStart(y) == 365 * (y - 1) + ((y - 1) \div 4) - ((y - 1) \div 100) + ((y - 1) \div 400)
MonthStart(i) == YearStart(i \div 12) + DaysBeforeMonth(i \div 12, (i % 12) + 1)
MonthIndex(d) == 12 * d.year + d.month - 1

LEMMA YearLength ==
  ASSUME NEW y \in Int
  PROVE  /\ YearStart(y) \in Int
         /\ YearStart(y + 1) = YearStart(y) + 365 + (IF LeapYear(y) THEN 1 ELSE 0)
  <1>1. /\ y \div 4 = ((y - 1) \div 4) + (IF y % 4 = 0 THEN 1 ELSE 0)
        /\ (y - 1) \div 4 \in Int
    OBVIOUS
  <1>2. /\ y \div 100 = ((y - 1) \div 100) + (IF y % 100 = 0 THEN 1 ELSE 0)
        /\ (y - 1) \div 100 \in Int
    OBVIOUS
  <1>3. /\ y \div 400 = ((y - 1) \div 400) + (IF y % 400 = 0 THEN 1 ELSE 0)
        /\ (y - 1) \div 400 \in Int
    OBVIOUS
  <1>4. (y % 400 = 0 => y % 100 = 0) /\ (y % 100 = 0 => y % 4 = 0)
    OBVIOUS
  <1>5. (y + 1) - 1 = y
    OBVIOUS
  <1>6. YearStart(y + 1) = 365 * y + (y \div 4) - (y \div 100) + (y \div 400)
    BY <1>5 DEF YearStart
  <1> DEFINE a == (y - 1) \div 4
             b == (y - 1) \div 100
             c == (y - 1) \div 400
  <1>7. YearStart(y) = 365 * (y - 1) + a - b + c
    BY DEF YearStart
  <1>8. CASE y % 400 = 0
    <2>1. LeapYear(y)
      BY <1>4, <1>8 DEF LeapYear
    <2> QED
      BY <1>1, <1>2, <1>3, <1>4, <1>6, <1>7, <1>8, <2>1
  <1>9. CASE y % 400 # 0 /\ y % 100 = 0
    <2>1. ~LeapYear(y)
      BY <1>4, <1>9 DEF LeapYear
    <2> QED
      BY <1>1, <1>2, <1>3, <1>4, <1>6, <1>7, <1>9, <2>1
  <1>10. CASE y % 100 # 0
    <2>1. LeapYear(y) <=> y % 4 = 0
      BY <1>4, <1>10 DEF LeapYear
    <2> QED
      BY <1>1, <1>2, <1>3, <1>4, <1>6, <1>7, <1>10, <2>1
  <1> QED
    BY <1>8, <1>9, <1>10

LEMMA MonthsOfYear ==
  ASSUME NEW y, NEW m \in 1 .. 12
  PROVE  /\ DaysBeforeMonth(y, m) \in Int /\ DaysBeforeMonth(y, 1) = 0
         /\ DaysInMonth(y, m) \in Int /\ 28 <= DaysInMonth(y, m) /\ DaysInMonth(y, m) <= 31
         /\ m < 12 => DaysBeforeMonth(y, m + 1) = DaysBeforeMonth(y, m) + DaysInMonth(y, m)
         /\ m = 12 => DaysBeforeMonth(y, m) + DaysInMonth(y, m)
                         = 365 + (IF LeapYear(y) THEN 1 ELSE 0)
  <1>1. m = 1 \/ m = 2 \/ m = 3 \/ m = 4 \/ m = 5 \/ m = 6 \/ m = 7 \/ m = 8 \/ m = 9 \/ m = 10
           \/ m = 11 \/ m = 12
    OBVIOUS
  <1>2. /\ DaysInMonth(y, 1) = 31 /\ DaysInMonth(y, 2) = IF LeapYear(y) THEN 29 ELSE 28
        /\ DaysInMonth(y, 3) = 31 /\ DaysInMonth(y, 4) = 30 /\ DaysInMonth(y, 5) = 31
        /\ DaysInMonth(y, 6) = 30 /\ DaysInMonth(y, 7) = 31 /\ DaysInMonth(y, 8) = 31
        /\ DaysInMonth(y, 9) = 30 /\ DaysInMonth(y, 10) = 31 /\ DaysInMonth(y, 11) = 30
        /\ DaysInMonth(y, 12) = 31
    BY DEF DaysInMonth
  <1> DEFINE leap == IF LeapYear(y) THEN 1 ELSE 0
  <1>3. /\ DaysBeforeMonth(y, 1) = 0 /\ DaysBeforeMonth(y, 2) = 31
        /\ DaysBeforeMonth(y, 3) = 59 + leap /\ DaysBeforeMonth(y, 4) = 90 + leap
        /\ DaysBeforeMonth(y, 5) = 120 + leap /\ DaysBeforeMonth(y, 6) = 151 + leap
        /\ DaysBeforeMonth(y, 7) = 181 + leap /\ DaysBeforeMonth(y, 8) = 212 + leap
        /\ DaysBeforeMonth(y, 9) = 243 + leap /\ DaysBeforeMonth(y, 10) = 273 + leap
        /\ DaysBeforeMonth(y, 11) = 304 + leap /\ DaysBeforeMonth(y, 12) = 334 + leap
    BY DEF DaysBeforeMonth
  <1>4. leap \in {0, 1} /\ DaysInMonth(y, 2) = 28 + leap
    BY <1>2
  <1> HIDE DEF leap
  <1>5. CASE m <= 6
    BY <1>1, <1>2, <1>3, <1>4, <1>5
  <1>6. CASE m > 6
    BY <1>1, <1>2, <1>3, <1>4, <1>6 DEF leap
  <1> QED
    BY <1>5, <1>6

LEMMA MonthLength ==
  ASSUME NEW i \in Int
  PROVE  /\ MonthStart(i) \in Int
         /\ MonthStart(i + 1) = MonthStart(i) + DaysInMonth(i \div 12, (i % 12) + 1)
         /\ MonthStart(i + 1) >= MonthStart(i) + 28
  <1> DEFINE y == i \div 12
             m == (i % 12) + 1
  <1>1. y \in Int /\ m \in 1 .. 12
    OBVIOUS
  <1>2. CASE m < 12
    <2>1. (i + 1) \div 12 = y /\ ((i + 1) % 12) + 1 = m + 1
      BY <1>2
    <2>2. MonthStart(i) = YearStart(y) + DaysBeforeMonth(y, m)
      BY DEF MonthStart
    <2>3. MonthStart(i + 1) = YearStart(y) + DaysBeforeMonth(y, m + 1)
      BY <2>1 DEF MonthStart
    <2> HIDE DEF y, m
    <2>4. /\ YearStart(y) \in Int
          /\ DaysBeforeMonth(y, m + 1) = DaysBeforeMonth(y, m) + DaysInMonth(y, m)
          /\ DaysBeforeMonth(y, m) \in Int /\ DaysInMonth(y, m) \in Int /\ 28 <= DaysInMonth(y, m)
      <3>1. YearStart(y) \in Int
        BY <1>1, YearLength
      <3> QED
        BY <1>1, <1>2, <3>1, MonthsOfYear
    <2>5. MonthStart(i + 1) = MonthStart(i) + DaysInMonth(y, m)
      BY <2>2, <2>3, <2>4
    <2> QED
      BY <2>2, <2>4, <2>5 DEF y, m
  <1>3. CASE m = 12
    <2>1. (i + 1) \div 12 = y + 1 /\ ((i + 1) % 12) + 1 = 1
      BY <1>3
    <2>2. MonthStart(i) = YearStart(y) + DaysBeforeMonth(y, m)
      BY DEF MonthStart
    <2>3. MonthStart(i + 1) = YearStart(y + 1) + DaysBeforeMonth(y + 1, 1)
      BY <2>1 DEF MonthStart
    <2> HIDE DEF y, m
    <2>4. /\ YearStart(y) \in Int /\ DaysBeforeMonth(y + 1, 1) = 0
          /\ YearStart(y + 1) = YearStart(y) + 365 + (IF LeapYear(y) THEN 1 ELSE 0)
          /\ DaysBeforeMonth(y, m) \in Int /\ DaysInMonth(y, m) \in Int /\ 28 <= DaysInMonth(y, m)
          /\ DaysBeforeMonth(y, m) + DaysInMonth(y, m) = 365 + (IF LeapYear(y) THEN 1 ELSE 0)
      BY <1>1, <1>3, YearLength, MonthsOfYear
    <2>5. MonthStart(i + 1) = MonthStart(i) + DaysInMonth(y, m)
      BY <2>2, <2>3, <2>4
    <2> QED
      BY <2>2, <2>4, <2>5 DEF y, m
  <1> QED
    BY <1>1, <1>2, <1>3

LEMMA MonthsApart ==
  ASSUME NEW i \in Int, NEW n \in Nat
  PROVE  MonthStart(i + n) \in Int /\ MonthStart(i + n) >= MonthStart(i) + 28 * n
  <1> DEFINE S == {k \in Nat : MonthStart(i + k) >= MonthStart(i) + 28 * k}
  <1>1. 0 \in S
    BY MonthLength
  <1>2. ASSUME NEW k \in Nat, k \in S PROVE k + 1 \in S
    <2>1. i + k \in Int /\ i + (k + 1) = (i + k) + 1
      OBVIOUS
    <2>2. MonthStart(i + k) \in Int /\ MonthStart(i) \in Int
          /\ MonthStart((i + k) + 1) \in Int
          /\ MonthStart((i + k) + 1) >= MonthStart(i + k) + 28
      BY <2>1, MonthLength
    <2>3. MonthStart(i + k) >= MonthStart(i) + 28 * k
      BY <1>2
    <2>4. MonthStart(i + (k + 1)) >= MonthStart(i) + 28 * (k + 1)
      BY <2>1, <2>2, <2>3
    <2> QED
      BY <2>4
  <1> HIDE DEF S
  <1>3. n \in S
    BY <1>1, <1>2, InductionOnSet
  <1> QED
    BY <1>3, MonthLength DEF S

LEMMA OrdinalOf ==
  ASSUME NEW d \in CalendarDates
  PROVE  /\ MonthIndex(d) \in Int
         /\ MonthIndex(d) \div 12 = d.year /\ (MonthIndex(d) % 12) + 1 = d.month
         /\ DaysInMonth(d.year, d.month) \in Int
         /\ DaysInMonth(d.year, d.month) <= 31 /\ DaysInMonth(d.year, d.month) >= 28
         /\ d.day \in Int /\ 1 <= d.day /\ d.day <= DaysInMonth(d.year, d.month)
         /\ Ordinal(d) \in Int
         /\ Ordinal(d) = MonthStart(MonthIndex(d)) + d.day
  <1>1. d.year \in Int /\ d.month \in 1 .. 12 /\ d.day \in 1 .. DaysInMonth(d.year, d.month)
    BY DEF CalendarDates, IsDate
  <1>2. /\ MonthIndex(d) \in Int
        /\ MonthIndex(d) \div 12 = d.year /\ (MonthIndex(d) % 12) + 1 = d.month
    BY <1>1 DEF MonthIndex
  <1>3. /\ DaysInMonth(d.year, d.month) \in Int
        /\ DaysInMonth(d.year, d.month) <= 31 /\ DaysInMonth(d.year, d.month) >= 28
        /\ DaysBeforeMonth(d.year, d.month) \in Int /\ YearStart(d.year) \in Int
    <2> DEFINE y == d.year
               m == d.month
    <2>1. y \in Int /\ m \in 1 .. 12
      BY <1>1
    <2> HIDE DEF y, m
    <2>2. YearStart(y) \in Int
      BY <2>1, YearLength
    <2>3. /\ DaysInMonth(y, m) \in Int /\ DaysInMonth(y, m) <= 31 /\ DaysInMonth(y, m) >= 28
          /\ DaysBeforeMonth(y, m) \in Int
      BY <2>1, MonthsOfYear
    <2> QED
      BY <2>2, <2>3 DEF y, m
  <1>4. d.day \in Int /\ 1 <= d.day /\ d.day <= DaysInMonth(d.year, d.month)
    BY <1>1, <1>3
  <1>5. Ordinal(d) = YearStart(d.year) + DaysBeforeMonth(d.year, d.month) + d.day
    BY <1>1 DEF Ordinal, YearStart
  <1>6. MonthStart(MonthIndex(d)) = YearStart(d.year) + DaysBeforeMonth(d.year, d.month)
    BY <1>2 DEF MonthStart
  <1> QED
    BY <1>2, <1>3, <1>4, <1>5, <1>6

LEMMA MonthOfDate ==
  ASSUME NEW d \in CalendarDates
  PROVE  /\ MonthStart(MonthIndex(d)) \in Int /\ MonthStart(MonthIndex(d) + 1) \in Int
         /\ MonthStart(MonthIndex(d) + 1)
               = MonthStart(MonthIndex(d)) + DaysInMonth(d.year, d.month)
  <1> DEFINE i == MonthIndex(d)
             y == i \div 12
             m == (i % 12) + 1
  <1>1. i \in Int /\ y = d.year /\ m = d.month
    BY OrdinalOf
  <1> HIDE DEF i
  <1>2. i + 1 \in Int
    BY <1>1
  <1>3. MonthStart(i + 1) = MonthStart(i) + DaysInMonth(y, m) /\ MonthStart(i) \in Int
    BY <1>1, MonthLength
  <1>4. MonthStart(i + 1) \in Int
    BY <1>2, MonthLength
  <1> HIDE DEF y, m
  <1> QED
    BY <1>1, <1>3, <1>4 DEF i

(* CalendarDates in the order of their months.                                     *)
LEMMA LaterMonthIsLater ==
  ASSUME NEW d \in CalendarDates, NEW e \in CalendarDates, MonthIndex(d) < MonthIndex(e)
  PROVE  /\ Ordinal(e) - Ordinal(d) >= 28 * (MonthIndex(e) - MonthIndex(d)) - d.day + e.day
         /\ Ordinal(e) - Ordinal(d) >= 28 * (MonthIndex(e) - MonthIndex(d)) - 30
         /\ Ordinal(e) > Ordinal(d)
         /\ MonthIndex(e) > MonthIndex(d) + 1 => Ordinal(e) - Ordinal(d) > 28
  <1> DEFINE i == MonthIndex(d)
             n == MonthIndex(e) - MonthIndex(d)
  <1>1. /\ i \in Int /\ n \in Nat /\ n >= 1 /\ MonthIndex(e) = i + n
        /\ Ordinal(d) \in Int /\ Ordinal(e) \in Int
        /\ d.day \in Int /\ 1 <= d.day /\ e.day \in Int /\ 1 <= e.day
        /\ DaysInMonth(d.year, d.month) \in Int /\ d.day <= DaysInMonth(d.year, d.month)
        /\ DaysInMonth(d.year, d.month) <= 31
        /\ Ordinal(d) = MonthStart(i) + d.day /\ Ordinal(e) = MonthStart(i + n) + e.day
    BY OrdinalOf
  <1>2. i \div 12 = d.year /\ (i % 12) + 1 = d.month
    BY OrdinalOf
  <1> HIDE DEF i, n
  <1>3. /\ MonthStart(i) \in Int /\ MonthStart(i + 1) \in Int
        /\ MonthStart(i + 1) = MonthStart(i) + DaysInMonth(d.year, d.month)
    BY MonthOfDate DEF i
  <1>4. MonthStart(i + n) \in Int /\ MonthStart(i + n) >= MonthStart(i) + 28 * n
    BY <1>1, MonthsApart
  <1>5. MonthStart(i + n) >= MonthStart(i + 1) + 28 * (n - 1)
    <2>1. i + 1 \in Int /\ n - 1 \in Nat /\ (i + 1) + (n - 1) = i + n
      BY <1>1
    <2>2. MonthStart((i + 1) + (n - 1)) >= MonthStart(i + 1) + 28 * (n - 1)
      BY <2>1, MonthsApart
    <2> QED
      BY <2>1, <2>2
  <1>6. Ordinal(e) - Ordinal(d) >= 28 * n - d.day + e.day
    BY <1>1, <1>3, <1>4
  <1>7. Ordinal(e) - Ordinal(d) >= 28 * (n - 1) + 1
    BY <1>1, <1>3, <1>4, <1>5
  <1> QED
    BY <1>1, <1>6, <1>7 DEF i, n

(* A step of the calendar is a step of the count of days.                  *)
LEMMA NextDay ==
  ASSUME NEW d \in CalendarDates
  PROVE  DayAfter(d) \in CalendarDates /\ Ordinal(DayAfter(d)) = Ordinal(d) + 1
  <1> DEFINE i == MonthIndex(d)
             e == DayAfter(d)
  <1>1. d \in [year : Int, month : 1 .. 12, day : 1 .. 31] /\ IsDate(d)
    BY DEF CalendarDates
  <1>2. /\ i \in Int /\ i \div 12 = d.year /\ (i % 12) + 1 = d.month
        /\ DaysInMonth(d.year, d.month) \in Int /\ DaysInMonth(d.year, d.month) <= 31
        /\ d.day \in Int /\ 1 <= d.day /\ d.day <= DaysInMonth(d.year, d.month)
        /\ Ordinal(d) \in Int /\ Ordinal(d) = MonthStart(i) + d.day
    BY OrdinalOf
  <1>3. /\ MonthStart(i) \in Int /\ MonthStart(i + 1) \in Int
        /\ MonthStart(i + 1) = MonthStart(i) + DaysInMonth(d.year, d.month)
    BY MonthOfDate
  <1>4. CASE d.day < DaysInMonth(d.year, d.month)
    <2>1. e = [d EXCEPT !.day = @ + 1]
      BY <1>4 DEF DayAfter
    <2>2. e.year = d.year /\ e.month = d.month /\ e.day = d.day + 1
      BY <1>1, <2>1
    <2>3. e \in [year : Int, month : 1 .. 12, day : 1 .. 31]
      BY <1>1, <1>2, <1>4, <2>1
    <2> HIDE DEF e
    <2>4. e \in CalendarDates
      BY <1>1, <1>2, <1>4, <2>2, <2>3 DEF CalendarDates, IsDate
    <2>5. MonthIndex(e) = i
      BY <2>2 DEF MonthIndex
    <2> HIDE DEF i
    <2>6. Ordinal(e) = MonthStart(i) + e.day
      BY <2>4, <2>5, OrdinalOf
    <2> QED
      BY <1>2, <1>3, <2>2, <2>4, <2>6 DEF e
  <1>5. CASE d.day = DaysInMonth(d.year, d.month)
    <2>1. /\ e \in [year : Int, month : 1 .. 12, day : 1 .. 31] /\ e.day = 1
          /\ MonthIndex(e) = i + 1
      <3>1. CASE d.month < 12
        <4>1. e = On(d.year, d.month + 1, 1)
          BY <1>5, <3>1, <1>2 DEF DayAfter
        <4> QED
          BY <1>1, <3>1, <4>1 DEF On, MonthIndex
      <3>2. CASE d.month = 12
        <4>1. e = On(d.year + 1, 1, 1)
          BY <1>5, <3>2, <1>2 DEF DayAfter
        <4> QED
          BY <1>1, <3>2, <4>1 DEF On, MonthIndex
      <3> QED
        BY <1>1, <3>1, <3>2
    <2> HIDE DEF e
    <2>2. e.year \in Int /\ e.month \in 1 .. 12
      BY <2>1
    <2>3. DaysInMonth(e.year, e.month) \in Int /\ 28 <= DaysInMonth(e.year, e.month)
      BY <2>2, MonthsOfYear
    <2>4. e \in CalendarDates
      BY <2>1, <2>2, <2>3 DEF CalendarDates, IsDate
    <2> HIDE DEF i
    <2>5. Ordinal(e) = MonthStart(i + 1) + 1
      BY <2>1, <2>4, OrdinalOf
    <2> QED
      BY <1>2, <1>3, <1>5, <2>4, <2>5 DEF e
  <1> QED
    BY <1>2, <1>4, <1>5

LEMMA PreviousDay ==
  ASSUME NEW d \in CalendarDates
  PROVE  DayBefore(d) \in CalendarDates /\ Ordinal(DayBefore(d)) = Ordinal(d) - 1
  <1> DEFINE i == MonthIndex(d)
             e == DayBefore(d)
  <1>1. d \in [year : Int, month : 1 .. 12, day : 1 .. 31] /\ IsDate(d)
    BY DEF CalendarDates
  <1>2. /\ i \in Int /\ i \div 12 = d.year /\ (i % 12) + 1 = d.month
        /\ DaysInMonth(d.year, d.month) \in Int /\ DaysInMonth(d.year, d.month) <= 31
        /\ d.day \in Int /\ 1 <= d.day /\ d.day <= DaysInMonth(d.year, d.month)
        /\ Ordinal(d) \in Int /\ Ordinal(d) = MonthStart(i) + d.day
    BY OrdinalOf
  <1>4. CASE d.day > 1
    <2>1. e = [d EXCEPT !.day = @ - 1]
      BY <1>4 DEF DayBefore
    <2>2. e.year = d.year /\ e.month = d.month /\ e.day = d.day - 1
      BY <1>1, <2>1
    <2>3. e \in [year : Int, month : 1 .. 12, day : 1 .. 31]
      BY <1>1, <1>2, <1>4, <2>1
    <2> HIDE DEF e
    <2>4. e \in CalendarDates
      BY <1>1, <1>2, <1>4, <2>2, <2>3 DEF CalendarDates, IsDate
    <2>5. MonthIndex(e) = i
      BY <2>2 DEF MonthIndex
    <2>6. MonthStart(i) \in Int
      BY <1>2, MonthLength
    <2> HIDE DEF i
    <2>7. Ordinal(e) = MonthStart(i) + e.day
      BY <2>4, <2>5, OrdinalOf
    <2> QED
      BY <1>2, <2>2, <2>4, <2>6, <2>7 DEF e
  <1>5. CASE d.day = 1
    <2>1. /\ e \in [year : Int, month : 1 .. 12, day : 1 .. 31]
          /\ e.day = DaysInMonth(e.year, e.month)
          /\ MonthIndex(e) = i - 1
      <3>1. CASE d.month > 1
        <4> DEFINE m == d.month - 1
        <4>1. e = On(d.year, m, DaysInMonth(d.year, m)) /\ m \in 1 .. 12 /\ d.year \in Int
          BY <1>1, <1>5, <3>1, <1>2 DEF DayBefore
        <4>2. m = d.month - 1
          OBVIOUS
        <4> HIDE DEF m
        <4>3. DaysInMonth(d.year, m) \in 1 .. 31
          BY <4>1, MonthsOfYear
        <4>4. e.year = d.year /\ e.month = m /\ e.day = DaysInMonth(d.year, m)
          BY <4>1 DEF On
        <4>5. e \in [year : Int, month : 1 .. 12, day : 1 .. 31]
          BY <4>1, <4>3 DEF On
        <4> HIDE DEF e
        <4>6. MonthIndex(e) = i - 1
          BY <1>1, <4>2, <4>4 DEF MonthIndex
        <4> QED
          BY <4>4, <4>5, <4>6
      <3>2. CASE d.month = 1
        <4>1. e = On(d.year - 1, 12, 31)
          BY <1>5, <3>2, <1>2 DEF DayBefore
        <4>2. e.year = d.year - 1 /\ e.month = 12 /\ e.day = 31
          BY <4>1 DEF On
        <4>3. e \in [year : Int, month : 1 .. 12, day : 1 .. 31]
          BY <1>1, <4>1 DEF On
        <4>4. DaysInMonth(d.year - 1, 12) = 31
          BY DEF DaysInMonth
        <4> HIDE DEF e
        <4>5. MonthIndex(e) = i - 1
          BY <1>1, <3>2, <4>2 DEF MonthIndex
        <4> QED
          BY <4>2, <4>3, <4>4, <4>5
      <3> QED
        BY <1>1, <3>1, <3>2
    <2> HIDE DEF e
    <2>2. e.year \in Int /\ e.month \in 1 .. 12
      BY <2>1
    <2>3. DaysInMonth(e.year, e.month) \in Int /\ 28 <= DaysInMonth(e.year, e.month)
      BY <2>2, MonthsOfYear
    <2>4. e \in CalendarDates
      BY <2>1, <2>2, <2>3 DEF CalendarDates, IsDate
    <2>5. /\ Ordinal(e) = MonthStart(i - 1) + e.day /\ i - 1 \in Int
          /\ (i - 1) \div 12 = e.year /\ ((i - 1) % 12) + 1 = e.month
      BY <2>1, <2>4, OrdinalOf
    <2>6. (i - 1) + 1 = i
      BY <1>2
    <2> HIDE DEF i
    <2>7. MonthStart(i) = MonthStart(i - 1) + DaysInMonth(e.year, e.month) /\ MonthStart(i - 1) \in Int
      BY <2>5, <2>6, MonthLength
    <2> QED
      BY <1>2, <1>5, <2>1, <2>3, <2>4, <2>5, <2>7 DEF e
  <1> QED
    BY <1>2, <1>4, <1>5

LEMMA WalkExists ==
  ASSUME NEW D, NEW date \in D, NEW walk \in [D -> D]
  PROVE  \E f \in [Nat -> D] : f[0] = date /\ \A n \in Nat : f[n + 1] = walk[f[n]]
  <1> DEFINE step == [p \in Nat \X D |-> walk[p[2]]]
  <1>1. step \in [Nat \X D -> D]
    OBVIOUS
  <1>2. \A n \in Nat, v \in D : step[<<n, v>>] = walk[v]
    OBVIOUS
  <1> HIDE DEF step
  <1>3. PICK f \in [Nat -> D] : Recurs(f, date, step)
    BY <1>1, RecursionExists
  <1>4. f[0] = date /\ \A n \in Nat : f[n + 1] = walk[f[n]]
    BY <1>2, <1>3 DEF Recurs
  <1> QED
    BY <1>4

LEMMA DayAtWalks ==
  ASSUME NEW date \in CalendarDates, NEW k \in Int
  PROVE  DayAt(date, k) \in CalendarDates /\ Ordinal(DayAt(date, k)) = Ordinal(date) + k
  <1> DEFINE D == CalendarDates
             forth == [d \in D |-> DayAfter(d)]
             back == [d \in D |-> DayBefore(d)]
             IsLater(f) == f = [n \in Nat |-> IF n = 0 THEN date ELSE DayAfter(f[n - 1])]
             IsEarlier(f) == f = [n \in Nat |-> IF n = 0 THEN date ELSE DayBefore(f[n - 1])]
             later == CHOOSE f : IsLater(f)
             earlier == CHOOSE f : IsEarlier(f)
  <1>1. DayAt(date, k) = IF k >= 0 THEN later[k] ELSE earlier[-k]
    BY DEF DayAt
  <1>2. forth \in [D -> D] /\ back \in [D -> D]
    BY NextDay, PreviousDay
  <1>3. \A d \in D : forth[d] = DayAfter(d) /\ back[d] = DayBefore(d)
    OBVIOUS
  <1>4. \E f : IsLater(f)
    <2> HIDE DEF forth, D
    <2>1. PICK f \in [Nat -> D] : f[0] = date /\ \A n \in Nat : f[n + 1] = forth[f[n]]
      BY <1>2, WalkExists DEF D
    <2>2. ASSUME NEW n \in Nat, n # 0 PROVE f[n] = DayAfter(f[n - 1])
      <3> DEFINE m == n - 1
      <3>1. m \in Nat /\ n = m + 1
        BY <2>2
      <3> HIDE DEF m
      <3>2. f[m + 1] = forth[f[m]] /\ f[m] \in D
        BY <2>1, <3>1
      <3> QED
        BY <1>3, <3>1, <3>2 DEF m
    <2>3. IsLater(f)
      BY <2>1, <2>2
    <2> QED
      BY <2>3
  <1>5. \E f : IsEarlier(f)
    <2> HIDE DEF back, D
    <2>1. PICK f \in [Nat -> D] : f[0] = date /\ \A n \in Nat : f[n + 1] = back[f[n]]
      BY <1>2, WalkExists DEF D
    <2>2. ASSUME NEW n \in Nat, n # 0 PROVE f[n] = DayBefore(f[n - 1])
      <3> DEFINE m == n - 1
      <3>1. m \in Nat /\ n = m + 1
        BY <2>2
      <3> HIDE DEF m
      <3>2. f[m + 1] = back[f[m]] /\ f[m] \in D
        BY <2>1, <3>1
      <3> QED
        BY <1>3, <3>1, <3>2 DEF m
    <2>3. IsEarlier(f)
      BY <2>1, <2>2
    <2> QED
      BY <2>3
  <1>6. IsLater(later) /\ IsEarlier(earlier)
    <2> HIDE DEF IsLater, IsEarlier
    <2> QED
      BY <1>4, <1>5
  <1> HIDE DEF later, earlier
  <1>7. later[0] = date /\ earlier[0] = date
    BY <1>6
  <1>8. ASSUME NEW n \in Nat
        PROVE  later[n + 1] = DayAfter(later[n]) /\ earlier[n + 1] = DayBefore(earlier[n])
    <2>1. n + 1 \in Nat /\ n + 1 # 0 /\ (n + 1) - 1 = n
      OBVIOUS
    <2>2. later[n + 1] = DayAfter(later[(n + 1) - 1])
      BY <1>6, <2>1
    <2>3. earlier[n + 1] = DayBefore(earlier[(n + 1) - 1])
      BY <1>6, <2>1
    <2> QED
      BY <2>1, <2>2, <2>3
  <1> DEFINE S == {n \in Nat :
                      /\ later[n] \in CalendarDates /\ Ordinal(later[n]) = Ordinal(date) + n
                      /\ earlier[n] \in CalendarDates /\ Ordinal(earlier[n]) = Ordinal(date) - n}
  <1> HIDE DEF D, forth, back, IsLater, IsEarlier
  <1>9. Ordinal(date) \in Int
    BY OrdinalOf
  <1>10. 0 \in S
    BY <1>7, <1>9
  <1>11. ASSUME NEW n \in Nat, n \in S PROVE n + 1 \in S
    <2>1. /\ later[n] \in CalendarDates /\ Ordinal(later[n]) = Ordinal(date) + n
          /\ earlier[n] \in CalendarDates /\ Ordinal(earlier[n]) = Ordinal(date) - n
      BY <1>11
    <2>2. later[n + 1] \in CalendarDates /\ Ordinal(later[n + 1]) = Ordinal(later[n]) + 1
      BY <1>8, <2>1, NextDay
    <2>3. earlier[n + 1] \in CalendarDates /\ Ordinal(earlier[n + 1]) = Ordinal(earlier[n]) - 1
      BY <1>8, <2>1, PreviousDay
    <2> QED
      BY <1>9, <2>1, <2>2, <2>3
  <1>12. \A n \in Nat : n \in S
    <2> HIDE DEF S
    <2> QED
      BY <1>10, <1>11, InductionOnSet
  <1>13. CASE k >= 0
    <2>1. k \in Nat /\ k \in S
      BY <1>12, <1>13
    <2> QED
      BY <1>1, <1>13, <2>1
  <1>14. CASE ~(k >= 0)
    <2> DEFINE n == -k
    <2>1. n \in Nat /\ n \in S /\ k = -n
      BY <1>12, <1>14
    <2>2. DayAt(date, k) = earlier[n]
      BY <1>1, <1>14
    <2> HIDE DEF n
    <2> QED
      BY <1>9, <2>1, <2>2
  <1> QED
    BY <1>13, <1>14

(* A candidate nearer than all others, on the weekday if one is said.      *)
Away(o, reference) == IF o < reference THEN reference - o ELSE o - reference
Closest(o, candidates, reference) ==
  \A p \in candidates : p = o \/ Away(p, reference) > Away(o, reference)
FallsOn(o, weekday) == weekday = Unsaid \/ Weekday(o) = weekday

LEMMA NearestIs ==
  ASSUME NEW candidates \in SUBSET Int, NEW o \in candidates, NEW weekday, NEW reference \in Int,
         Closest(o, candidates, reference), FallsOn(o, weekday)
  PROVE  Nearest(candidates, weekday, reference) = {o}
  <1> DEFINE Misses(p) == weekday # Unsaid /\ Weekday(p) # weekday
             Before(p, q) ==
               \/ ~Misses(p) /\ Misses(q)
               \/ /\ Misses(p) = Misses(q)
                  /\ \/ Away(p, reference) < Away(q, reference)
                     \/ Away(p, reference) = Away(q, reference) /\ p < q
  <1>1. Nearest(candidates, weekday, reference)
           = {p \in candidates : \A q \in candidates \ {p} : Before(p, q)}
    BY DEF Nearest, Away
  <1>2. ~Misses(o)
    BY DEF FallsOn
  <1>3. \A p \in candidates : Away(p, reference) \in Int
    BY DEF Away
  <1> HIDE DEF Misses
  <1>4. ASSUME NEW q \in candidates \ {o} PROVE Before(o, q) /\ ~Before(q, o)
    <2>1. Away(q, reference) > Away(o, reference)
      BY DEF Closest
    <2>2. Away(q, reference) \in Int /\ Away(o, reference) \in Int
      BY <1>3
    <2>3. Misses(q) \in BOOLEAN /\ Misses(o) = FALSE
      BY <1>2 DEF Misses
    <2>4. ~(Away(q, reference) < Away(o, reference)) /\ Away(q, reference) # Away(o, reference)
          /\ Away(o, reference) < Away(q, reference)
      BY <2>1, <2>2
    <2> QED
      BY <2>3, <2>4
  <1> HIDE DEF Before
  <1> QED
    BY <1>1, <1>4

(* CalendarDates within a fortnight are of one month or of two that follow.        *)
LEMMA NearMonths ==
  ASSUME NEW d \in CalendarDates, NEW e \in CalendarDates, Away(Ordinal(d), Ordinal(e)) <= 28
  PROVE  MonthIndex(d) - MonthIndex(e) \in {-1, 0, 1}
  <1>1. MonthIndex(d) \in Int /\ MonthIndex(e) \in Int /\ Ordinal(d) \in Int /\ Ordinal(e) \in Int
    BY OrdinalOf
  <1>2. ~(MonthIndex(e) > MonthIndex(d) + 1)
    <2> SUFFICES ASSUME MonthIndex(e) > MonthIndex(d) + 1 PROVE FALSE
      OBVIOUS
    <2>1. MonthIndex(d) < MonthIndex(e)
      BY <1>1
    <2>2. Ordinal(e) - Ordinal(d) > 28
      BY <2>1, LaterMonthIsLater
    <2> QED
      BY <1>1, <2>2 DEF Away
  <1>3. ~(MonthIndex(d) > MonthIndex(e) + 1)
    <2> SUFFICES ASSUME MonthIndex(d) > MonthIndex(e) + 1 PROVE FALSE
      OBVIOUS
    <2>1. MonthIndex(e) < MonthIndex(d)
      BY <1>1
    <2>2. Ordinal(d) - Ordinal(e) > 28
      BY <2>1, LaterMonthIsLater
    <2> QED
      BY <1>1, <2>2 DEF Away
  <1> QED
    BY <1>1, <1>2, <1>3

LEMMA SameDayOfMonths ==
  ASSUME NEW d \in CalendarDates, NEW e \in CalendarDates, d.day = e.day,
         MonthIndex(d) # MonthIndex(e)
  PROVE  Away(Ordinal(d), Ordinal(e)) >= 28
  <1>1. /\ MonthIndex(d) \in Int /\ MonthIndex(e) \in Int
        /\ Ordinal(d) \in Int /\ Ordinal(e) \in Int /\ d.day \in Int
    BY OrdinalOf
  <1>2. CASE MonthIndex(d) < MonthIndex(e)
    <2>1. Ordinal(e) - Ordinal(d) >= 28 * (MonthIndex(e) - MonthIndex(d)) - d.day + e.day
      BY <1>2, LaterMonthIsLater
    <2> QED
      BY <1>1, <1>2, <2>1 DEF Away
  <1>3. CASE MonthIndex(e) < MonthIndex(d)
    <2>1. Ordinal(d) - Ordinal(e) >= 28 * (MonthIndex(d) - MonthIndex(e)) - e.day + d.day
      BY <1>3, LaterMonthIsLater
    <2> QED
      BY <1>1, <1>3, <2>1 DEF Away
  <1> QED
    BY <1>1, <1>2, <1>3

(* A month and a day make one date.                                        *)
LEMMA DateOfIndex ==
  ASSUME NEW d \in CalendarDates, NEW e \in CalendarDates,
         MonthIndex(d) = MonthIndex(e), d.day = e.day
  PROVE  d = e
  <1>1. d.year = e.year /\ d.month = e.month
    BY OrdinalOf
  <1> QED
    BY <1>1 DEF CalendarDates

(* A weekday and a day resolve to the date within a fortnight they name.   *)
LEMMA NearestMonthIs ==
  ASSUME NEW m, NEW ref \in CalendarDates, NEW d \in CalendarDates, m.day = d.day,
         FallsOn(Ordinal(d), m.weekday), Away(Ordinal(d), Ordinal(ref)) <= 13
  PROVE  NearestMonth(m, ref) = {Ordinal(d)}
  <1> DEFINE Index(offset) == ref.month - 1 + offset
             months == {On(ref.year + (Index(offset) \div 12), (Index(offset) % 12) + 1, m.day) :
                           offset \in -1 .. 1}
             dates == {e \in months : m.day <= DaysInMonth(e.year, e.month)}
             candidates == {Ordinal(e) : e \in dates}
  <1>1. NearestMonth(m, ref) = Nearest(candidates, m.weekday, Ordinal(ref))
    BY DEF NearestMonth
  <1>2. ref.year \in Int /\ ref.month \in 1 .. 12
    BY DEF CalendarDates
  <1>3. /\ d.day \in Int /\ 1 <= d.day /\ d.day <= DaysInMonth(d.year, d.month)
        /\ Ordinal(d) \in Int /\ Ordinal(ref) \in Int
        /\ MonthIndex(d) \in Int /\ MonthIndex(ref) \in Int
    BY OrdinalOf
  <1>4. ASSUME NEW e \in dates
        PROVE  e \in CalendarDates /\ e.day = d.day
    <2>1. PICK offset \in -1 .. 1 :
             e = On(ref.year + (Index(offset) \div 12), (Index(offset) % 12) + 1, m.day)
      OBVIOUS
    <2>2. ref.year + (Index(offset) \div 12) \in Int /\ (Index(offset) % 12) + 1 \in 1 .. 12
      BY <1>2
    <2> DEFINE y == ref.year + (Index(offset) \div 12)
               n == (Index(offset) % 12) + 1
    <2>3. e = On(y, n, d.day) /\ d.day <= DaysInMonth(e.year, e.month)
      BY <2>1
    <2> HIDE DEF y, n
    <2>4. e.year = y /\ e.month = n /\ e.day = d.day
      BY <2>3 DEF On
    <2>5. y \in Int /\ n \in 1 .. 12
      BY <2>2 DEF y, n
    <2>6. DaysInMonth(y, n) \in Int /\ DaysInMonth(y, n) <= 31
      BY <2>5, MonthsOfYear
    <2>7. d.day \in 1 .. DaysInMonth(y, n) /\ d.day \in 1 .. 31
      BY <1>3, <2>3, <2>4, <2>6
    <2> QED
      BY <2>3, <2>4, <2>5, <2>7 DEF CalendarDates, IsDate, On
  <1>5. d \in dates
    <2> DEFINE offset == MonthIndex(d) - MonthIndex(ref)
    <2>1. offset \in {-1, 0, 1}
      <3>1. Away(Ordinal(d), Ordinal(ref)) <= 28
        BY <1>3 DEF Away
      <3> QED
        BY <3>1, NearMonths
    <2>2. MonthIndex(d) = 12 * ref.year + Index(offset)
      BY <1>2, <1>3 DEF MonthIndex
    <2>3. d.year = MonthIndex(d) \div 12 /\ d.month = (MonthIndex(d) % 12) + 1
      BY OrdinalOf
    <2> DEFINE j == Index(offset)
    <2>4. j \in Int
      BY <1>2, <2>1
    <2> HIDE DEF offset
    <2>5. d.year = ref.year + (j \div 12) /\ d.month = (j % 12) + 1
      <3> HIDE DEF j
      <3> QED
        BY <1>2, <2>2, <2>3, <2>4 DEF j
    <2>6. d = On(d.year, d.month, d.day)
      BY DEF CalendarDates, On
    <2>7. offset \in -1 .. 1
      BY <2>1
    <2>8. d \in months
      BY <2>5, <2>6, <2>7
    <2> QED
      BY <1>3, <2>8
  <1> HIDE DEF dates
  <1>6. candidates \in SUBSET Int /\ Ordinal(d) \in candidates
    BY <1>4, <1>5, OrdinalOf
  <1>7. Closest(Ordinal(d), candidates, Ordinal(ref))
    <2> SUFFICES ASSUME NEW e \in dates, Ordinal(e) # Ordinal(d)
                 PROVE  Away(Ordinal(e), Ordinal(ref)) > Away(Ordinal(d), Ordinal(ref))
      BY DEF Closest
    <2>1. e \in CalendarDates /\ e.day = d.day /\ e # d
      BY <1>4
    <2>2. MonthIndex(e) # MonthIndex(d)
      BY <2>1, DateOfIndex
    <2>3. Away(Ordinal(e), Ordinal(d)) >= 28 /\ Ordinal(e) \in Int
      BY <2>1, <2>2, SameDayOfMonths, OrdinalOf
    <2> QED
      BY <1>3, <2>3 DEF Away
  <1> HIDE DEF candidates
  <1> QED
    BY <1>1, <1>3, <1>6, <1>7, NearestIs

(* The first of a month is a year or more after the last one.              *)
LEMMA YearApart ==
  ASSUME NEW y \in Int, NEW m \in 1 .. 12
  PROVE  /\ YearStart(y) + DaysBeforeMonth(y, m) \in Int
         /\ YearStart(y + 1) + DaysBeforeMonth(y + 1, m)
               >= YearStart(y) + DaysBeforeMonth(y, m) + 365
  <1> DEFINE leap(z) == IF LeapYear(z) THEN 1 ELSE 0
             before == <<0, 31, 59, 90, 120, 151, 181, 212, 243, 273, 304, 334>>
             b == before[m]
  <1>1. m = 1 \/ m = 2 \/ m = 3 \/ m = 4 \/ m = 5 \/ m = 6 \/ m = 7 \/ m = 8 \/ m = 9 \/ m = 10
           \/ m = 11 \/ m = 12
    OBVIOUS
  <1>2. b \in Int
    BY <1>1
  <1>3. /\ DaysBeforeMonth(y, m) = b + (IF m > 2 THEN leap(y) ELSE 0)
        /\ DaysBeforeMonth(y + 1, m) = b + (IF m > 2 THEN leap(y + 1) ELSE 0)
    BY DEF DaysBeforeMonth
  <1>4. leap(y) \in {0, 1} /\ leap(y + 1) \in {0, 1}
    OBVIOUS
  <1>5. YearStart(y) \in Int /\ YearStart(y + 1) = YearStart(y) + 365 + leap(y)
    BY YearLength
  <1> HIDE DEF leap, b, before
  <1> QED
    BY <1>2, <1>3, <1>4, <1>5

LEMMA YearsApart ==
  ASSUME NEW d \in CalendarDates, NEW e \in CalendarDates, d.month = e.month, d.day = e.day,
         e.year = d.year + 1 \/ e.year = d.year + 2
  PROVE  Ordinal(e) - Ordinal(d) >= 365
  <1> DEFINE y == d.year
             m == d.month
             S(z) == YearStart(z) + DaysBeforeMonth(z, m)
  <1>1. y \in Int /\ y + 1 \in Int /\ m \in 1 .. 12 /\ e.year \in Int /\ e.month = m
    BY DEF CalendarDates
  <1>2. Ordinal(d) = S(y) + d.day /\ Ordinal(e) = S(e.year) + e.day
    BY <1>1 DEF Ordinal, YearStart
  <1>3. d.day \in Int /\ e.day = d.day
    BY OrdinalOf
  <1> HIDE DEF y, m
  <1>4. /\ YearStart(y) + DaysBeforeMonth(y, m) \in Int
        /\ YearStart(y + 1) + DaysBeforeMonth(y + 1, m)
              >= YearStart(y) + DaysBeforeMonth(y, m) + 365
    BY <1>1, YearApart
  <1> DEFINE z == y + 1
  <1> HIDE DEF z
  <1>5. /\ YearStart(z) + DaysBeforeMonth(z, m) \in Int
        /\ YearStart(z + 1) + DaysBeforeMonth(z + 1, m)
              >= YearStart(z) + DaysBeforeMonth(z, m) + 365
    BY <1>1, YearApart DEF z
  <1> DEFINE w == z + 1
  <1>7. w \in Int
    BY <1>1 DEF z
  <1> HIDE DEF w
  <1>8. YearStart(w) + DaysBeforeMonth(w, m) \in Int
    BY <1>1, <1>7, YearApart
  <1>9. w = y + 2
    BY <1>1 DEF w, z
  <1>6. S(z) >= S(y) + 365 /\ S(w) >= S(z) + 365 /\ S(y) \in Int /\ S(z) \in Int /\ S(w) \in Int
    BY <1>4, <1>5, <1>8 DEF z, w
  <1>10. e.year = z \/ e.year = w
    BY <1>9 DEF y, z
  <1> HIDE DEF S
  <1> QED
    BY <1>2, <1>3, <1>6, <1>10

(* CalendarDates half a year apart are of one year or of two that follow.          *)
LEMMA NearYears ==
  ASSUME NEW d \in CalendarDates, NEW e \in CalendarDates, Away(Ordinal(d), Ordinal(e)) <= 182
  PROVE  d.year - e.year \in {-1, 0, 1}
  <1>1. /\ MonthIndex(d) \in Int /\ MonthIndex(e) \in Int
        /\ Ordinal(d) \in Int /\ Ordinal(e) \in Int
    BY OrdinalOf
  <1>2. /\ d.year \in Int /\ e.year \in Int /\ d.month \in 1 .. 12 /\ e.month \in 1 .. 12
        /\ MonthIndex(d) = 12 * d.year + d.month - 1 /\ MonthIndex(e) = 12 * e.year + e.month - 1
    BY DEF CalendarDates, MonthIndex
  <1>3. MonthIndex(e) - MonthIndex(d) <= 12
    <2> SUFFICES ASSUME MonthIndex(e) - MonthIndex(d) > 12 PROVE FALSE
      BY <1>1
    <2>1. MonthIndex(d) < MonthIndex(e)
      BY <1>1
    <2>2. Ordinal(e) - Ordinal(d) >= 28 * (MonthIndex(e) - MonthIndex(d)) - 30
      BY <2>1, LaterMonthIsLater
    <2> QED
      BY <1>1, <2>2 DEF Away
  <1>4. MonthIndex(d) - MonthIndex(e) <= 12
    <2> SUFFICES ASSUME MonthIndex(d) - MonthIndex(e) > 12 PROVE FALSE
      BY <1>1
    <2>1. MonthIndex(e) < MonthIndex(d)
      BY <1>1
    <2>2. Ordinal(d) - Ordinal(e) >= 28 * (MonthIndex(d) - MonthIndex(e)) - 30
      BY <2>1, LaterMonthIsLater
    <2> QED
      BY <1>1, <2>2 DEF Away
  <1> QED
    BY <1>2, <1>3, <1>4

(* A day and a month resolve to the date within half a year they name.     *)
LEMMA NearestYearIs ==
  ASSUME NEW m, NEW ref \in CalendarDates, NEW d \in CalendarDates,
         m.day = d.day, m.month = d.month,
         Away(Ordinal(d), Ordinal(ref)) <= 182
  PROVE  NearestYear(m, ref) = {Ordinal(d)}
  <1> DEFINE years == {z \in ref.year - 1 .. ref.year + 1 : m.day <= DaysInMonth(z, m.month)}
             candidates == {Ordinal(On(y, m.month, m.day)) : y \in years}
  <1>1. NearestYear(m, ref) = Nearest(candidates, Unsaid, Ordinal(ref))
    BY DEF NearestYear
  <1>2. ref.year \in Int /\ d.year \in Int /\ d.month \in 1 .. 12 /\ d.year - ref.year \in {-1, 0, 1}
    BY NearYears DEF CalendarDates
  <1>3. /\ d.day \in Int /\ 1 <= d.day /\ d.day <= DaysInMonth(d.year, d.month)
        /\ Ordinal(d) \in Int /\ Ordinal(ref) \in Int
    BY OrdinalOf
  <1>4. ASSUME NEW y \in years
        PROVE  /\ On(y, m.month, m.day) \in CalendarDates /\ Ordinal(On(y, m.month, m.day)) \in Int
               /\ y \in Int /\ y - ref.year \in {-1, 0, 1}
    <2>1. y \in Int /\ y - ref.year \in {-1, 0, 1} /\ d.day <= DaysInMonth(y, d.month)
      BY <1>2
    <2>2. DaysInMonth(y, d.month) \in Int /\ DaysInMonth(y, d.month) <= 31
      BY <1>2, <2>1, MonthsOfYear
    <2>3. d.day \in 1 .. DaysInMonth(y, d.month) /\ d.day \in 1 .. 31
      BY <1>3, <2>1, <2>2
    <2>4. On(y, m.month, m.day) \in CalendarDates
      BY <1>2, <2>1, <2>3 DEF CalendarDates, IsDate, On
    <2> QED
      BY <2>1, <2>4, OrdinalOf
  <1>5. d.year \in years /\ d = On(d.year, m.month, m.day)
    BY <1>2, <1>3 DEF CalendarDates, On
  <1> HIDE DEF years
  <1>6. candidates \in SUBSET Int /\ Ordinal(d) \in candidates
    BY <1>4, <1>5
  <1>7. Closest(Ordinal(d), candidates, Ordinal(ref))
    <2> SUFFICES ASSUME NEW y \in years, Ordinal(On(y, m.month, m.day)) # Ordinal(d)
                 PROVE  Away(Ordinal(On(y, m.month, m.day)), Ordinal(ref))
                           > Away(Ordinal(d), Ordinal(ref))
      BY DEF Closest
    <2> DEFINE e == On(y, m.month, m.day)
    <2>1. e \in CalendarDates /\ Ordinal(e) \in Int /\ y \in Int /\ y - ref.year \in {-1, 0, 1}
      BY <1>4
    <2>2. e.day = d.day /\ e.month = d.month /\ e.year = y
      BY DEF On
    <2>3. y # d.year
      BY <1>5
    <2> HIDE DEF e
    <2>4. e.year = d.year + 1 \/ e.year = d.year + 2 \/ d.year = e.year + 1 \/ d.year = e.year + 2
      BY <1>2, <2>1, <2>2, <2>3
    <2>5. Ordinal(e) - Ordinal(d) >= 365 \/ Ordinal(d) - Ordinal(e) >= 365
      BY <2>1, <2>2, <2>4, YearsApart
    <2>6. Away(Ordinal(e), Ordinal(ref)) > Away(Ordinal(d), Ordinal(ref))
      BY <1>3, <2>1, <2>5 DEF Away
    <2> QED
      BY <2>6 DEF e
  <1>8. FallsOn(Ordinal(d), Unsaid)
    BY DEF FallsOn
  <1> HIDE DEF candidates
  <1> QED
    BY <1>1, <1>3, <1>6, <1>7, <1>8, NearestIs

(* A mention of a date resolves to it: with its month if it lies within    *)
(* half a year of the call, by its day within a fortnight.                 *)
LEMMA DayOfMonthIs ==
  ASSUME NEW m, NEW ref \in CalendarDates, NEW d \in CalendarDates,
         m.day = d.day, m.month = d.month,
         Agrees(m.year, d.year), Away(Ordinal(d), Ordinal(ref)) <= 182
  PROVE  DayOfMonth(m, ref) = {Ordinal(d)}
  <1>1. CASE m.year # Unsaid
    <2>1. On(m.year, m.month, m.day) = d
      BY <1>1 DEF Agrees, CalendarDates, On
    <2>2. IsDate(d)
      BY DEF CalendarDates
    <2> QED
      BY <1>1, <2>1, <2>2 DEF DayOfMonth
  <1>2. CASE m.year = Unsaid
    <2>1. m.day \in 1 .. 31
      BY DEF CalendarDates
    <2> QED
      BY <1>2, <2>1, NearestYearIs DEF DayOfMonth
  <1> QED
    BY <1>1, <1>2

LEMMA ResolveDated ==
  ASSUME NEW m, NEW ref \in CalendarDates, NEW d \in CalendarDates, m.ahead = Unsaid,
         m.day = d.day, m.month = d.month,
         Agrees(m.year, d.year), Away(Ordinal(d), Ordinal(ref)) <= 182
  PROVE  Resolve(m, ref) = {Ordinal(d)}
  <1>1. m.month # Unsaid
    BY UnsaidIsNoNumber DEF CalendarDates
  <1>2. DayOfMonth(m, ref) = {Ordinal(d)}
    BY DayOfMonthIs
  <1> QED
    BY <1>1, <1>2 DEF Resolve

(* Dates resolve to what was meant: a day within a fortnight of the call   *)
(* that agrees with all that was said of it is the one the code resolves   *)
(* the mention to, on any date of the calendar (dates.py:48-114).          *)
THEOREM ResolveMeant ==
  ASSUME NEW m, NEW ref \in CalendarDates, NEW near \in SUBSET (-13 .. 13),
         NEW k \in Meant(m, ref, near),
         m.ahead = Unsaid => m.month # Unsaid \/ m.weekday # Unsaid
  PROVE  Resolve(m, ref) = {Ordinal(ref) + k}
  <1> DEFINE d == DayAt(ref, k)
  <1>1. k \in near /\ k \in Int /\ -13 <= k /\ k <= 13
    BY DEF Meant
  <1>2. \/ m.ahead = k
        \/ /\ m.ahead = Unsaid /\ m.day = d.day
           /\ Agrees(m.month, d.month) /\ Agrees(m.year, d.year)
           /\ Agrees(m.weekday, (Weekday(Ordinal(ref)) + k) % 7)
    BY DEF Meant
  <1>3. CASE m.ahead = k
    <2>1. m.ahead # Unsaid
      BY <1>1, <1>3, UnsaidIsNoNumber
    <2> QED
      BY <1>3, <2>1 DEF Resolve
  <1>4. CASE /\ m.ahead = Unsaid /\ m.day = d.day
             /\ Agrees(m.month, d.month) /\ Agrees(m.year, d.year)
             /\ Agrees(m.weekday, (Weekday(Ordinal(ref)) + k) % 7)
    <2>1. d \in CalendarDates /\ Ordinal(d) = Ordinal(ref) + k /\ Ordinal(ref) \in Int
      BY <1>1, DayAtWalks, OrdinalOf
    <2> HIDE DEF d
    <2>2. Away(Ordinal(d), Ordinal(ref)) <= 13 /\ Away(Ordinal(d), Ordinal(ref)) <= 182
      BY <1>1, <2>1 DEF Away
    <2>3. CASE m.month # Unsaid
      <3>1. m.month = d.month
        BY <1>4, <2>3 DEF Agrees
      <3>2. Resolve(m, ref) = {Ordinal(d)}
        BY <1>4, <2>1, <2>2, <3>1, ResolveDated
      <3> QED
        BY <2>1, <3>2
    <2>4. CASE m.month = Unsaid
      <3>1. m.weekday # Unsaid
        BY <1>4, <2>4
      <3>2. m.weekday = (Weekday(Ordinal(ref)) + k) % 7
        BY <1>4, <3>1 DEF Agrees
      <3>3. Weekday(Ordinal(d)) = (Weekday(Ordinal(ref)) + k) % 7
        BY <1>1, <2>1 DEF Weekday
      <3>4. FallsOn(Ordinal(d), m.weekday)
        BY <3>2, <3>3 DEF FallsOn
      <3>5. NearestMonth(m, ref) = {Ordinal(d)}
        BY <1>4, <2>1, <2>2, <3>4, NearestMonthIs
      <3>6. ~Unreadable(m)
        BY <1>4, <2>1, OrdinalOf DEF Unreadable
      <3>7. Resolve(m, ref) = {Ordinal(d)}
        BY <1>4, <2>4, <3>1, <3>5, <3>6 DEF Resolve
      <3> QED
        BY <2>1, <3>7
    <2> QED
      BY <2>3, <2>4
  <1> QED
    BY <1>2, <1>3, <1>4

LEMMA FirstDateIs ==
  ASSUME NEW mentions, NEW ref, NEW o, 1 \in DOMAIN mentions, DOMAIN mentions \in SUBSET Nat \ {0},
         Resolve(mentions[1], ref) = {o}
  PROVE  FirstDate(mentions, ref) = {o}
  <1> DEFINE named == {i \in DOMAIN mentions : Resolve(mentions[i], ref) # {}}
             first == {j \in named : \A k \in named : j <= k}
  <1>1. 1 \in named /\ named \in SUBSET Nat
    OBVIOUS
  <1>2. \A k \in named : k \in Nat /\ 1 <= k
    OBVIOUS
  <1>3. FirstDate(mentions, ref) = UNION {Resolve(mentions[i], ref) : i \in first}
    BY DEF FirstDate
  <1> HIDE DEF named
  <1>4. first = {1}
    <2>1. 1 \in first
      BY <1>1, <1>2
    <2>2. ASSUME NEW j \in first PROVE j = 1
      <3>1. j \in named /\ j <= 1
        BY <1>1
      <3>2. j \in Nat /\ 1 <= j
        BY <1>2, <3>1
      <3> QED
        BY <3>1, <3>2
    <2> QED
      BY <2>1, <2>2
  <1> HIDE DEF first
  <1> QED
    BY <1>3, <1>4

-----------------------------------------------------------------------------
(* Amounts in words.                                                       *)

(* A sum of _words_to_int.                                                 *)
RunningSum == [total : Nat, current : Nat]
SumOf(t, c) == [total |-> t, current |-> c]

LEMMA SmallNumbersCount ==
  /\ \A w \in DOMAIN SmallNumbers : SmallNumbers[w] \in Nat
  /\ "y" \notin DOMAIN SmallNumbers /\ "mil" \notin DOMAIN SmallNumbers
  /\ "millones" \notin DOMAIN SmallNumbers /\ "millon" \notin DOMAIN SmallNumbers
  /\ "debe" \notin DOMAIN SmallNumbers /\ "pesos" \notin DOMAIN SmallNumbers
  <1>1. \A w \in DOMAIN SmallNumbers : SmallNumbers[w] \in Nat
    BY DEF SmallNumbers
  <1>2. /\ "y" \notin DOMAIN SmallNumbers /\ "mil" \notin DOMAIN SmallNumbers
        /\ "millones" \notin DOMAIN SmallNumbers /\ "millon" \notin DOMAIN SmallNumbers
        /\ "debe" \notin DOMAIN SmallNumbers /\ "pesos" \notin DOMAIN SmallNumbers
    BY DEF SmallNumbers
  <1> QED
    BY <1>1, <1>2

LEMMA WordOfNumber ==
  ASSUME NEW n \in Nat,
         n \in 1 .. 30 \/ n \in {40, 50, 60, 70, 80, 90}
           \/ n \in {100, 200, 300, 400, 500, 600, 700, 800, 900}
  PROVE  \E w \in DOMAIN SmallNumbers : SmallNumbers[w] = n
  BY DEF SmallNumbers


AddsWords(it, run) ==
  it = [T \in SUBSET DOMAIN run |->
          IF T = {} THEN [total |-> 0, current |-> 0]
          ELSE AddWord(it[T \ {Seqs!Max(T)}], run[Seqs!Max(T)])]

LEMMA FoldOfWords ==
  ASSUME NEW run
  PROVE  LET it == CHOOSE it : AddsWords(it, run)
         IN  WordsToInt(run) = it[DOMAIN run].total + it[DOMAIN run].current
  BY DEF WordsToInt, Seqs!FoldLeft, Seqs!MapThenFoldSet, AddsWords

LEMMA AddWordType ==
  ASSUME NEW s \in RunningSum, NEW w
  PROVE  AddWord(s, w) \in RunningSum
  <1>1. s.total \in Nat /\ s.current \in Nat
    BY DEF RunningSum
  <1>2. CASE w \in DOMAIN SmallNumbers
    BY <1>1, <1>2, SmallNumbersCount DEF AddWord, RunningSum
  <1>3. CASE w \notin DOMAIN SmallNumbers
    BY <1>1, <1>3 DEF AddWord, RunningSum, OneIfNone
  <1> QED
    BY <1>2, <1>3

LEMMA GreatestOfFirst ==
  ASSUME NEW n \in Nat, NEW T \in SUBSET (1 .. n), T # {}
  PROVE  Seqs!Max(T) \in T /\ \A x \in T : x <= Seqs!Max(T)
  <1>1. \E t \in T : \A u \in T : u <= t
    BY GreatestExists
  <1>2. \E t \in T : \A u \in T : t >= u
    BY <1>1
  <1>3. \A t, u \in T : t >= u <=> u <= t
    OBVIOUS
  <1> QED
    BY <1>2, <1>3 DEF Seqs!Max

(* The words of a sequence, added one by one, lead from one sum to another.*)
Steps(P, words, from, to) ==
  /\ P[0] = from /\ P[Len(words)] = to
  /\ \A i \in 1 .. Len(words) : P[i] = AddWord(P[i - 1], words[i])
Reads(words, from, to) == \E P : Steps(P, words, from, to)

LEMMA AddsWordsExists ==
  ASSUME NEW W, NEW run \in Seq(W)
  PROVE  \E it : AddsWords(it, run)
  <1> DEFINE S == DOMAIN run
             base == [total |-> 0, current |-> 0]
             pick == [T \in SUBSET S |-> Seqs!Max(T)]
             step == [p \in S \X RunningSum |-> AddWord(p[2], run[p[1]])]
  <1>1. Len(run) \in Nat /\ S = 1 .. Len(run)
    BY LenProperties
  <1>2. IsFiniteSet(S)
    BY <1>1, FS_Interval
  <1>3. Picks(pick, S)
    BY <1>1, GreatestOfFirst DEF Picks
  <1>4. step \in [S \X RunningSum -> RunningSum]
    BY AddWordType
  <1>5. \A i \in S : \A s \in RunningSum : step[<<i, s>>] = AddWord(s, run[i])
    OBVIOUS
  <1>6. \A T \in SUBSET S : pick[T] = Seqs!Max(T)
    OBVIOUS
  <1>7. base \in RunningSum
    BY DEF RunningSum
  <1> HIDE DEF pick, step, base
  <1>8. PICK it \in [SUBSET S -> RunningSum] : Folds(it, S, base, step, pick)
    BY <1>2, <1>3, <1>4, <1>7, FoldExists
  <1>9. \A T \in SUBSET S :
           it[T] = IF T = {} THEN base ELSE step[<<pick[T], it[T \ {pick[T]}]>>]
    BY <1>8 DEF Folds
  <1>10. ASSUME NEW T \in SUBSET S
         PROVE  it[T] = IF T = {} THEN base
                        ELSE AddWord(it[T \ {Seqs!Max(T)}], run[Seqs!Max(T)])
    <2>1. CASE T = {}
      BY <1>9, <2>1
    <2>2. CASE T # {}
      <3>1. pick[T] \in S /\ it[T \ {pick[T]}] \in RunningSum
        BY <1>3, <1>8, <2>2 DEF Picks
      <3>2. it[T] = AddWord(it[T \ {pick[T]}], run[pick[T]])
        BY <1>5, <1>9, <2>2, <3>1
      <3> QED
        BY <1>6, <2>2, <3>2
    <2> QED
      BY <2>1, <2>2
  <1>11. AddsWords(it, run)
    BY <1>8, <1>10 DEF AddsWords, base
  <1> QED
    BY <1>11

LEMMA WordsAreRead ==
  ASSUME NEW W, NEW run \in Seq(W), NEW to, Reads(run, [total |-> 0, current |-> 0], to)
  PROVE  WordsToInt(run) = to.total + to.current
  <1> DEFINE it == CHOOSE it : AddsWords(it, run)
             base == [total |-> 0, current |-> 0]
  <1>1. AddsWords(it, run)
    BY AddsWordsExists
  <1>2. WordsToInt(run) = it[DOMAIN run].total + it[DOMAIN run].current
    BY FoldOfWords
  <1> HIDE DEF it
  <1>3. Len(run) \in Nat /\ DOMAIN run = 1 .. Len(run)
    BY LenProperties
  <1>4. PICK P : Steps(P, run, base, to)
    BY DEF Reads
  <1> DEFINE K == {k \in Nat : k <= Len(run) => it[1 .. k] = P[k]}
  <1>5. 0 \in K
    <2>1. 1 .. 0 = {} /\ {} \in SUBSET DOMAIN run
      OBVIOUS
    <2>2. it[{}] = base
      BY <1>1, <2>1 DEF AddsWords
    <2> QED
      BY <1>4, <2>1, <2>2 DEF Steps
  <1>6. ASSUME NEW k \in Nat, k \in K PROVE k + 1 \in K
    <2> SUFFICES ASSUME k + 1 <= Len(run) PROVE it[1 .. (k + 1)] = P[k + 1]
      OBVIOUS
    <2> DEFINE T == 1 .. (k + 1)
    <2>1. T \in SUBSET DOMAIN run /\ T # {} /\ T \in SUBSET (1 .. Len(run))
      <3>1. k + 1 \in T
        OBVIOUS
      <3>2. T \in SUBSET (1 .. Len(run))
        BY <1>3
      <3> QED
        BY <1>3, <3>1, <3>2
    <2>2. Seqs!Max(T) \in T /\ \A x \in T : x <= Seqs!Max(T)
      BY <1>3, <2>1, GreatestOfFirst
    <2>3. Seqs!Max(T) = k + 1
      <3>1. k + 1 \in T
        OBVIOUS
      <3> DEFINE g == Seqs!Max(T)
      <3>2. g \in T /\ k + 1 <= g
        BY <2>2, <3>1
      <3> HIDE DEF g
      <3>3. g = k + 1
        BY <3>2
      <3> QED
        BY <3>3 DEF g
    <2>4. T \ {k + 1} = 1 .. k
      OBVIOUS
    <2>5. it[T] = AddWord(it[T \ {Seqs!Max(T)}], run[Seqs!Max(T)])
      BY <1>1, <2>1 DEF AddsWords
    <2>6. it[T] = AddWord(it[1 .. k], run[k + 1])
      BY <2>3, <2>4, <2>5
    <2>7. it[1 .. k] = P[k]
      BY <1>3, <1>6
    <2>8. P[k + 1] = AddWord(P[(k + 1) - 1], run[k + 1])
      BY <1>3, <1>4 DEF Steps
    <2>9. (k + 1) - 1 = k
      OBVIOUS
    <2> QED
      BY <2>6, <2>7, <2>8, <2>9
  <1> HIDE DEF K
  <1>7. Len(run) \in K
    BY <1>3, <1>5, <1>6, InductionOnSet
  <1>8. it[DOMAIN run] = to
    BY <1>3, <1>4, <1>7 DEF K, Steps
  <1> QED
    BY <1>2, <1>8

LEMMA ReadsNothing ==
  ASSUME NEW s
  PROVE  Reads(<< >>, s, s)
  <1> DEFINE P == [i \in 0 .. 0 |-> s]
  <1>1. Steps(P, << >>, s, s)
    BY DEF Steps
  <1> QED
    BY <1>1 DEF Reads

LEMMA ReadsWord ==
  ASSUME NEW s, NEW w
  PROVE  Reads(<<w>>, s, AddWord(s, w))
  <1> DEFINE v == AddWord(s, w)
             P == [i \in 0 .. 1 |-> IF i = 0 THEN s ELSE v]
  <1>1. P[0] = s /\ P[1] = v /\ Len(<<w>>) = 1 /\ <<w>>[1] = w
    OBVIOUS
  <1> HIDE DEF P
  <1>2. ASSUME NEW i \in 1 .. 1 PROVE P[i] = AddWord(P[i - 1], <<w>>[i])
    <2>1. i = 1 /\ i - 1 = 0
      OBVIOUS
    <2> QED
      BY <1>1, <2>1
  <1>3. Steps(P, <<w>>, s, v)
    BY <1>1, <1>2 DEF Steps
  <1> QED
    BY <1>3 DEF Reads

LEMMA ReadsOn ==
  ASSUME NEW W, NEW v \in Seq(W), NEW w \in Seq(W), NEW a, NEW b, NEW c,
         Reads(v, a, b), Reads(w, b, c)
  PROVE  Reads(v \o w, a, c)
  <1>1. PICK P : Steps(P, v, a, b)
    BY DEF Reads
  <1>2. PICK Q : Steps(Q, w, b, c)
    BY DEF Reads
  <1> DEFINE n == Len(v)
             k == Len(w)
             x == v \o w
             R == [i \in 0 .. (n + k) |-> IF i <= n THEN P[i] ELSE Q[i - n]]
  <1>3. /\ n \in Nat /\ k \in Nat /\ Len(x) = n + k
        /\ \A i \in 1 .. n + k : x[i] = IF i <= n THEN v[i] ELSE w[i - n]
    BY ConcatProperties, LenProperties
  <1>4. /\ P[0] = a /\ P[n] = b /\ \A i \in 1 .. n : P[i] = AddWord(P[i - 1], v[i])
        /\ Q[0] = b /\ Q[k] = c /\ \A i \in 1 .. k : Q[i] = AddWord(Q[i - 1], w[i])
    BY <1>1, <1>2 DEF Steps
  <1> HIDE DEF n, k, x
  <1>5. R[0] = a
    BY <1>3, <1>4
  <1>6. R[n + k] = c
    <2>1. CASE k = 0
      BY <1>3, <1>4, <2>1
    <2>2. CASE k # 0
      <3>1. ~(n + k <= n) /\ (n + k) - n = k /\ n + k \in 0 .. (n + k)
        BY <1>3, <2>2
      <3> QED
        BY <1>4, <3>1
    <2> QED
      BY <2>1, <2>2
  <1>7. \A i \in 0 .. k : R[n + i] = Q[i]
    <2> SUFFICES ASSUME NEW i \in 0 .. k PROVE R[n + i] = Q[i]
      OBVIOUS
    <2>1. n + i \in 0 .. (n + k) /\ (n + i) - n = i
      BY <1>3
    <2>2. CASE i = 0
      BY <1>3, <1>4, <2>1, <2>2
    <2>3. CASE i # 0
      <3>1. ~(n + i <= n)
        BY <1>3, <2>3
      <3> QED
        BY <2>1, <3>1
    <2> QED
      BY <2>2, <2>3
  <1>8. ASSUME NEW i \in 1 .. (n + k) PROVE R[i] = AddWord(R[i - 1], x[i])
    <2>1. CASE i <= n
      <3>1. R[i] = P[i] /\ R[i - 1] = P[i - 1] /\ x[i] = v[i] /\ i \in 1 .. n
        BY <1>3, <2>1
      <3> QED
        BY <1>4, <3>1
    <2>2. CASE ~(i <= n)
      <3> DEFINE j == i - n
      <3>1. j \in 1 .. k /\ n + j = i /\ j - 1 \in 0 .. k /\ n + (j - 1) = i - 1 /\ x[i] = w[j]
        BY <1>3, <2>2
      <3> HIDE DEF j, R
      <3>2. R[n + j] = Q[j] /\ R[n + (j - 1)] = Q[j - 1] /\ Q[j] = AddWord(Q[j - 1], w[j])
        <4>1. j \in 0 .. k
          BY <1>3, <3>1
        <4> QED
          BY <1>4, <1>7, <3>1, <4>1
      <3> QED
        BY <3>1, <3>2
    <2> QED
      BY <2>1, <2>2
  <1> HIDE DEF R
  <1>9. Steps(R, x, a, c)
    BY <1>3, <1>5, <1>6, <1>8 DEF Steps
  <1> QED
    BY <1>9 DEF Reads, x

Vocabulary == DOMAIN SmallNumbers \cup {"y", "mil", "millones", "debe", "pesos"}

(* All words of a sequence belong to one run.                              *)
Smooth(words) == \A i \in 1 .. Len(words) : InRun(words, i)

(* A sequence is one run, and adds a number to whatever was read before.   *)
Adds(words, n) ==
  /\ words \in Seq(Vocabulary) /\ Smooth(words)
  /\ \A t, c \in Nat : Reads(words, SumOf(t, c), SumOf(t, c + n))

LEMMA SmoothOn ==
  ASSUME NEW v \in Seq(Vocabulary), NEW w \in Seq(Vocabulary), Smooth(v), Smooth(w)
  PROVE  v \o w \in Seq(Vocabulary) /\ Smooth(v \o w)
  <1> DEFINE n == Len(v)
             k == Len(w)
             x == v \o w
  <1>1. /\ n \in Nat /\ k \in Nat /\ Len(x) = n + k /\ x \in Seq(Vocabulary)
        /\ \A i \in 1 .. n + k : x[i] = IF i <= n THEN v[i] ELSE w[i - n]
    BY ConcatProperties, LenProperties
  <1> HIDE DEF n, k, x
  <1>2. ASSUME NEW i \in 1 .. Len(x) PROVE InRun(x, i)
    <2>1. CASE i <= n
      <3>1. i \in 1 .. n /\ x[i] = v[i]
        BY <1>1, <2>1
      <3>2. InRun(v, i)
        BY <3>1 DEF Smooth, n
      <3>3. CASE IsNumberWord(v[i])
        BY <3>1, <3>3 DEF InRun
      <3>4. CASE ~IsNumberWord(v[i])
        <4>1. v[i] = "y" /\ i \in 2 .. n - 1 /\ IsNumberWord(v[i - 1]) /\ IsNumberWord(v[i + 1])
          BY <3>2, <3>4 DEF InRun, n
        <4>2. x[i - 1] = v[i - 1] /\ x[i + 1] = v[i + 1] /\ i \in 2 .. Len(x) - 1
          BY <1>1, <4>1
        <4> QED
          BY <3>1, <4>1, <4>2 DEF InRun
      <3> QED
        BY <3>3, <3>4
    <2>2. CASE ~(i <= n)
      <3> DEFINE j == i - n
      <3>1. j \in 1 .. k /\ x[i] = w[j] /\ i = n + j
        BY <1>1, <2>2
      <3> HIDE DEF j
      <3>2. InRun(w, j)
        BY <3>1 DEF Smooth, k
      <3>3. CASE IsNumberWord(w[j])
        BY <3>1, <3>3 DEF InRun
      <3>4. CASE ~IsNumberWord(w[j])
        <4>1. w[j] = "y" /\ j \in 2 .. k - 1 /\ IsNumberWord(w[j - 1]) /\ IsNumberWord(w[j + 1])
          BY <3>2, <3>4 DEF InRun, k
        <4>2. /\ i - 1 \in 1 .. n + k /\ i + 1 \in 1 .. n + k
              /\ ~(i - 1 <= n) /\ ~(i + 1 <= n) /\ (i - 1) - n = j - 1 /\ (i + 1) - n = j + 1
              /\ i \in 2 .. Len(x) - 1
          BY <1>1, <3>1, <4>1
        <4>3. x[i - 1] = w[j - 1] /\ x[i + 1] = w[j + 1]
          BY <1>1, <4>2
        <4> QED
          BY <3>1, <4>1, <4>2, <4>3 DEF InRun
      <3> QED
        BY <3>3, <3>4
    <2> QED
      BY <2>1, <2>2
  <1> QED
    BY <1>1, <1>2 DEF Smooth, x

LEMMA OneWord ==
  ASSUME NEW w \in Vocabulary
  PROVE  /\ <<w>> \in Seq(Vocabulary)
         /\ IsNumberWord(w) => Smooth(<<w>>)
  <1>1. <<w>> \in Seq(Vocabulary) /\ Len(<<w>>) = 1 /\ <<w>>[1] = w
    OBVIOUS
  <1>2. IsNumberWord(w) => Smooth(<<w>>)
    BY <1>1 DEF Smooth, InRun
  <1> QED
    BY <1>1, <1>2

LEMMA NumberWord ==
  ASSUME NEW w \in DOMAIN SmallNumbers, NEW t \in Nat, NEW c \in Nat
  PROVE  /\ w \in Vocabulary /\ IsNumberWord(w) /\ SmallNumbers[w] \in Nat
         /\ AddWord(SumOf(t, c), w) = SumOf(t, c + SmallNumbers[w])
  BY SmallNumbersCount DEF Vocabulary, IsNumberWord, AddWord, SumOf

LEMMA UnknownWord ==
  ASSUME NEW s
  PROVE  AddWord(s, "y") = s
  BY SmallNumbersCount DEF AddWord, Millions

IsWord(n) == n \in Nat /\ \E w \in DOMAIN SmallNumbers : SmallNumbers[w] = n

LEMMA WordIs ==
  ASSUME NEW n, IsWord(n)
  PROVE  \E w \in DOMAIN SmallNumbers : Word(n) = <<w>> /\ SmallNumbers[w] = n
  BY DEF IsWord, Word

LEMMA WordAdds ==
  ASSUME NEW n, IsWord(n)
  PROVE  Adds(Word(n), n)
  <1>1. PICK w \in DOMAIN SmallNumbers : Word(n) = <<w>> /\ SmallNumbers[w] = n
    BY WordIs
  <1>2. \A t, c \in Nat : AddWord(SumOf(t, c), w) = SumOf(t, c + n)
    BY <1>1, NumberWord
  <1>3. w \in Vocabulary /\ IsNumberWord(w)
    BY NumberWord
  <1>4. \A t, c \in Nat : Reads(<<w>>, SumOf(t, c), SumOf(t, c + n))
    <2> SUFFICES ASSUME NEW t \in Nat, NEW c \in Nat
                 PROVE  Reads(<<w>>, SumOf(t, c), SumOf(t, c + n))
      OBVIOUS
    <2> DEFINE s == SumOf(t, c)
    <2>1. AddWord(s, w) = SumOf(t, c + n)
      BY <1>2
    <2> HIDE DEF s
    <2>2. Reads(<<w>>, s, AddWord(s, w))
      BY ReadsWord
    <2> QED
      BY <2>1, <2>2 DEF s
  <1> QED
    BY <1>1, <1>3, <1>4, OneWord DEF Adds

LEMMA AddsOn ==
  ASSUME NEW n \in Nat, NEW k \in Nat, NEW v, NEW w, Adds(v, n), Adds(w, k)
  PROVE  Adds(v \o w, n + k)
  <1>1. v \in Seq(Vocabulary) /\ w \in Seq(Vocabulary) /\ Smooth(v) /\ Smooth(w)
    BY DEF Adds
  <1>2. v \o w \in Seq(Vocabulary) /\ Smooth(v \o w)
    BY <1>1, SmoothOn
  <1>3. ASSUME NEW t \in Nat, NEW c \in Nat
        PROVE  Reads(v \o w, SumOf(t, c), SumOf(t, c + (n + k)))
    <2> DEFINE x == SumOf(t, c)
               y == SumOf(t, c + n)
               z == SumOf(t, (c + n) + k)
    <2>1. Reads(v, x, y) /\ Reads(w, y, z)
      <3>1. c + n \in Nat
        OBVIOUS
      <3> QED
        BY <3>1 DEF Adds
    <2>2. c + (n + k) = (c + n) + k
      OBVIOUS
    <2> HIDE DEF x, y, z
    <2>3. Reads(v \o w, x, z)
      BY <1>1, <2>1, ReadsOn
    <2> QED
      BY <2>2, <2>3 DEF x, z
  <1> QED
    BY <1>2, <1>3 DEF Adds

LEMMA AddsWithY ==
  ASSUME NEW n, IsWord(n), NEW k, IsWord(k)
  PROVE  Adds(Word(n) \o <<"y">> \o Word(k), n + k)
  <1>1. PICK v \in DOMAIN SmallNumbers : Word(n) = <<v>> /\ SmallNumbers[v] = n
    BY WordIs
  <1>2. PICK w \in DOMAIN SmallNumbers : Word(k) = <<w>> /\ SmallNumbers[w] = k
    BY WordIs
  <1> DEFINE vy == <<v>> \o <<"y">>
             x == vy \o <<w>>
  <1>3. Word(n) \o <<"y">> \o Word(k) = x
    BY <1>1, <1>2
  <1>4. v \in Vocabulary /\ w \in Vocabulary /\ IsNumberWord(v) /\ IsNumberWord(w)
        /\ n \in Nat /\ k \in Nat /\ "y" \in Vocabulary
    BY <1>1, <1>2, NumberWord DEF Vocabulary
  <1>5. /\ <<v>> \in Seq(Vocabulary) /\ <<"y">> \in Seq(Vocabulary) /\ <<w>> \in Seq(Vocabulary)
        /\ Len(<<v>>) = 1 /\ Len(<<"y">>) = 1 /\ Len(<<w>>) = 1
    BY <1>4, OneWord
  <1>8. vy \in Seq(Vocabulary) /\ Len(vy) = 2 /\ vy[1] = v /\ vy[2] = "y"
    BY <1>5, ConcatProperties
  <1> HIDE DEF vy
  <1>9. x \in Seq(Vocabulary) /\ Len(x) = 3 /\ x[1] = v /\ x[2] = "y" /\ x[3] = w
    <2>1. /\ x \in Seq(Vocabulary) /\ Len(x) = Len(vy) + Len(<<w>>)
          /\ \A i \in 1 .. Len(vy) + Len(<<w>>) :
                x[i] = IF i <= Len(vy) THEN vy[i] ELSE <<w>>[i - Len(vy)]
      BY <1>5, <1>8, ConcatProperties
    <2> HIDE DEF x
    <2>2. x[1] = vy[1] /\ x[2] = vy[2] /\ x[3] = <<w>>[3 - 2]
      BY <1>5, <1>8, <2>1
    <2>3. <<w>>[3 - 2] = w
      OBVIOUS
    <2> QED
      BY <1>5, <1>8, <2>1, <2>2, <2>3
  <1> HIDE DEF x
  <1>6. Smooth(x)
    <2>2. InRun(x, 1) /\ InRun(x, 3)
      BY <1>4, <1>9 DEF InRun
    <2>3. InRun(x, 2)
      <3>1. 2 \in 2 .. Len(x) - 1 /\ 2 - 1 = 1 /\ 2 + 1 = 3
        BY <1>9
      <3> QED
        BY <1>4, <1>9, <3>1 DEF InRun
    <2>4. \A i \in 1 .. Len(x) : i = 1 \/ i = 2 \/ i = 3
      BY <1>9
    <2> QED
      BY <2>2, <2>3, <2>4 DEF Smooth
  <1>7. ASSUME NEW t \in Nat, NEW c \in Nat
        PROVE  Reads(x, SumOf(t, c), SumOf(t, c + (n + k)))
    <2> DEFINE a == SumOf(t, c)
               b == SumOf(t, c + n)
               d == SumOf(t, (c + n) + k)
    <2>1. AddWord(a, v) = b /\ AddWord(b, "y") = b /\ AddWord(b, w) = d
      <3>1. c + n \in Nat
        BY <1>4
      <3> QED
        BY <1>1, <1>2, <3>1, NumberWord, UnknownWord
    <2>2. c + (n + k) = (c + n) + k
      BY <1>4
    <2> HIDE DEF a, b, d
    <2>3. Reads(<<v>>, a, b) /\ Reads(<<"y">>, b, b) /\ Reads(<<w>>, b, d)
      <3>1. Reads(<<v>>, a, AddWord(a, v)) /\ Reads(<<"y">>, b, AddWord(b, "y"))
            /\ Reads(<<w>>, b, AddWord(b, w))
        BY ReadsWord
      <3> QED
        BY <2>1, <3>1
    <2>5. Reads(vy, a, b)
      BY <1>5, <2>3, ReadsOn DEF vy
    <2>6. Reads(x, a, d)
      BY <1>5, <1>8, <2>3, <2>5, ReadsOn DEF x
    <2> QED
      BY <2>2, <2>6 DEF a, d
  <1> QED
    BY <1>3, <1>6, <1>7, <1>9 DEF Adds

LEMMA NothingAdds == Adds(<< >>, 0)
  <1>1. << >> \in Seq(Vocabulary) /\ Smooth(<< >>)
    BY DEF Smooth
  <1>2. ASSUME NEW t \in Nat, NEW c \in Nat
        PROVE  Reads(<< >>, SumOf(t, c), SumOf(t, c + 0))
    <2>1. c + 0 = c
      OBVIOUS
    <2> DEFINE s == SumOf(t, c)
    <2> HIDE DEF s
    <2>2. Reads(<< >>, s, s)
      BY ReadsNothing
    <2> QED
      BY <2>1, <2>2 DEF s
  <1> QED
    BY <1>1, <1>2 DEF Adds

LEMMA Below100Adds ==
  ASSUME NEW n \in Nat, n < 100
  PROVE  Adds(SaidBelow100(n), n)
  <1>1. CASE n = 0
    BY <1>1, NothingAdds DEF SaidBelow100
  <1>2. CASE n # 0 /\ (n <= 30 \/ n % 10 = 0)
    <2>1. IsWord(n)
      <3>1. n \in Nat /\ (n \in 1 .. 30 \/ n \in {40, 50, 60, 70, 80, 90})
        BY <1>2
      <3> QED
        BY <3>1, WordOfNumber DEF IsWord
    <2> QED
      BY <1>2, <2>1, WordAdds DEF SaidBelow100
  <1>3. CASE n > 30 /\ n % 10 # 0
    <2> DEFINE r == n % 10
               q == n - r
    <2>1. /\ r \in Nat /\ r \in 1 .. 30 /\ q \in Nat /\ q + r = n
          /\ q \in {30, 40, 50, 60, 70, 80, 90}
      BY <1>3
    <2>2. SaidBelow100(n) = Word(q) \o <<"y">> \o Word(r)
      BY <1>3 DEF SaidBelow100
    <2> HIDE DEF r, q
    <2>3. IsWord(r) /\ IsWord(q)
      <3>1. q \in 1 .. 30 \/ q \in {40, 50, 60, 70, 80, 90}
        BY <2>1
      <3> QED
        BY <2>1, <3>1, WordOfNumber DEF IsWord
    <2>4. Adds(Word(q) \o <<"y">> \o Word(r), q + r)
      BY <2>3, AddsWithY
    <2> QED
      BY <2>1, <2>2, <2>4
  <1> QED
    BY <1>1, <1>2, <1>3

LEMMA Below1000Adds ==
  ASSUME NEW n \in Nat, n < 1000
  PROVE  Adds(SaidBelow1000(n), n)
  <1>1. CASE n < 100
    BY <1>1, Below100Adds DEF SaidBelow1000
  <1>2. CASE ~(n < 100)
    <2> DEFINE r == n % 100
               q == n - r
    <2>1. /\ r \in Nat /\ r < 100 /\ q \in Nat /\ q + r = n
          /\ q \in {100, 200, 300, 400, 500, 600, 700, 800, 900}
      BY <1>2
    <2>2. SaidBelow1000(n) = Word(q) \o SaidBelow100(r)
      BY <1>2 DEF SaidBelow1000
    <2> HIDE DEF r, q
    <2>3. Adds(Word(q), q)
      <3>1. IsWord(q)
        BY <2>1, WordOfNumber DEF IsWord
      <3> QED
        BY <3>1, WordAdds
    <2>4. Adds(SaidBelow100(r), r) /\ r \in Nat
      BY <2>1, Below100Adds
    <2> DEFINE w == SaidBelow100(r)
               v == Word(q)
    <2> HIDE DEF v, w
    <2>5. Adds(v \o w, q + r)
      BY <2>1, <2>3, <2>4, AddsOn DEF v, w
    <2> QED
      BY <2>1, <2>2, <2>5 DEF v, w
  <1> QED
    BY <1>1, <1>2

(* A sequence is one run, and leads from one sum to another.               *)
Leads(words, from, to) == words \in Seq(Vocabulary) /\ Smooth(words) /\ Reads(words, from, to)

LEMMA LeadsOn ==
  ASSUME NEW v, NEW w, NEW a, NEW b, NEW c, Leads(v, a, b), Leads(w, b, c)
  PROVE  Leads(v \o w, a, c)
  <1>1. v \in Seq(Vocabulary) /\ w \in Seq(Vocabulary) /\ Smooth(v) /\ Smooth(w)
    BY DEF Leads
  <1>2. Reads(v, a, b) /\ Reads(w, b, c)
    BY DEF Leads
  <1>3. v \o w \in Seq(Vocabulary) /\ Smooth(v \o w)
    BY <1>1, SmoothOn
  <1>4. Reads(v \o w, a, c)
    BY <1>1, <1>2, ReadsOn
  <1> QED
    BY <1>3, <1>4 DEF Leads

LEMMA AddsLeads ==
  ASSUME NEW words, NEW n, Adds(words, n), NEW t \in Nat, NEW c \in Nat
  PROVE  Leads(words, SumOf(t, c), SumOf(t, c + n))
  BY DEF Adds, Leads

LEMMA AddsFromNone ==
  ASSUME NEW words, NEW n \in Nat, Adds(words, n), NEW t \in Nat
  PROVE  Leads(words, SumOf(t, 0), SumOf(t, n))
  <1>1. 0 + n = n
    OBVIOUS
  <1>2. Leads(words, SumOf(t, 0), SumOf(t, 0 + n))
    BY AddsLeads
  <1> QED
    BY <1>1, <1>2

LEMMA NothingLeads ==
  ASSUME NEW s
  PROVE  Leads(<< >>, s, s)
  <1>1. << >> \in Seq(Vocabulary) /\ Smooth(<< >>)
    BY DEF Smooth
  <1> QED
    BY <1>1, ReadsNothing DEF Leads

Thousands(c) == 1000 * OneIfNone(c)
AndMillions(t, c) == t + 1000000 * OneIfNone(c)

LEMMA MultiplierLeads ==
  ASSUME NEW t \in Nat, NEW c \in Nat
  PROVE  /\ Leads(<<"mil">>, SumOf(t, c), SumOf(t, Thousands(c)))
         /\ Leads(<<"millones">>, SumOf(t, c), SumOf(AndMillions(t, c), 0))
  <1>1. /\ "mil" \in Vocabulary /\ IsNumberWord("mil")
        /\ "millones" \in Vocabulary /\ IsNumberWord("millones")
    BY DEF Vocabulary, IsNumberWord, Millions
  <1>2. /\ AddWord(SumOf(t, c), "mil") = SumOf(t, Thousands(c))
        /\ AddWord(SumOf(t, c), "millones") = SumOf(AndMillions(t, c), 0)
    <2> DEFINE s == SumOf(t, c)
    <2>1. s \in RunningSum /\ s.total = t /\ s.current = c
      BY DEF RunningSum, SumOf
    <2> HIDE DEF s
    <2>2. AddWord(s, "mil") = [s EXCEPT !.current = 1000 * OneIfNone(s.current)]
      BY SmallNumbersCount DEF AddWord
    <2>3. AddWord(s, "millones")
             = [total |-> s.total + 1000000 * OneIfNone(s.current), current |-> 0]
      BY SmallNumbersCount DEF AddWord, Millions
    <2>4. [s EXCEPT !.current = 1000 * OneIfNone(c)]
             = [total |-> t, current |-> 1000 * OneIfNone(c)]
      BY <2>1 DEF RunningSum
    <2> QED
      BY <2>1, <2>2, <2>3, <2>4 DEF s, SumOf, Thousands, AndMillions
  <1> DEFINE s == SumOf(t, c)
             b == SumOf(t, Thousands(c))
             d == SumOf(AndMillions(t, c), 0)
  <1>3. AddWord(s, "mil") = b /\ AddWord(s, "millones") = d
    BY <1>2
  <1> HIDE DEF s, b, d
  <1>5. Reads(<<"mil">>, s, b) /\ Reads(<<"millones">>, s, d)
    <2>1. Reads(<<"mil">>, s, AddWord(s, "mil"))
      BY ReadsWord
    <2>2. Reads(<<"millones">>, s, AddWord(s, "millones"))
      BY ReadsWord
    <2> QED
      BY <1>3, <2>1, <2>2
  <1>4. Leads(<<"mil">>, s, b) /\ Leads(<<"millones">>, s, d)
    <2>1. /\ <<"mil">> \in Seq(Vocabulary) /\ Smooth(<<"mil">>)
          /\ <<"millones">> \in Seq(Vocabulary) /\ Smooth(<<"millones">>)
      BY <1>1, OneWord
    <2> QED
      BY <1>5, <2>1 DEF Leads
  <1> QED
    BY <1>4 DEF s, b, d

(* An amount that is said is one run, and reading it gives the amount.     *)
LEMMA SaidIsRead ==
  ASSUME NEW n \in Nat, n <= 999999999
  PROVE  \E to : Leads(Said(n), SumOf(0, 0), to) /\ to.total + to.current = n
  <1> DEFINE m == n \div 1000000
             th == (n % 1000000) \div 1000
             r == n % 1000
             A == IF m = 0 THEN << >> ELSE SaidBelow1000(m) \o <<"millones">>
             B == IF th = 0 THEN << >>
                  ELSE (IF th = 1 THEN << >> ELSE SaidBelow1000(th)) \o <<"mil">>
             C == SaidBelow1000(r)
             M == 1000000 * m
             T == 1000 * th
  <1>1. Said(n) = A \o B \o C
    BY DEF Said
  <1>2. /\ m \in Nat /\ m < 1000 /\ th \in Nat /\ th < 1000 /\ r \in Nat /\ r < 1000
        /\ n = M + T + r /\ M \in Nat /\ T \in Nat
    OBVIOUS
  <1> HIDE DEF m, th, r
  <1>3. Leads(A, SumOf(0, 0), SumOf(M, 0))
    <2>1. CASE m = 0
      <3>1. A = << >> /\ M = 0
        BY <2>1
      <3> QED
        BY <3>1, NothingLeads
    <2>2. CASE m # 0
      <3> DEFINE v == SaidBelow1000(m)
                 a == SumOf(0, 0)
                 b == SumOf(0, m)
                 c == SumOf(M, 0)
      <3>1. Leads(v, a, b)
        <4>1. m \in Nat /\ m < 1000
          BY <1>2
        <4>2. Adds(v, m)
          BY <4>1, Below1000Adds
        <4> HIDE DEF v
        <4> QED
          BY <4>1, <4>2, AddsFromNone
      <3>2. Leads(<<"millones">>, b, c)
        <4>1. AndMillions(0, m) = M /\ m \in Nat
          BY <1>2, <2>2 DEF OneIfNone, AndMillions
        <4> HIDE DEF M
        <4> QED
          BY <4>1, MultiplierLeads
      <3> HIDE DEF v, a, b, c
      <3>3. Leads(v \o <<"millones">>, a, c)
        BY <3>1, <3>2, LeadsOn
      <3> QED
        BY <2>2, <3>3 DEF v, a, c
    <2> QED
      BY <2>1, <2>2
  <1>4. Leads(B, SumOf(M, 0), SumOf(M, T))
    <2>1. CASE th = 0
      <3>1. B = << >> /\ T = 0
        BY <2>1
      <3> QED
        BY <3>1, NothingLeads
    <2>2. CASE th # 0
      <3> DEFINE v == IF th = 1 THEN << >> ELSE SaidBelow1000(th)
                 k == IF th = 1 THEN 0 ELSE th
                 a == SumOf(M, 0)
                 b == SumOf(M, k)
                 c == SumOf(M, T)
      <3>1. Leads(v, a, b)
        <4>1. CASE th = 1
          BY <4>1, NothingLeads
        <4>2. CASE th # 1
          <5> DEFINE w == SaidBelow1000(th)
          <5>1. th \in Nat /\ th < 1000 /\ M \in Nat
            BY <1>2
          <5>2. Adds(w, th)
            BY <5>1, Below1000Adds
          <5> HIDE DEF w, M
          <5>3. Leads(w, SumOf(M, 0), SumOf(M, th))
            BY <5>1, <5>2, AddsFromNone
          <5> QED
            BY <4>2, <5>3 DEF w
        <4> QED
          BY <4>1, <4>2
      <3>2. Leads(<<"mil">>, b, c)
        <4>1. k \in Nat /\ Thousands(k) = T
          BY <1>2, <2>2 DEF OneIfNone, Thousands
        <4> HIDE DEF M, T, k
        <4> QED
          BY <1>2, <4>1, MultiplierLeads
      <3>4. B = v \o <<"mil">>
        BY <2>2
      <3> HIDE DEF v, a, b, c, B
      <3>3. Leads(v \o <<"mil">>, a, c)
        BY <3>1, <3>2, LeadsOn
      <3> QED
        BY <3>3, <3>4 DEF a, c
    <2> QED
      BY <2>1, <2>2
  <1>5. Leads(C, SumOf(M, T), SumOf(M, T + r))
    <2>1. r \in Nat /\ r < 1000 /\ M \in Nat /\ T \in Nat
      BY <1>2
    <2>2. Adds(C, r)
      BY <2>1, Below1000Adds
    <2> HIDE DEF C, M, T
    <2> QED
      BY <2>1, <2>2, AddsLeads
  <1> DEFINE a == SumOf(0, 0)
             b == SumOf(M, 0)
             c == SumOf(M, T)
             d == SumOf(M, T + r)
  <1>6. d.total + d.current = n
    BY <1>2 DEF SumOf
  <1> HIDE DEF A, B, C, a, b, c, d
  <1>7. Leads(A \o B, a, c)
    BY <1>3, <1>4, LeadsOn DEF a, b, c
  <1>8. Leads((A \o B) \o C, a, d)
    BY <1>5, <1>7, LeadsOn DEF c, d
  <1> QED
    BY <1>1, <1>6, <1>8 DEF a

(* Between words that are no numbers it is the only run.                   *)
LEMMA OneRun ==
  ASSUME NEW run \in Seq(Vocabulary), Smooth(run), Len(run) # 0
  PROVE  SpokenRuns(<<"debe">> \o run \o <<"pesos">>) = {run}
  <1> DEFINE k == Len(run)
             v == <<"debe">> \o run
             x == v \o <<"pesos">>
             inside == {i \in DOMAIN x : InRun(x, i)}
             starts == {i \in inside : i - 1 \notin inside}
             Ends(i, j) == i <= j /\ i .. j \subseteq inside /\ j + 1 \notin inside
             End(i) == CHOOSE j \in inside : Ends(i, j)
  <1>1. SpokenRuns(x) = {SubSeq(x, i, End(i)) : i \in starts}
    BY DEF SpokenRuns
  <1>2. k \in Nat /\ k >= 1 /\ DOMAIN run = 1 .. k
    BY LenProperties
  <1>3. /\ <<"debe">> \in Seq(Vocabulary) /\ <<"pesos">> \in Seq(Vocabulary)
        /\ Len(<<"debe">>) = 1 /\ Len(<<"pesos">>) = 1
    BY OneWord DEF Vocabulary
  <1>4. /\ v \in Seq(Vocabulary) /\ Len(v) = 1 + k
        /\ \A i \in 1 .. 1 + k : v[i] = IF i <= 1 THEN <<"debe">>[i] ELSE run[i - 1]
    BY <1>3, ConcatProperties
  <1> HIDE DEF v, k
  <1>5. /\ x \in Seq(Vocabulary) /\ Len(x) = (1 + k) + 1
        /\ \A i \in 1 .. (1 + k) + 1 : x[i] = IF i <= 1 + k THEN v[i] ELSE <<"pesos">>[i - (1 + k)]
    BY <1>3, <1>4, ConcatProperties
  <1>6. DOMAIN x = 1 .. k + 2 /\ Len(x) = k + 2
    BY <1>2, <1>5, LenProperties
  <1> HIDE DEF x
  <1>7. x[1] = "debe" /\ x[k + 2] = "pesos"
    <2>1. v[1] = "debe"
      BY <1>2, <1>4
    <2>2. x[1] = v[1]
      BY <1>2, <1>5
    <2>3. ~(k + 2 <= 1 + k) /\ (k + 2) - (1 + k) = 1 /\ k + 2 \in 1 .. (1 + k) + 1
      BY <1>2
    <2> QED
      BY <1>5, <2>1, <2>2, <2>3
  <1>8. \A i \in 1 .. k : x[i + 1] = run[i]
    <2> SUFFICES ASSUME NEW i \in 1 .. k PROVE x[i + 1] = run[i]
      OBVIOUS
    <2>1. /\ i + 1 \in 1 .. 1 + k /\ i + 1 \in 1 .. (1 + k) + 1 /\ i + 1 <= 1 + k
          /\ ~(i + 1 <= 1) /\ (i + 1) - 1 = i
      BY <1>2
    <2> QED
      BY <1>4, <1>5, <2>1
  <1>9. ~InRun(x, 1) /\ ~InRun(x, k + 2)
    <2>1. ~IsNumberWord("debe") /\ ~IsNumberWord("pesos")
      BY SmallNumbersCount DEF IsNumberWord, Millions
    <2> QED
      BY <1>7, <2>1 DEF InRun
  <1>10. ASSUME NEW i \in 1 .. k PROVE InRun(x, i + 1)
    <2>1. InRun(run, i) /\ x[i + 1] = run[i]
      BY <1>8 DEF Smooth, k
    <2>2. CASE IsNumberWord(run[i])
      BY <2>1, <2>2 DEF InRun
    <2>3. CASE ~IsNumberWord(run[i])
      <3>1. /\ run[i] = "y" /\ i \in 2 .. k - 1
            /\ IsNumberWord(run[i - 1]) /\ IsNumberWord(run[i + 1])
        BY <2>1, <2>3 DEF InRun, k
      <3>2. /\ i - 1 \in 1 .. k /\ i + 1 \in 1 .. k /\ (i - 1) + 1 = (i + 1) - 1
            /\ i + 1 \in 2 .. Len(x) - 1
        BY <1>2, <1>6, <3>1
      <3>3. x[(i + 1) - 1] = run[i - 1] /\ x[(i + 1) + 1] = run[i + 1]
        BY <1>8, <3>2
      <3> QED
        BY <2>1, <3>1, <3>2, <3>3 DEF InRun
    <2> QED
      BY <2>2, <2>3
  <1>11. inside = 2 .. k + 1
    <2>1. ASSUME NEW i \in 2 .. k + 1 PROVE i \in inside
      <3>1. i - 1 \in 1 .. k /\ (i - 1) + 1 = i /\ i \in DOMAIN x
        BY <1>2, <1>6
      <3> QED
        BY <1>10, <3>1
    <2>2. ASSUME NEW i \in inside PROVE i \in 2 .. k + 1
      <3>1. i \in 1 .. k + 2 /\ i # 1 /\ i # k + 2
        BY <1>6, <1>9
      <3> QED
        BY <1>2, <3>1
    <2> QED
      BY <2>1, <2>2
  <1> HIDE DEF inside
  <1>12. starts = {2}
    <2>1. ASSUME NEW i \in inside PROVE i - 1 \notin inside <=> i = 2
      BY <1>2, <1>11
    <2>2. 2 \in inside
      BY <1>2, <1>11
    <2> QED
      BY <2>1, <2>2
  <1>13. End(2) = k + 1
    <2>1. k + 1 \in inside /\ Ends(2, k + 1)
      BY <1>2, <1>11
    <2>2. ASSUME NEW j \in inside, Ends(2, j) PROVE j = k + 1
      BY <1>2, <1>11, <2>2
    <2> HIDE DEF Ends
    <2> QED
      BY <2>1, <2>2
  <1>14. SubSeq(x, 2, k + 1) = run
    <2>1. \A i \in 2 .. k + 1 : x[i] \in Vocabulary
      <3> SUFFICES ASSUME NEW i \in 2 .. k + 1 PROVE x[i] \in Vocabulary
        OBVIOUS
      <3>1. i \in 1 .. Len(x)
        BY <1>2, <1>6
      <3> QED
        BY <1>5, <3>1, ElementOfSeq
    <2> DEFINE s == SubSeq(x, 2, k + 1)
    <2>2. /\ s \in Seq(Vocabulary) /\ Len(s) = IF 2 <= k + 1 THEN (k + 1) - 2 + 1 ELSE 0
          /\ \A i \in 1 .. (k + 1) - 2 + 1 : s[i] = x[2 + i - 1]
      BY <1>2, <2>1, SubSeqProperties
    <2> HIDE DEF s
    <2>3. Len(s) = k
      BY <1>2, <2>2
    <2>4. \A i \in 1 .. k : s[i] = run[i]
      <3> SUFFICES ASSUME NEW i \in 1 .. k PROVE s[i] = run[i]
        OBVIOUS
      <3>1. i \in 1 .. (k + 1) - 2 + 1 /\ 2 + i - 1 = i + 1
        BY <1>2
      <3> QED
        BY <1>8, <2>2, <3>1
    <2> QED
      BY <2>2, <2>3, <2>4, SeqEqual DEF s, k
  <1> HIDE DEF starts, End
  <1>15. SpokenRuns(x) = {run}
    BY <1>1, <1>12, <1>13, <1>14
  <1> QED
    BY <1>15 DEF x, v

(* Amounts are heard as they are said: of any amount from the least that   *)
(* counts up to a thousand millions, put in words, extract_amounts makes   *)
(* that amount and no other (numbers.py:48-92).                            *)
THEOREM SaidIsHeard ==
  ASSUME NEW n \in Nat, n >= MIN_AMOUNT, n <= 999999999
  PROVE  ExtractAmounts(<<"debe">> \o Said(n) \o <<"pesos">>, {}) = {n}
  <1>1. n # 0
    BY DEF MIN_AMOUNT
  <1> DEFINE run == Said(n)
             zero == SumOf(0, 0)
  <1>2. PICK to : Leads(run, zero, to) /\ to.total + to.current = n
    BY SaidIsRead
  <1>3. zero = [total |-> 0, current |-> 0]
    BY DEF SumOf
  <1> HIDE DEF run, zero
  <1>4. run \in Seq(Vocabulary) /\ Smooth(run) /\ Reads(run, zero, to)
    BY <1>2 DEF Leads
  <1>5. WordsToInt(run) = n
    BY <1>2, <1>3, <1>4, WordsAreRead
  <1>6. Len(run) # 0
    <2> SUFFICES ASSUME Len(run) = 0 PROVE FALSE
      OBVIOUS
    <2>1. to = zero
      BY <1>4 DEF Reads, Steps
    <2>2. to.total + to.current = 0
      BY <1>3, <2>1
    <2> QED
      BY <1>1, <1>2, <2>2
  <1>7. SpokenRuns(<<"debe">> \o run \o <<"pesos">>) = {run}
    BY <1>4, <1>6, OneRun
  <1> DEFINE words == <<"debe">> \o run \o <<"pesos">>
  <1> HIDE DEF words
  <1>8. {WordsToInt(r) : r \in SpokenRuns(words)} \cup {} = {n}
    BY <1>5, <1>7 DEF words
  <1>9. ExtractAmounts(words, {}) = {n}
    BY <1>8 DEF ExtractAmounts
  <1> QED
    BY <1>9 DEF words, run
=============================================================================
