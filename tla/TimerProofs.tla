--------------------------- MODULE TimerProofs ------------------------------
(***************************************************************************)
(* The libraries under srcs/timer: dates for every day of the calendar,    *)
(* time zones for every set of zone files and every place at which a file  *)
(* may end.                                                                *)
(***************************************************************************)
EXTENDS TimeZone, Induction

(* Dates.                                                                  *)

\* An integer division by the days of 400 years, from quotient and remainder.
LEMMA Div1 ==
  ASSUME NEW n \in Nat, NEW q \in Nat, NEW r \in Nat, r < 146097, n = 146097 * q + r
  PROVE  n \div 146097 = q
OBVIOUS

\* An integer division by the days of four years.
LEMMA Div2 ==
  ASSUME NEW n \in Nat, NEW q \in Nat, NEW r \in Nat, r < 1461, n = 1461 * q + r
  PROVE  n \div 1461 = q
OBVIOUS

\* getYearMonthDay() finds the century of a day, and the day in the century.
LEMMA Century ==
  ASSUME NEW b \in Nat, NEW c \in Nat, NEW a \in Nat, a = 36524 * b + b \div 4 + c,
         4 * c + 3 - (b % 4) < 146097
  PROVE (4 * a + 3) \div 146097 = b /\ a - ((b * 146097) \div 4) = c
<1>1. b % 4 = b - 4 * (b \div 4) /\ b % 4 \in 0..3 /\ b \div 4 \in Nat
  OBVIOUS
<1>2. 4 * a + 3 = 146097 * b + (4 * c + 3 - (b % 4))
  BY <1>1
<1>3. 4 * c + 3 - (b % 4) \in Nat
  BY <1>1
<1>4. (4 * a + 3) \div 146097 = b
  BY <1>2, <1>3, Div1
<1>5. (b * 146097) \div 4 = 36524 * b + b \div 4
  OBVIOUS
<1> QED BY <1>4, <1>5, <1>1

\* getYearMonthDay() finds the year in the century, and the day in the year.
LEMMA YearIn ==
  ASSUME NEW d \in Nat, NEW e \in Nat, NEW c \in Nat, c = 365 * d + d \div 4 + e,
         4 * e + 3 - (d % 4) < 1461
  PROVE (4 * c + 3) \div 1461 = d /\ c - ((1461 * d) \div 4) = e
<1>1. d % 4 = d - 4 * (d \div 4) /\ d % 4 \in 0..3 /\ d \div 4 \in Nat
  OBVIOUS
<1>2. 4 * c + 3 = 1461 * d + (4 * e + 3 - (d % 4))
  BY <1>1
<1>3. 4 * e + 3 - (d % 4) \in Nat
  BY <1>1
<1>4. (4 * c + 3) \div 1461 = d
  BY <1>2, <1>3, Div2
<1>5. (1461 * d) \div 4 = 365 * d + d \div 4
  OBVIOUS
<1> QED BY <1>4, <1>5, <1>1

\* The leap years before y, century by century.
LEMMA Split ==
  ASSUME NEW y \in Nat
  PROVE
  /\ y % 100 = y - 100 * (y \div 100) /\ y % 100 \in 0..99 /\ y \div 100 \in Nat
  /\ y \div 4 = 25 * (y \div 100) + (y % 100) \div 4
  /\ y \div 400 = (y \div 100) \div 4
<1>1. y % 100 = y - 100 * (y \div 100) /\ y % 100 \in 0..99 /\ y \div 100 \in Nat
  OBVIOUS
<1>2. \A b \in Nat, d \in 0..99 : (100 * b + d) \div 4 = 25 * b + d \div 4
  OBVIOUS
<1>3. y \div 400 = (y \div 100) \div 4
  OBVIOUS
<1>4. y \div 4 = 25 * (y \div 100) + (y % 100) \div 4
  BY <1>1, <1>2
<1> QED BY <1>1, <1>3, <1>4

\* A day of the calendar.
ValidDate(d) ==
  /\ d \in [year : Nat, month : 1..12, day : 1..31]
  /\ d.day <= DaysIn(d.year, d.month)

\* The quantities of getJulianDayNumber(): a year that begins in March, its
\* months from 0, the days of it before the month, the day of it from 0.
YearShift(month) == (14 - month) \div 12
MarchMonth(month) == month + 12 * YearShift(month) - 3
DaysBefore(month) == (153 * MarchMonth(month) + 2) \div 5
MarchDay(month, day) == day - 1 + DaysBefore(month)

\* The days that a month has at most, and what the formulas make of them.
MonthHas(month, day) == /\ month = 2 => day <= 29
                        /\ month \in {4, 6, 9, 11} => day <= 30
MarchCount(month, day) ==
  /\ YearShift(month) \in 0..1 /\ MarchMonth(month) \in 0..11
  /\ DaysBefore(month) \in Nat /\ MarchDay(month, day) \in 0..365
  /\ MarchDay(month, day) = 365 => month = 2 /\ day = 29 /\ YearShift(month) = 1
  /\ (5 * MarchDay(month, day) + 2) \div 153 = MarchMonth(month)
  /\ MarchMonth(month) \div 10 = YearShift(month)
  /\ month = MarchMonth(month) + 3 - 12 * YearShift(month)

\* The formulas of getYearMonthDay() find the month of a day of the year.
LEMMA MonthDay ==
  ASSUME NEW month \in 1..12, NEW day \in 1..31, MonthHas(month, day)
  PROVE  MarchCount(month, day)
<1> USE DEF YearShift, MarchMonth, DaysBefore, MarchDay, MonthHas, MarchCount
<1>1. CASE month = 1 BY <1>1
<1>2. CASE month = 2 BY <1>2
<1>3. CASE month = 3 BY <1>3
<1>4. CASE month = 4 BY <1>4
<1>5. CASE month = 5 BY <1>5
<1>6. CASE month = 6 BY <1>6
<1>7. CASE month = 7 BY <1>7
<1>8. CASE month = 8 BY <1>8
<1>9. CASE month = 9 BY <1>9
<1>10. CASE month = 10 BY <1>10
<1>11. CASE month = 11 BY <1>11
<1>12. CASE month = 12 BY <1>12
<1> HIDE DEF YearShift, MarchMonth, DaysBefore, MarchDay, MonthHas, MarchCount
<1>13. \/ month = 1 \/ month = 2 \/ month = 3 \/ month = 4 \/ month = 5 \/ month = 6
       \/ month = 7 \/ month = 8 \/ month = 9 \/ month = 10 \/ month = 11 \/ month = 12
  OBVIOUS
<1> QED
  BY <1>1, <1>2, <1>3, <1>4, <1>5, <1>6, <1>7, <1>8, <1>9, <1>10, <1>11, <1>12, <1>13,
     Zenon

\* The last day of a year that begins in March is there only before the end of
\* the century, or at the end of a fourth one.
LEMMA LeapPlace ==
  ASSUME NEW year \in Nat, IsLeap(year), NEW y, y = year + 4799
  PROVE  (y % 100) % 4 = 3 /\ (y % 100 = 99 => (y \div 100) % 4 = 3)
<1>1. year % 4 = 0 /\ (year % 100 = 0 => year % 400 = 0)
  BY DEF IsLeap
<1>2. (y % 100) % 4 = 3
  BY <1>1
<1>3. y % 100 = 99 => (y \div 100) % 4 = 3
  BY <1>1
<1> QED BY <1>2, <1>3

\* The quantities of getYearMonthDay(), one by one.
FromMarch(julianDayNumber) == julianDayNumber + 32044
Centuries(a) == (4 * a + 3) \div 146097
InCentury(a, b) == a - ((b * 146097) \div 4)
YearsOf(c) == (4 * c + 3) \div 1461
InYear(c, k) == c - ((1461 * k) \div 4)
MonthOf(e) == (5 * e + 2) \div 153
DateOf(b, k, e, m) ==
  [year  |-> b * 100 + k - 4800 + (m \div 10),
   month |-> m + 3 - 12 * (m \div 10),
   day   |-> e - ((153 * m + 2) \div 5) + 1]

\* getYearMonthDay() in terms of them.
LEMMA DateParts ==
  ASSUME NEW j
  PROVE  LET a == FromMarch(j)
             b == Centuries(a)
             c == InCentury(a, b)
             k == YearsOf(c)
             e == InYear(c, k)
         IN  getYearMonthDay(j) = DateOf(b, k, e, MonthOf(e))
BY DEF getYearMonthDay, FromMarch, Centuries, InCentury, YearsOf, InYear, MonthOf, DateOf

\* The terms of the day number, regrouped by century and year.
LEMMA Regroup ==
  ASSUME NEW day \in Int, NEW D \in Int, NEW y \in Int, NEW b \in Int, NEW k \in Int,
         NEW b4 \in Int, NEW k4 \in Int, NEW e \in Int, NEW c \in Int, NEW n \in Int,
         k = y - 100 * b, day = e - D + 1, c = 365 * k + k4 + e, n = 36524 * b + b4 + c
  PROVE  day + D + y * 365 + (25 * b + k4) - b + b4 - 32045 = n - 32044
  BY SMT

\* getYearMonthDay() inverts getJulianDayNumber(), for every date.
LEMMA DateInverse ==
  ASSUME NEW d, ValidDate(d)
  PROVE  getYearMonthDay(getJulianDayNumber(d.year, d.month, d.day)) = d
<1>1. PICK year \in Nat, month \in 1..12, day \in 1..31 :
         /\ d = [year |-> year, month |-> month, day |-> day]
         /\ MonthHas(month, day)
         /\ month = 2 /\ day = 29 => IsLeap(year)
  BY DEF ValidDate, DaysIn, MonthHas
<1>2. PICK a, m, D, e : /\ a = YearShift(month) /\ m = MarchMonth(month)
                        /\ D = DaysBefore(month) /\ e = MarchDay(month, day)
  OBVIOUS
<1>3. PICK y : y = year + 4800 - a
  OBVIOUS
<1>4. PICK b, k : b = y \div 100 /\ k = y % 100
  BY Zenon
<1>5. PICK b4, br, k4, kr : /\ b4 = b \div 4 /\ br = b % 4
                            /\ k4 = k \div 4 /\ kr = k % 4
  BY Zenon
<1>6. PICK c : c = 365 * k + k4 + e
  BY Zenon
<1>7. PICK n : n = 36524 * b + b4 + c
  OBVIOUS
<1>11. /\ a \in 0..1 /\ m \in 0..11 /\ D \in Nat /\ e \in 0..365
       /\ e = 365 => month = 2 /\ day = 29 /\ a = 1
       /\ (5 * e + 2) \div 153 = m /\ m \div 10 = a /\ month = m + 3 - 12 * a
  <2>1. MarchCount(month, day)
    BY <1>1, MonthDay, Zenon
  <2> QED
    BY <1>2, <2>1, ZenonT(60) DEF MarchCount
<1>12. day = e - D + 1
  BY <1>2, <1>11 DEF MarchDay
<1>13. y \in Nat /\ year = y - 4800 + a
  BY <1>3, <1>11
<1>14. k = y - 100 * b /\ k \in 0..99 /\ b \in Nat
  BY <1>4, <1>13
<1>15. y \div 4 = 25 * b + k4 /\ y \div 400 = b4
  BY <1>4, <1>5, <1>13, Split
<1>16. k4 \in 0..24 /\ kr \in 0..3 /\ (k = 99 => k4 = 24)
  <2>1. k \in 0..99
    BY <1>14
  <2> QED
    BY <1>5, <2>1
<1>17. b4 \in Nat /\ br \in 0..3
  <2>1. b \in Nat
    BY <1>14
  <2> QED
    BY <1>5, <2>1
<1>18. e = 365 => kr = 3 /\ (k = 99 => br = 3)
  <2>1. e = 365 => IsLeap(year) /\ y = year + 4799
    BY <1>1, <1>3, <1>11
  <2> QED
    BY <1>4, <1>5, <2>1, LeapPlace
<1>19. c \in Nat /\ n \in Nat
  <2>1. b \in Nat /\ b4 \in Nat /\ k \in Nat /\ k4 \in Nat /\ e \in Nat
    BY <1>11, <1>14, <1>16, <1>17
  <2> QED
    BY <1>6, <1>7, <2>1, SMT
<1>20. getJulianDayNumber(d.year, d.month, d.day) = n - 32044
  <2>1. getJulianDayNumber(d.year, d.month, d.day)
          = day + D + y * 365 + y \div 4 - b + y \div 400 - 32045
    BY <1>1, <1>2, <1>3, <1>4
       DEF getJulianDayNumber, YearShift, MarchMonth, DaysBefore
  <2>2. getJulianDayNumber(d.year, d.month, d.day)
          = day + D + y * 365 + (25 * b + k4) - b + b4 - 32045
    BY <1>15, <2>1
  <2>3. /\ D \in Int /\ y \in Int /\ b \in Int /\ k \in Int /\ b4 \in Int /\ k4 \in Int
        /\ e \in Int /\ c \in Int /\ n \in Int /\ day \in Int /\ k = y - 100 * b
    BY <1>11, <1>13, <1>14, <1>16, <1>17, <1>19
  <2> QED
    BY <1>6, <1>7, <1>12, <2>2, <2>3, Regroup, SMT
<1>21. 4 * c + 3 - br < 146097
  BY <1>6, <1>11, <1>14, <1>16, <1>17, <1>18
<1>22. 4 * e + 3 - kr < 1461
  BY <1>11, <1>16, <1>18
<1>23. Centuries(n) = b /\ InCentury(n, b) = c
  <2>1. b % 4 = br /\ b \div 4 = b4 /\ b \in Nat
    BY <1>5, <1>14
  <2> QED
    BY <1>7, <1>19, <1>21, <2>1, Century, SMT DEF Centuries, InCentury
<1>24. YearsOf(c) = k /\ InYear(c, k) = e
  <2>1. k % 4 = kr /\ k \div 4 = k4 /\ k \in Nat /\ e \in Nat
    BY <1>5, <1>11, <1>14, SMTT(60)
  <2> QED
    <3>1. c = 365 * k + k \div 4 + e /\ 4 * e + 3 - (k % 4) < 1461
      BY <1>6, <1>22, <2>1, SMTT(30)
    <3> QED
      BY <1>19, <2>1, <3>1, YearIn, SMT DEF YearsOf, InYear
<1>25. b * 100 + k - 4800 + a = year
  BY <1>11, <1>13, <1>14
<1>26. FromMarch(n - 32044) = n
  BY <1>19 DEF FromMarch
<1>27. MonthOf(e) = m
  BY <1>11 DEF MonthOf
<1>28. getYearMonthDay(getJulianDayNumber(d.year, d.month, d.day)) = DateOf(b, k, e, m)
  <2> DEFINE j == getJulianDayNumber(d.year, d.month, d.day)
  <2>1. FromMarch(j) = n
    BY <1>20, <1>26
  <2> QED
    BY <1>23, <1>24, <1>27, <2>1, DateParts, Zenon
<1>29. D = (153 * m + 2) \div 5
  BY <1>2 DEF DaysBefore
<1>30. DateOf(b, k, e, m) = [year |-> year, month |-> month, day |-> day]
  BY <1>11, <1>12, <1>25, <1>29, SMT DEF DateOf
<1> QED
  BY <1>1, <1>28, <1>30, Zenon

\* The days of the years before y.
DaysTo(y) == y * 365 + y \div 4 - y \div 100 + y \div 400

\* Each year has as many days as the calendar gives it.
LEMMA YearTurn ==
  ASSUME NEW year \in Nat, NEW z, z = year + 4800
  PROVE  /\ DaysTo(z) \in Int /\ DaysTo(z - 1) \in Int
         /\ DaysTo(z) - DaysTo(z - 1) = IF IsLeap(year) THEN 366 ELSE 365
<1>1. z \div 4 - (z - 1) \div 4 = IF year % 4 = 0 THEN 1 ELSE 0
  BY SMT
<1>2. z \div 100 - (z - 1) \div 100 = IF year % 100 = 0 THEN 1 ELSE 0
  BY SMT
<1>3. z \div 400 - (z - 1) \div 400 = IF year % 400 = 0 THEN 1 ELSE 0
  BY SMT
<1>4. /\ year % 400 = 0 => year % 100 = 0
      /\ year % 100 = 0 => year % 4 = 0
  BY SMT
<1>5. /\ z \div 4 \in Int /\ (z - 1) \div 4 \in Int /\ z \div 100 \in Int
      /\ (z - 1) \div 100 \in Int /\ z \div 400 \in Int /\ (z - 1) \div 400 \in Int
  BY SMT
<1>6. IsLeap(year) <=> (year % 4 = 0 /\ year % 100 # 0) \/ year % 400 = 0
  BY DEF IsLeap
<1>7. PICK p, q, r, p1, q1, r1 :
        /\ p = z \div 4 /\ q = z \div 100 /\ r = z \div 400
        /\ p1 = (z - 1) \div 4 /\ q1 = (z - 1) \div 100 /\ r1 = (z - 1) \div 400
  OBVIOUS
<1>8. DaysTo(z) = z * 365 + p - q + r /\ DaysTo(z - 1) = (z - 1) * 365 + p1 - q1 + r1
  BY <1>7 DEF DaysTo
<1>9. /\ p \in Int /\ q \in Int /\ r \in Int /\ p1 \in Int /\ q1 \in Int /\ r1 \in Int
      /\ p - p1 = IF year % 4 = 0 THEN 1 ELSE 0
      /\ q - q1 = IF year % 100 = 0 THEN 1 ELSE 0
      /\ r - r1 = IF year % 400 = 0 THEN 1 ELSE 0
  BY <1>1, <1>2, <1>3, <1>5, <1>7, SMT
<1>10. p - p1 - (q - q1) + (r - r1) = IF IsLeap(year) THEN 1 ELSE 0
  BY <1>4, <1>6, <1>9, SMT
<1> QED
  BY <1>8, <1>9, <1>10, SMT

\* The months of the calendar have the days that the formula counts for them.
LEMMA MonthTurn ==
  ASSUME NEW month \in 1..12
  PROVE  /\ YearShift(month) = IF month <= 2 THEN 1 ELSE 0
         /\ month <= 2 => DaysBefore(month) = 306 + 31 * (month - 1)
         /\ month > 2 => DaysBefore(month) \in (30 * (month - 3))..275
         /\ month < 12 /\ month # 2 =>
              /\ YearShift(month + 1) = YearShift(month)
              /\ DaysBefore(month + 1)
                   = DaysBefore(month) + IF month \in {4, 6, 9, 11} THEN 30 ELSE 31
         /\ DaysBefore(3) = 0 /\ DaysBefore(12) = 275 /\ DaysBefore(1) = 306
<1> USE DEF YearShift, MarchMonth, DaysBefore
<1>1. CASE month = 1 BY <1>1, SMT
<1>2. CASE month = 2 BY <1>2, SMT
<1>3. CASE month = 3 BY <1>3, SMT
<1>4. CASE month = 4 BY <1>4, SMT
<1>5. CASE month = 5 BY <1>5, SMT
<1>6. CASE month = 6 BY <1>6, SMT
<1>7. CASE month = 7 BY <1>7, SMT
<1>8. CASE month = 8 BY <1>8, SMT
<1>9. CASE month = 9 BY <1>9, SMT
<1>10. CASE month = 10 BY <1>10, SMT
<1>11. CASE month = 11 BY <1>11, SMT
<1>12. CASE month = 12 BY <1>12, SMT
<1> HIDE DEF YearShift, MarchMonth, DaysBefore
<1>13. \/ month = 1 \/ month = 2 \/ month = 3 \/ month = 4 \/ month = 5 \/ month = 6
       \/ month = 7 \/ month = 8 \/ month = 9 \/ month = 10 \/ month = 11 \/ month = 12
  OBVIOUS
<1> QED
  BY <1>1, <1>2, <1>3, <1>4, <1>5, <1>6, <1>7, <1>8, <1>9, <1>10, <1>11, <1>12, <1>13,
     Zenon

\* The number of a day, from the days of the month, of the months before it
\* and of the years before it.
Shifted(year, month) == year + 4800 - YearShift(month)
DayNumber(day, months, years) == day + months + years - 32045

\* getJulianDayNumber() adds up these three.
LEMMA NumberParts ==
  ASSUME NEW year \in Nat, NEW month \in 1..12, NEW day \in Nat
  PROVE  /\ DaysBefore(month) \in Nat /\ DaysTo(Shifted(year, month)) \in Int
         /\ getJulianDayNumber(year, month, day)
              = DayNumber(day, DaysBefore(month), DaysTo(Shifted(year, month)))
<1>1. PICK a, y, D : a = YearShift(month) /\ y = Shifted(year, month) /\ D = DaysBefore(month)
  OBVIOUS
<1>2. PICK p, q, r : p = y \div 4 /\ q = y \div 100 /\ r = y \div 400
  OBVIOUS
<1>3. getJulianDayNumber(year, month, day) = day + D + y * 365 + p - q + r - 32045
  BY <1>1, <1>2 DEF getJulianDayNumber, DaysBefore, MarchMonth, YearShift, Shifted
<1>4. DaysTo(y) = y * 365 + p - q + r
  BY <1>2 DEF DaysTo
<1>5. a \in 0..1 /\ D \in Nat
  BY <1>1, MonthTurn
<1>6. y \in Nat
  BY <1>1, <1>5 DEF Shifted
<1>7. p \in Nat /\ q \in Nat /\ r \in Nat
  BY <1>2, <1>6
<1>8. getJulianDayNumber(year, month, day) = DayNumber(day, D, DaysTo(y)) /\ DaysTo(y) \in Int
  BY <1>3, <1>4, <1>5, <1>6, <1>7, SMT DEF DayNumber
<1> QED
  BY <1>1, <1>5, <1>8, Zenon

\* They are numbers.
LEMMA PartsTyped ==
  ASSUME NEW year \in Nat, NEW month \in 1..12
  PROVE  DaysBefore(month) \in Nat /\ DaysTo(Shifted(year, month)) \in Int
<1>1. 1 \in Nat
  OBVIOUS
<1> QED
  BY <1>1, NumberParts, Zenon

\* The days before a month, and the years before a year.
DaysUntil(year, month) == DaysBefore(month) + DaysTo(Shifted(year, month))

\* The day number advances over a month by the days of the month.
LEMMA DaysBetween ==
  ASSUME NEW year \in Nat, NEW month \in 1..12
  PROVE  /\ DaysUntil(year, month) \in Int
         /\ month < 12 => DaysUntil(year, month + 1)
                            = DaysUntil(year, month) + DaysIn(year, month)
         /\ DaysUntil(year + 1, 1) = DaysUntil(year, 12) + 31
<1>1. DaysBefore(month) \in Nat /\ DaysTo(Shifted(year, month)) \in Int
  BY PartsTyped, Zenon
<1>2. DaysUntil(year, month) \in Int
  BY <1>1 DEF DaysUntil
<1>3. ASSUME month < 12, month # 2
      PROVE  DaysUntil(year, month + 1) = DaysUntil(year, month) + DaysIn(year, month)
  <2>1. /\ YearShift(month + 1) = YearShift(month)
        /\ DaysBefore(month + 1) = DaysBefore(month) + DaysIn(year, month)
    BY <1>3, MonthTurn, SMT DEF DaysIn
  <2>2. Shifted(year, month + 1) = Shifted(year, month)
    BY <2>1, SMT DEF Shifted
  <2>3. DaysIn(year, month) \in Nat
    BY DEF DaysIn
  <2> QED
    BY <1>1, <2>1, <2>2, <2>3, SMT DEF DaysUntil
<1>4. ASSUME month = 2
      PROVE  DaysUntil(year, 3) = DaysUntil(year, 2) + DaysIn(year, 2)
  <2>1. YearShift(2) = 1 /\ YearShift(3) = 0 /\ DaysBefore(2) = 337 /\ DaysBefore(3) = 0
    BY MonthTurn, SMT
  <2>2. PICK z : z = year + 4800
    OBVIOUS
  <2>3. Shifted(year, 2) = z - 1 /\ Shifted(year, 3) = z
    BY <2>1, <2>2, SMT DEF Shifted
  <2>4. /\ DaysTo(z) \in Int /\ DaysTo(z - 1) \in Int
        /\ DaysTo(z) - DaysTo(z - 1) = IF IsLeap(year) THEN 366 ELSE 365
    BY <2>2, YearTurn, SMT
  <2>5. DaysIn(year, 2) = IF IsLeap(year) THEN 29 ELSE 28
    BY DEF DaysIn
  <2> QED
    BY <2>1, <2>3, <2>4, <2>5, SMT DEF DaysUntil
<1>5. DaysUntil(year + 1, 1) = DaysUntil(year, 12) + 31
  <2>1. YearShift(1) = 1 /\ YearShift(12) = 0 /\ DaysBefore(1) = 306 /\ DaysBefore(12) = 275
    BY MonthTurn, SMT
  <2>2. Shifted(year + 1, 1) = Shifted(year, 12)
    BY <2>1, SMT DEF Shifted
  <2>3. DaysTo(Shifted(year, 12)) \in Int
    BY PartsTyped, SMT
  <2> QED
    BY <2>1, <2>2, <2>3, SMT DEF DaysUntil
<1>6. month < 12 => DaysUntil(year, month + 1) = DaysUntil(year, month) + DaysIn(year, month)
  <2>1. month = 2 => month + 1 = 3
    OBVIOUS
  <2> QED
    BY <1>3, <1>4, <2>1, Zenon
<1> QED
  BY <1>2, <1>5, <1>6, Zenon

\* The number of a day, from the days until the first of its month.
LEMMA Number ==
  ASSUME NEW year \in Nat, NEW month \in 1..12, NEW day \in Nat
  PROVE  getJulianDayNumber(year, month, day) = day + DaysUntil(year, month) - 32045
<1>1. DaysBefore(month) \in Nat /\ DaysTo(Shifted(year, month)) \in Int
  BY PartsTyped, Zenon
<1>2. getJulianDayNumber(year, month, day)
        = DayNumber(day, DaysBefore(month), DaysTo(Shifted(year, month)))
  BY NumberParts, Zenon
<1> QED
  BY <1>1, <1>2, SMT DEF DayNumber, DaysUntil

\* A date is its year, its month and its day.
LEMMA DateFields ==
  ASSUME NEW d, ValidDate(d)
  PROVE  \E year \in Nat, month \in 1..12, day \in 1..31 :
           d = [year |-> year, month |-> month, day |-> day] /\ day <= DaysIn(year, month)
<1>1. d \in [year : Nat, month : 1..12, day : 1..31] /\ d.day <= DaysIn(d.year, d.month)
  BY Zenon DEF ValidDate
<1>2. d.year \in Nat /\ d.month \in 1..12 /\ d.day \in 1..31
  BY <1>1, SMT
<1>3. d = [year |-> d.year, month |-> d.month, day |-> d.day]
  BY <1>1, SMT
<1> QED
  BY <1>1, <1>2, <1>3, Zenon

\* The day after: its number is one more.
LEMMA NextDay ==
  ASSUME NEW d, ValidDate(d)
  PROVE  /\ ValidDate(Tomorrow(d))
         /\ getJulianDayNumber(Tomorrow(d).year, Tomorrow(d).month, Tomorrow(d).day)
              = getJulianDayNumber(d.year, d.month, d.day) + 1
<1>1. PICK year \in Nat, month \in 1..12, day \in 1..31 :
         d = [year |-> year, month |-> month, day |-> day] /\ day <= DaysIn(year, month)
  BY DateFields, Zenon
<1>2. DaysIn(year, month) \in 28..31 /\ DaysIn(year, 12) = 31
  BY DEF DaysIn
<1>3. DaysIn(year, month + 1) >= 1 /\ DaysIn(year + 1, 1) = 31
  BY DEF DaysIn
<1>4. PICK u : u = DaysUntil(year, month)
  OBVIOUS
<1>5. u \in Int /\ getJulianDayNumber(year, month, day) = day + u - 32045
  <2>1. DaysUntil(year, month) \in Int
    BY DaysBetween, Zenon
  <2>2. getJulianDayNumber(year, month, day) = day + DaysUntil(year, month) - 32045
    BY Number, SMT
  <2> QED
    BY <1>4, <2>1, <2>2
<1>7. CASE day < DaysIn(year, month)
  <2>1. Tomorrow(d) = [year |-> year, month |-> month, day |-> day + 1]
    BY <1>1, <1>7 DEF Tomorrow
  <2>2. ValidDate(Tomorrow(d))
    BY <1>2, <1>7, <2>1 DEF ValidDate
  <2>3. getJulianDayNumber(year, month, day + 1) = (day + 1) + u - 32045
    BY <1>4, Number, SMT
  <2> QED
    BY <1>1, <1>5, <2>1, <2>2, <2>3, SMT
<1>8. CASE day = DaysIn(year, month) /\ month < 12
  <2>1. Tomorrow(d) = [year |-> year, month |-> month + 1, day |-> 1]
    <3>1. /\ ~(d.day < DaysIn(d.year, d.month))
          /\ d.day = DaysIn(d.year, d.month) /\ d.month < 12
      BY <1>1, <1>2, <1>8
    <3>2. Tomorrow(d) = [d EXCEPT !.month = @ + 1, !.day = 1]
      BY <3>1, Zenon DEF Tomorrow
    <3> QED
      BY <1>1, <3>2, Zenon
  <2>2. ValidDate(Tomorrow(d))
    BY <1>3, <1>8, <2>1 DEF ValidDate
  <2>3. DaysUntil(year, month + 1) = u + day
    BY <1>4, <1>8, DaysBetween, Zenon
  <2>4. getJulianDayNumber(year, month + 1, 1) = 1 + (u + day) - 32045
    BY <1>8, <2>3, Number, SMT
  <2> QED
    BY <1>1, <1>5, <2>1, <2>2, <2>4, SMT
<1>9. CASE day = DaysIn(year, month) /\ month = 12
  <2>1. Tomorrow(d) = [year |-> year + 1, month |-> 1, day |-> 1]
    BY <1>1, <1>9 DEF Tomorrow
  <2>2. ValidDate(Tomorrow(d))
    BY <1>3, <2>1 DEF ValidDate
  <2>3. DaysUntil(year + 1, 1) = u + 31 /\ day = 31
    BY <1>2, <1>4, <1>9, DaysBetween, Zenon
  <2>4. getJulianDayNumber(year + 1, 1, 1) = 1 + (u + 31) - 32045
    BY <2>3, Number, SMTT(60)
  <2> QED
    BY <1>1, <1>5, <2>1, <2>2, <2>3, <2>4, SMT
<1> QED
  BY <1>1, <1>2, <1>7, <1>8, <1>9

\* The day of the year that toUtcTime() counts from the first of January.
InYearOf(d, n) == /\ n \in 0..365
                  /\ n = 365 => IsLeap(d.year)
                  /\ n = 0 <=> d.month = 1 /\ d.day = 1

\* tm_yday is 0 on the first of January and less than the length of the year.
LEMMA YearDay ==
  ASSUME NEW d, ValidDate(d),
         NEW n, n = getJulianDayNumber(d.year, d.month, d.day) - getJulianDayNumber(d.year, 1, 1)
  PROVE  InYearOf(d, n)
<1>1. PICK year \in Nat, month \in 1..12, day \in 1..31 :
         d = [year |-> year, month |-> month, day |-> day] /\ day <= DaysIn(year, month)
  BY DateFields, Zenon
<1>2. PICK L : L = DaysIn(year, 2)
  OBVIOUS
<1>3. L \in {28, 29} /\ (L = 29 <=> IsLeap(year))
  BY <1>2 DEF DaysIn
<1> DEFINE U(m) == DaysUntil(year, m)
<1>4. /\ U(1) \in Int /\ U(2) = U(1) + 31
  BY DaysBetween, SMT DEF DaysIn
<1>5. ASSUME NEW m \in 1..11
      PROVE  U(m + 1) = U(m) + DaysIn(year, m)
  BY DaysBetween, SMT
<1>6. /\ U(3) = U(2) + L /\ U(4) = U(3) + 31 /\ U(5) = U(4) + 30 /\ U(6) = U(5) + 31
      /\ U(7) = U(6) + 30 /\ U(8) = U(7) + 31 /\ U(9) = U(8) + 31 /\ U(10) = U(9) + 30
      /\ U(11) = U(10) + 31 /\ U(12) = U(11) + 30
  <2> HIDE DEF U
  <2>1. U(2 + 1) = U(2) + L
    BY <1>2, <1>5, SMT
  <2>2. ASSUME NEW m \in 3..11
        PROVE  U(m + 1) = U(m) + IF m \in {4, 6, 9, 11} THEN 30 ELSE 31
    BY <1>5, SMT DEF DaysIn
  <2> QED
    BY <2>1, <2>2, SMT
<1>7. PICK u : u = U(1)
  OBVIOUS
<1>8. /\ U(1) = u /\ U(2) = u + 31 /\ U(3) = u + 31 + L /\ U(4) = u + 62 + L
      /\ U(5) = u + 92 + L /\ U(6) = u + 123 + L /\ U(7) = u + 153 + L
      /\ U(8) = u + 184 + L /\ U(9) = u + 215 + L /\ U(10) = u + 245 + L
      /\ U(11) = u + 276 + L /\ U(12) = u + 306 + L
  <2> HIDE DEF U
  <2> QED
    BY <1>3, <1>4, <1>6, <1>7, SMT
<1>9. /\ DaysIn(year, month) <= 31 /\ (month = 2 => DaysIn(year, month) = L)
  BY <1>2 DEF DaysIn
<1>10. /\ U(month) - u \in 0..(306 + L) /\ (month < 12 => U(month) - u <= 276 + L)
       /\ U(month) \in Int /\ (month # 1 => U(month) - u >= 31)
  <2> HIDE DEF U
  <2> QED
    BY <1>3, <1>4, <1>7, <1>8, SMT
<1>11. /\ getJulianDayNumber(d.year, d.month, d.day) = day + U(month) - 32045
       /\ getJulianDayNumber(d.year, 1, 1) = 1 + u - 32045
  BY <1>1, <1>7, Number, SMT
<1>12. u \in Int
  BY <1>4, <1>7
<1>13. n = day - 1 + (U(month) - u)
  <2> HIDE DEF U
  <2>1. U(month) \in Int
    BY <1>10
  <2>2. n = (day + U(month) - 32045) - (1 + u - 32045)
    BY <1>11
  <2> QED
    BY <1>12, <2>1, <2>2, SMT
<1> HIDE DEF U
<1>14. month = 1 => U(month) = u
  BY <1>7, SMTT(60)
<1>15. n \in 0..365 /\ (n = 365 => L = 29) /\ (n = 0 <=> month = 1 /\ day = 1)
  BY <1>1, <1>3, <1>9, <1>10, <1>12, <1>13, <1>14, SMTT(60)
<1> QED
  BY <1>1, <1>3, <1>15 DEF InYearOf

\* The day and the second of a time, before 1970 as after.
LEMMA DayAndSecondOf ==
  ASSUME NEW x \in Int, NEW s \in Nat, s < 86400, NEW t, t = x * 86400 + s
  PROVE  DayAndSecond(t) = <<x, s>>
<1>1. kSecondsPerDay = 86400
  BY DEF kSecondsPerDay
<1>2. CASE x >= 0
  <2>1. t >= 0 /\ t \in Int /\ t \div 86400 = x
    BY <1>2, SMT
  <2>2. Quotient(t, 86400) = x /\ Remainder(t, 86400) = s
    BY <2>1, SMT DEF Quotient, Remainder
  <2> QED
    BY <1>1, <2>2, SMT DEF DayAndSecond
<1>3. CASE x < 0 /\ s = 0
  <2>1. ~(t >= 0) /\ t \in Int /\ (-t) \div 86400 = -x
    BY <1>3, SMT
  <2>2. Quotient(t, 86400) = x /\ Remainder(t, 86400) = s
    BY <1>3, <2>1, SMT DEF Quotient, Remainder
  <2> QED
    BY <1>1, <1>3, <2>2, SMT DEF DayAndSecond
<1>4. CASE x < 0 /\ s > 0
  <2>1. ~(t >= 0) /\ t \in Int /\ (-t) \div 86400 = -x - 1
    BY <1>4, SMT
  <2>2. Quotient(t, 86400) = x + 1 /\ Remainder(t, 86400) = s - 86400
    BY <2>1, SMT DEF Quotient, Remainder
  <2> QED
    BY <1>1, <1>4, <2>2, SMT DEF DayAndSecond
<1> QED
  BY <1>2, <1>3, <1>4

\* fillHMS() loses nothing.
LEMMA HourMinuteSecond ==
  ASSUME NEW s \in Nat
  PROVE  fillHMS(s).tm_hour * 3600 + fillHMS(s).tm_min * 60 + fillHMS(s).tm_sec = s
<1>1. s % 60 = s - 60 * (s \div 60) /\ s \div 60 \in Nat /\ s % 60 \in Nat
  BY SMT
<1>2. PICK m : m = s \div 60
  OBVIOUS
<1>3. m % 60 = m - 60 * (m \div 60) /\ m % 60 \in Nat /\ m \div 60 \in Nat
  BY <1>1, <1>2, SMT
<1>4. fillHMS(s) = [tm_sec |-> s % 60, tm_min |-> m % 60, tm_hour |-> m \div 60]
  BY <1>2 DEF fillHMS
<1> QED
  BY <1>1, <1>2, <1>3, <1>4, SMT

\* The date and its number belong together.
DateInv ==
  /\ ValidDate(ymd) /\ jdn \in Int
  /\ jdn = getJulianDayNumber(ymd.year, ymd.month, ymd.day)
  /\ weekday = weekDay(jdn)

\* The number of a day is a number.
LEMMA NumberInt ==
  ASSUME NEW d, ValidDate(d)
  PROVE  getJulianDayNumber(d.year, d.month, d.day) \in Int
<1>1. PICK year \in Nat, month \in 1..12, day \in Nat :
         d = [year |-> year, month |-> month, day |-> day]
  BY DEF ValidDate
<1>2. DaysUntil(year, month) \in Int
  BY DaysBetween, Zenon
<1>3. getJulianDayNumber(year, month, day) = day + DaysUntil(year, month) - 32045
  BY Number, SMT
<1> QED
  BY <1>1, <1>2, <1>3, SMT

\* DateInv is inductive: the number of the next day is the next number.
LEMMA DateInvHolds == DateSpec => []DateInv
<1>1. ASSUME DateInit PROVE DateInv
  <2>1. PICK y \in Years : /\ ymd = [year |-> y, month |-> 1, day |-> 1]
                           /\ jdn = getJulianDayNumber(y, 1, 1)
                           /\ weekday = weekDay(jdn)
    BY <1>1, Zenon DEF DateInit
  <2>2. ValidDate(ymd)
    <3>1. y \in Nat
      BY DateAssumption, SMT
    <3>2. DaysIn(y, 1) = 31
      BY DEF DaysIn
    <3> QED
      BY <2>1, <3>1, <3>2, SMT DEF ValidDate
  <2> QED
    BY <2>1, <2>2, NumberInt, SMT DEF DateInv
<1>2. ASSUME DateInv, DateNext PROVE DateInv'
  <2>1. ValidDate(ymd) /\ ValidDate(ymd')
    BY <1>2, NextDay, Zenon DEF DateInv, DateNext
  <2>2. getJulianDayNumber(ymd'.year, ymd'.month, ymd'.day) = jdn + 1
    BY <1>2, NextDay, Zenon DEF DateInv, DateNext
  <2>4. jdn' \in Int
    BY <1>2, SMT DEF DateInv, DateNext
  <2>3. weekday' = weekDay(jdn')
    BY <1>2, SMT DEF DateInv, DateNext, weekDay, kDaysPerWeek
  <2> QED
    BY <1>2, <2>1, <2>2, <2>3, <2>4, Zenon DEF DateInv, DateNext
<1>3. ASSUME DateInv, UNCHANGED dateVars PROVE DateInv'
  BY <1>3, Zenon DEF DateInv, dateVars
<1> QED
  BY <1>1, <1>2, <1>3, PTL DEF DateSpec

\* date.cc: getYearMonthDay() inverts getJulianDayNumber() and weekDay() follows
\* the days, whatever the day on which the dates begin.
THEOREM DateAgreesHolds == DateSpec => []DateAgrees
<1>1. ASSUME DateInv PROVE DateAgrees
  BY <1>1, DateInverse, Zenon DEF DateInv, DateAgrees
<1> QED
  BY <1>1, DateInvHolds, PTL

\* The fields of the broken-down time.
UtcTime(seconds, date, day, first) ==
  [hms     |-> fillHMS(seconds),
   tm_year |-> day.year - 1900, tm_mon |-> day.month - 1,
   tm_mday |-> day.day, tm_wday |-> weekDay(date), tm_yday |-> date - first]

\* toUtcTime() in terms of them.
LEMMA UtcParts ==
  ASSUME NEW t
  PROVE  LET date == DayAndSecond(t)[1] + kJulianDayOf1970_01_01
             day  == getYearMonthDay(date)
         IN  toUtcTime(t, TRUE) = UtcTime(DayAndSecond(t)[2], date, day,
                                          getJulianDayNumber(day.year, 1, 1))
BY DEF toUtcTime, UtcTime

\* fromUtcTime() adds up the day and the seconds of it.
LEMMA FromParts ==
  ASSUME NEW utc, NEW x \in Int, NEW s \in Nat, utc.hms = fillHMS(s),
         x = getJulianDayNumber(utc.tm_year + 1900, utc.tm_mon + 1, utc.tm_mday)
               - kJulianDayOf1970_01_01
  PROVE  fromUtcTime(utc) = x * kSecondsPerDay + s
<1>1. PICK h, m, n : h = fillHMS(s).tm_hour /\ m = fillHMS(s).tm_min /\ n = fillHMS(s).tm_sec
  OBVIOUS
<1>2. h \in Int /\ m \in Int /\ n \in Int
  BY <1>1, SMT DEF fillHMS
<1>3. h * 3600 + m * 60 + n = s
  BY <1>1, HourMinuteSecond
<1>4. PICK k : k = x * kSecondsPerDay
  OBVIOUS
<1>5. k \in Int
  BY <1>4, SMT DEF kSecondsPerDay
<1>6. fromUtcTime(utc) = k + h * 3600 + m * 60 + n
  BY <1>1, <1>4 DEF fromUtcTime
<1> QED
  BY <1>2, <1>3, <1>4, <1>5, <1>6, SMT

\* UtcRoundTrip of every year, those included whose seconds need more than the
\* 32 bits that TLC has.
UtcEveryYear ==
  \A s \in Seconds :
    LET t == (jdn - kJulianDayOf1970_01_01) * kSecondsPerDay + s
    IN  RoundTrip(t, toUtcTime(t, TRUE), s)

\* fromUtcTime() inverts toUtcTime(), with tm_yday and tm_wday those of the
\* date, for every second of every day of date.h's years.
THEOREM UtcAllYears == DateSpec => []UtcEveryYear
<1>1. ASSUME DateInv, NEW s \in Seconds,
             NEW x, x = jdn - kJulianDayOf1970_01_01, NEW t, t = x * kSecondsPerDay + s
      PROVE  RoundTrip(t, toUtcTime(t, TRUE), s)
  <2>1. s \in Nat /\ s < 86400 /\ kSecondsPerDay = 86400
    BY DateAssumption, SMT DEF kSecondsPerDay
  <2>2. ValidDate([year |-> 1970, month |-> 1, day |-> 1])
    BY DEF ValidDate, DaysIn
  <2>3. kJulianDayOf1970_01_01 \in Int
    BY <2>2, NumberInt DEF kJulianDayOf1970_01_01
  <2>4. jdn \in Int /\ x \in Int /\ x + kJulianDayOf1970_01_01 = jdn
    BY <1>1, <2>3 DEF DateInv
  <2>5. DayAndSecond(t) = <<x, s>>
    BY <1>1, <2>1, <2>4, DayAndSecondOf, SMT
  <2>6. DayAndSecond(t)[1] = x /\ DayAndSecond(t)[2] = s
    BY <2>5
  <2>7. getYearMonthDay(jdn) = ymd /\ ValidDate(ymd)
    BY <1>1, DateInverse, Zenon DEF DateInv
  <2>8. PICK utc, first : utc = toUtcTime(t, TRUE) /\ first = getJulianDayNumber(ymd.year, 1, 1)
    BY Zenon
  <2>9. utc = UtcTime(s, jdn, ymd, first)
    BY <2>4, <2>6, <2>7, <2>8, UtcParts, Zenon
  <2>10. PICK n : n = jdn - first
    OBVIOUS
  <2>11. InYearOf(ymd, n)
    BY <1>1, <2>7, <2>8, <2>10, YearDay, Zenon DEF DateInv
  <2>12. ymd.year \in Nat /\ ymd.month \in Nat /\ ymd.day \in Nat
    BY <2>7 DEF ValidDate
  <2>13. utc.tm_year + 1900 = ymd.year /\ utc.tm_mon + 1 = ymd.month /\ utc.tm_mday = ymd.day
    BY <2>9, <2>12, SMT DEF UtcTime
  <2>14. utc.tm_wday = weekday /\ utc.hms = fillHMS(s) /\ utc.tm_yday = n
    BY <1>1, <2>9, <2>10 DEF DateInv, UtcTime
  <2>15. x = getJulianDayNumber(utc.tm_year + 1900, utc.tm_mon + 1, utc.tm_mday)
               - kJulianDayOf1970_01_01
    BY <1>1, <2>13 DEF DateInv
  <2>16. fromUtcTime(utc) = t
    BY <1>1, <2>1, <2>4, <2>14, <2>15, FromParts, SMT
  <2>17. /\ utc.tm_yday \in 0..365
         /\ utc.tm_yday = 0 <=> ymd.month = 1 /\ ymd.day = 1
         /\ utc.tm_yday = 365 => IsLeap(ymd.year)
    BY <2>11, <2>14, SMT DEF InYearOf
  <2>18. RoundTrip(t, utc, s)
    BY <2>13, <2>14, <2>16, <2>17, SMTT(30) DEF RoundTrip
  <2> QED
    BY <2>8, <2>18, Zenon
<1>2. ASSUME DateInv PROVE UtcEveryYear
  <2>1. ASSUME NEW s \in Seconds,
               NEW t, t = (jdn - kJulianDayOf1970_01_01) * kSecondsPerDay + s
        PROVE  RoundTrip(t, toUtcTime(t, TRUE), s)
    <3>1. PICK x : x = jdn - kJulianDayOf1970_01_01
      OBVIOUS
    <3> QED
      BY <1>1, <1>2, <2>1, <3>1, Zenon
  <2> QED
    BY <2>1, Zenon DEF UtcEveryYear
<1> QED
  BY <1>2, DateInvHolds, PTL

\* In particular for the years that TLC tries.
THEOREM UtcRoundTripHolds == DateSpec => []UtcRoundTrip
<1>1. UtcEveryYear => UtcRoundTrip
  BY Zenon DEF UtcEveryYear, UtcRoundTrip
<1> QED
  BY <1>1, UtcAllYears, PTL

-----------------------------------------------------------------------------
(* Time zones.                                                             *)

\* What the constructors leave in data_, and the conversion made last.
Loaded ==
  \/ \E f \in Files : \E size \in 0..Records(f) :
        /\ data = readTimeZoneFile(f, size)
        /\ whole = readTimeZoneFile(f, Records(f))
  \/ \E o \in Offsets : data = fixedZone(o) /\ whole = fixedZone(o)
ConvertedLast ==
  /\ now \in Int
  /\ used => /\ data.localtimes # <<>>
             /\ local = toLocalTime(data, now)
             /\ back = fromLocalTime(data, local)
ZoneInv == Loaded /\ ConvertedLast

-----------------------------------------------------------------------------
\* Tables that findLocaltime() can search, by GMT or by local time.
Entries(tables) == [gmttime : Int, localtime : Int, localtimeIdx : DOMAIN tables.localtimes]
Tables(tables) ==
  /\ tables.transitions \in Seq(Entries(tables))
  /\ tables.localtimes \in Seq(LocalTimeTypes) /\ tables.localtimes # <<>>
KeyAt(tables, gmt, i) == Key(tables.transitions[i], gmt)
Increasing(tables, gmt) ==
  \A i, j \in 1..Len(tables.transitions) :
    i < j => KeyAt(tables, gmt, i) < KeyAt(tables, gmt, j)

\* The local time type after the transition i, or before all of them.
TypeAt(tables, i) ==
  tables.localtimes[IF i = 0 THEN 1 ELSE tables.transitions[i].localtimeIdx]

\* The transition i is the last one that is not later than the time.
InForce(tables, gmt, time, i) ==
  /\ i > 0 => KeyAt(tables, gmt, i) <= time
  /\ i < Len(tables.transitions) => time < KeyAt(tables, gmt, i + 1)

\* The types of tables.
LEMMA Typed ==
  ASSUME NEW tables, Tables(tables)
  PROVE  /\ Len(tables.transitions) \in Nat
         /\ DOMAIN tables.transitions = 1..Len(tables.transitions)
         /\ \A i \in 1..Len(tables.transitions), gmt \in BOOLEAN : KeyAt(tables, gmt, i) \in Int
         /\ \A i \in 0..Len(tables.transitions) : TypeAt(tables, i) \in LocalTimeTypes
<1> DEFINE n == Len(tables.transitions)
<1>1. /\ n \in Nat /\ DOMAIN tables.transitions = 1..n
      /\ \A i \in 1..n : tables.transitions[i] \in Entries(tables)
  BY SMT DEF Tables
<1>2. \A i \in 1..n : /\ tables.transitions[i].gmttime \in Int
                      /\ tables.transitions[i].localtime \in Int
                      /\ tables.transitions[i].localtimeIdx \in DOMAIN tables.localtimes
  BY <1>1, Zenon DEF Entries
<1>3. 1 \in DOMAIN tables.localtimes
  BY SMT DEF Tables
<1>4. \A i \in DOMAIN tables.localtimes : tables.localtimes[i] \in LocalTimeTypes
  BY SMT DEF Tables
<1>5. \A i \in 0..n : i = 0 \/ i \in 1..n
  BY <1>1, SMT
<1> HIDE DEF n
<1>6. \A i \in 1..n, gmt \in BOOLEAN : KeyAt(tables, gmt, i) \in Int
  BY <1>2, Zenon DEF KeyAt, Key
<1>7. \A i \in 0..n : TypeAt(tables, i) \in LocalTimeTypes
  BY <1>2, <1>3, <1>4, <1>5, Zenon DEF TypeAt
<1> QED
  BY <1>1, <1>6, <1>7, Zenon DEF n

\* std::lower_bound(), and what findLocaltime() makes of it: the type of the
\* transition in force.
LEMMA FindsInForce ==
  ASSUME NEW tables, Tables(tables), NEW gmt \in BOOLEAN, Increasing(tables, gmt), NEW time \in Int
  PROVE  \E i \in 0..Len(tables.transitions) :
            /\ InForce(tables, gmt, time, i)
            /\ findLocaltime(tables, time, gmt) = TypeAt(tables, i)
<1> DEFINE key(i) == Key(tables.transitions[i], gmt)
           n      == Len(tables.transitions)
           found  == {i \in 1..n : key(i) >= time}
           transI == CHOOSE i \in found : \A j \in found : i <= j
           at     == IF key(transI) # time THEN transI - 1 ELSE transI
           type(i) == tables.localtimes[tables.transitions[i].localtimeIdx]
<1>1. n \in Nat /\ \A i \in 1..n : key(i) \in Int
  BY Typed, Zenon DEF KeyAt
<1>2. \A i, j \in 1..n : i < j => key(i) < key(j)
  BY Zenon DEF Increasing, KeyAt
<1>3. /\ TypeAt(tables, 0) = tables.localtimes[1]
      /\ \A i : i # 0 => TypeAt(tables, i) = type(i)
  BY Zenon DEF TypeAt
<1>4. \A i \in 0..n : InForce(tables, gmt, time, i)
                       <=> (i > 0 => key(i) <= time) /\ (i < n => time < key(i + 1))
  BY Zenon DEF InForce, KeyAt
<1>5. findLocaltime(tables, time, gmt)
        = IF n = 0 \/ (n > 0 /\ time < key(1)) THEN tables.localtimes[1]
          ELSE IF found # {} THEN type(at) ELSE type(n)
  BY Zenon DEF findLocaltime
<1>6. SUFFICES \E i \in 0..n : /\ i > 0 => key(i) <= time
                               /\ i < n => time < key(i + 1)
                               /\ findLocaltime(tables, time, gmt) = TypeAt(tables, i)
  BY <1>4, Zenon
<1> HIDE DEF key, n, type
<1>7. CASE n = 0 \/ (n > 0 /\ time < key(1))
  <2>1. findLocaltime(tables, time, gmt) = TypeAt(tables, 0)
    BY <1>3, <1>5, <1>7, Zenon
  <2>2. 0 \in 0..n /\ ~(0 > 0) /\ (0 < n => time < key(0 + 1))
    BY <1>1, <1>7, SMT
  <2> QED
    BY <2>1, <2>2, Zenon
<1>8. CASE ~(n = 0 \/ (n > 0 /\ time < key(1))) /\ found = {}
  <2>1. n # 0 /\ n \in 1..n /\ n \in 0..n /\ ~(n < n)
    BY <1>1, <1>8, SMT
  <2>2. findLocaltime(tables, time, gmt) = TypeAt(tables, n)
    BY <1>3, <1>5, <1>8, <2>1, Zenon
  <2>3. key(n) \in Int /\ ~(key(n) >= time)
    BY <1>1, <1>8, <2>1, Zenon
  <2>4. key(n) <= time
    BY <2>3
  <2> QED
    BY <2>1, <2>2, <2>4, Zenon
<1>9. CASE ~(n = 0 \/ (n > 0 /\ time < key(1))) /\ found # {}
  <2>1. found \in SUBSET Nat
    BY <1>1
  <2>2. transI \in found /\ \A j \in found : transI <= j
    <3> HIDE DEF found
    <3>1. \E i \in found : \A j \in found : i <= j
      BY <1>9, <2>1, LeastNat, Zenon
    <3> QED
      BY <3>1, Zenon
  <2>3. findLocaltime(tables, time, gmt) = type(at)
    BY <1>5, <1>9, Zenon
  <2> HIDE DEF transI
  <2>4. transI \in 1..n /\ key(transI) >= time
    BY <2>2, Zenon
  <2>5. n > 0 /\ key(1) <= time /\ 1 \in 1..n
    BY <1>1, <1>9, SMT
  <2>6. CASE key(transI) = time
    <3>1. transI < n => time < key(transI + 1)
      BY <1>1, <1>2, <2>4, <2>6, SMT
    <3>2. transI \in 0..n /\ transI # 0 /\ key(transI) <= time
      BY <1>1, <2>4, <2>6, SMT
    <3>3. at = transI
      BY <2>6, Zenon
    <3> QED
      BY <1>3, <2>3, <3>1, <3>2, <3>3, Zenon
  <2>7. CASE key(transI) # time
    <3>1. key(transI) > time /\ transI \in Nat
      BY <1>1, <2>4, <2>7, SMT
    <3>2. transI # 1
      BY <1>1, <2>5, <3>1, SMT
    <3>3. transI - 1 \in 1..n /\ transI - 1 \in 0..n /\ transI - 1 # 0 /\ (transI - 1) + 1 = transI
      BY <1>1, <2>4, <3>1, <3>2, SMT
    <3>4. transI - 1 \notin found
      <4>1. ~(transI <= transI - 1)
        BY <3>1, SMT
      <4> QED
        BY <2>2, <4>1, Zenon
    <3>5. key(transI - 1) <= time /\ time < key((transI - 1) + 1)
      BY <1>1, <3>1, <3>3, <3>4, SMT
    <3>6. at = transI - 1
      BY <2>7, Zenon
    <3> QED
      BY <1>3, <2>3, <3>3, <3>5, <3>6, Zenon
  <2> QED
    BY <2>6, <2>7, Zenon
<1> QED
  BY <1>7, <1>8, <1>9, Zenon

\* There is no other.
LEMMA OneInForce ==
  ASSUME NEW tables, Tables(tables), NEW gmt \in BOOLEAN, Increasing(tables, gmt), NEW time \in Int,
         NEW i \in 0..Len(tables.transitions), InForce(tables, gmt, time, i)
  PROVE  findLocaltime(tables, time, gmt) = TypeAt(tables, i)
<1> DEFINE n == Len(tables.transitions)
           key(k) == KeyAt(tables, gmt, k)
<1>1. PICK j \in 0..n : /\ InForce(tables, gmt, time, j)
                        /\ findLocaltime(tables, time, gmt) = TypeAt(tables, j)
  BY FindsInForce, Zenon
<1>2. n \in Nat /\ \A k \in 1..n : key(k) \in Int
  BY Typed, Zenon
<1>3. \A k, l \in 1..n : k < l => key(k) < key(l)
  BY Zenon DEF Increasing
<1>4. /\ i > 0 => key(i) <= time
      /\ i < n => time < key(i + 1)
      /\ j > 0 => key(j) <= time
      /\ j < n => time < key(j + 1)
  BY <1>1, Zenon DEF InForce
<1> HIDE DEF n, key
<1>5. ASSUME NEW k \in 0..n, NEW l \in 0..n, k < n => time < key(k + 1),
             l > 0 => key(l) <= time
      PROVE  ~(k < l)
  <2> SUFFICES ASSUME k < l PROVE FALSE
    BY Zenon
  <2>1. k + 1 \in 1..n /\ l \in 1..n /\ (k + 1 = l \/ k + 1 < l) /\ time < key(k + 1) /\ key(l) <= time
    BY <1>2, <1>5, SMT
  <2>2. key(k + 1) \in Int /\ key(l) \in Int /\ (key(k + 1) = key(l) \/ key(k + 1) < key(l))
    BY <1>2, <1>3, <2>1, Zenon
  <2> QED
    BY <2>1, <2>2, SMT
<1>6. ~(i < j) /\ ~(j < i)
  BY <1>4, <1>5, Zenon DEF n
<1>7. i = j
  BY <1>2, <1>6, SMT DEF n
<1> QED
  BY <1>1, <1>7, Zenon

\* The transitions up to it, and no others, are not later than the time.
LEMMA UpToInForce ==
  ASSUME NEW tables, Tables(tables), NEW gmt \in BOOLEAN, Increasing(tables, gmt), NEW time \in Int,
         NEW i \in 0..Len(tables.transitions), InForce(tables, gmt, time, i)
  PROVE  \A k \in 1..Len(tables.transitions) : KeyAt(tables, gmt, k) <= time <=> k <= i
<1> DEFINE n == Len(tables.transitions)
           key(k) == KeyAt(tables, gmt, k)
<1>1. n \in Nat /\ \A k \in 1..n : key(k) \in Int
  BY Typed, Zenon
<1>2. \A k, l \in 1..n : k < l => key(k) < key(l)
  BY Zenon DEF Increasing
<1>3. /\ i > 0 => key(i) <= time
      /\ i < n => time < key(i + 1)
  BY Zenon DEF InForce
<1> HIDE DEF n, key
<1>4. \A k \in 1..n : key(k) <= time <=> k <= i
  <2> SUFFICES ASSUME NEW k \in 1..n PROVE key(k) <= time <=> k <= i
    BY Zenon
  <2>1. CASE k <= i
    <3>1. i > 0 /\ i \in 1..n /\ (k = i \/ k < i)
      BY <1>1, <2>1, SMT DEF n
    <3>2. key(i) <= time /\ key(i) \in Int /\ key(k) \in Int /\ (key(k) = key(i) \/ key(k) < key(i))
      BY <1>1, <1>2, <1>3, <3>1, Zenon
    <3> QED
      BY <2>1, <3>2, SMT
  <2>2. CASE ~(k <= i)
    <3>1. i < n /\ i + 1 \in 1..n /\ (i + 1 = k \/ i + 1 < k)
      BY <1>1, <2>2, SMT DEF n
    <3>2. time < key(i + 1) /\ key(i + 1) \in Int /\ key(k) \in Int
          /\ (key(i + 1) = key(k) \/ key(i + 1) < key(k))
      BY <1>1, <1>2, <1>3, <3>1, Zenon
    <3> QED
      BY <2>2, <3>2, SMT
  <2> QED
    BY <2>1, <2>2, Zenon
<1> QED
  BY <1>4, Zenon DEF n, key

-----------------------------------------------------------------------------
\* What Apart() makes of tables: the local time of a transition is the one that
\* the clock is set to, and the clock shows nothing around it that it shows
\* around another one.
Offset(tables, i) == TypeAt(tables, i).gmtOffset
Spaced(tables) ==
  /\ \A i \in 1..Len(tables.transitions) :
       KeyAt(tables, FALSE, i) = KeyAt(tables, TRUE, i) + Offset(tables, i)
  /\ \A i, j \in 1..Len(tables.transitions) : i < j =>
       \A a \in {Offset(tables, i - 1), Offset(tables, i)},
          b \in {Offset(tables, j - 1), Offset(tables, j)} :
         KeyAt(tables, TRUE, i) + a < KeyAt(tables, TRUE, j) + b

\* The transitions are in the order of their local times too.
LEMMA LocalIncreasing ==
  ASSUME NEW tables, Spaced(tables)
  PROVE  Increasing(tables, FALSE)
BY Zenon DEF Spaced, Increasing

\* What LocalRoundTrip says of one time, with the hour out of the way.
OneHour(s) == s = 3600
Again(tables, t, tm, k) == KeyAt(tables, TRUE, k) > t /\ KeyAt(tables, FALSE, k) <= tm
Returned(tables, t, there, hour, result) ==
  /\ (\A k \in 1..Len(tables.transitions) : ~Again(tables, t, there.tm, k)) => result = t
  /\ \A k \in 1..Len(tables.transitions) : Again(tables, t, there.tm, k) =>
       result = t + (there.tm_gmtoff - Offset(tables, k))
                  - (IF there.tm_isdst /\ ~TypeAt(tables, k).isDst THEN hour ELSE 0)

\* fromLocalTime() with the transition by which it finds the offset: where the
\* clock is about to be set back that is the one after the transition in force.
LEMMA ThereAndBack ==
  ASSUME NEW tables, Tables(tables), Increasing(tables, TRUE), Spaced(tables),
         NEW hour \in Nat, OneHour(hour), NEW t \in Int
  PROVE  Returned(tables, t, toLocalTime(tables, t), hour,
                  fromLocalTime(tables, toLocalTime(tables, t)))
<1> DEFINE n == Len(tables.transitions)
           key(i) == KeyAt(tables, FALSE, i)
           gmt(i) == KeyAt(tables, TRUE, i)
           off(i) == Offset(tables, i)
           dst(i) == TypeAt(tables, i).isDst
           there == toLocalTime(tables, t)
<1>1. hour \in Nat
  OBVIOUS
<1>2. Increasing(tables, FALSE)
  BY LocalIncreasing, Zenon
<1>3. n \in Nat /\ \A i \in 1..n : key(i) \in Int /\ gmt(i) \in Int
  BY Typed, Zenon
<1>4. \A i \in 0..n : off(i) \in Int /\ dst(i) \in BOOLEAN
  BY Typed, Zenon DEF Offset, LocalTimeTypes
<1>5. /\ \A i \in 1..n : key(i) = gmt(i) + off(i)
      /\ \A i, j \in 1..n : i < j => /\ gmt(i) + off(i - 1) < gmt(j) + off(j - 1)
                                     /\ gmt(i) + off(i - 1) < gmt(j) + off(j)
  BY Zenon DEF Spaced
<1>6. PICK i \in 0..n : InForce(tables, TRUE, t, i) /\ findLocaltime(tables, t, TRUE) = TypeAt(tables, i)
  BY FindsInForce, Zenon
<1>7. there.tm = t + off(i) /\ there.tm_isdst = dst(i) /\ there.tm_gmtoff = off(i)
  BY <1>6, Zenon DEF toLocalTime, Offset
<1>8. there.tm \in Int
  BY <1>4, <1>7, SMT
<1>9. PICK j \in 0..n : /\ InForce(tables, FALSE, there.tm, j)
                        /\ findLocaltime(tables, there.tm, FALSE) = TypeAt(tables, j)
  BY <1>2, <1>8, FindsInForce, Zenon
<1>10. PICK l : l = there.tm
  OBVIOUS
<1>11. l = t + off(i) /\ l \in Int
  BY <1>7, <1>8, <1>10, Zenon
<1>12. \A k \in 1..n : (gmt(k) <= t <=> k <= i) /\ (key(k) <= l <=> k <= j)
  <2>1. \A k \in 1..n : gmt(k) <= t <=> k <= i
    BY <1>6, UpToInForce, Zenon
  <2>2. InForce(tables, FALSE, l, j)
    BY <1>9, <1>10, Zenon
  <2> HIDE DEF off
  <2>3. \A k \in 1..n : key(k) <= l <=> k <= j
    BY <1>2, <1>11, <2>2, UpToInForce, Zenon
  <2> QED
    BY <2>1, <2>3, Zenon
<1>13. PICK try : try = toLocalTime(tables, l - off(j))
  OBVIOUS
<1>14. PICK result : result = fromLocalTime(tables, there)
  OBVIOUS
<1>15. result = l - (IF dst(i) /\ ~try.tm_isdst /\ HourMin(try.tm) = HourMin(l)
                     THEN hour ELSE 0) - off(j)
  <2>1. findLocaltime(tables, there.tm, FALSE).gmtOffset = off(j)
    BY <1>9, Zenon DEF Offset
  <2> HIDE DEF off, there, dst
  <2>2. \A x : fromLocalTime(tables, x)
          = x.tm - (IF /\ x.tm_isdst
                       /\ ~toLocalTime(tables, x.tm - findLocaltime(tables, x.tm, FALSE).gmtOffset).tm_isdst
                       /\ HourMin(toLocalTime(tables, x.tm - findLocaltime(tables, x.tm, FALSE).gmtOffset).tm) = HourMin(x.tm)
                    THEN hour ELSE 0) - findLocaltime(tables, x.tm, FALSE).gmtOffset
    BY SMT DEF fromLocalTime, OneHour
  <2> QED
    BY <1>7, <1>10, <1>13, <1>14, <2>1, <2>2, Zenon
<1>16. ASSUME (\A k \in 1..n : ~(gmt(k) > t /\ key(k) <= l)) => result = t,
              \A k \in 1..n : gmt(k) > t /\ key(k) <= l =>
                result = t + (off(i) - off(k)) - (IF dst(i) /\ ~dst(k) THEN hour ELSE 0)
       PROVE  Returned(tables, t, there, hour, result)
  <2> HIDE DEF there
  <2> QED
    BY <1>7, <1>10, <1>16, ZenonT(60) DEF Returned, Again
<1> SUFFICES Returned(tables, t, there, hour, result)
  BY <1>14, Zenon
<1> HIDE DEF n, key, gmt, off, dst, there
<1>17. off(i) \in Int /\ off(j) \in Int /\ dst(i) \in BOOLEAN /\ dst(j) \in BOOLEAN
  BY <1>4, Zenon
<1>18. \A k \in 1..n : gmt(k) > t /\ key(k) <= l <=> i < k /\ k <= j
  <2> SUFFICES ASSUME NEW k \in 1..n PROVE gmt(k) > t /\ key(k) <= l <=> i < k /\ k <= j
    BY Zenon
  <2>1. gmt(k) \in Int /\ (gmt(k) <= t <=> k <= i) /\ (key(k) <= l <=> k <= j)
    BY <1>3, <1>12, Zenon
  <2>2. k \in Int /\ i \in Int
    BY <1>3, SMT
  <2>3. (gmt(k) > t <=> ~(gmt(k) <= t)) /\ (i < k <=> ~(k <= i))
    BY <2>1, <2>2, SMT
  <2> QED
    BY <2>1, <2>3, Zenon
<1>19. ~(j < i)
  <2> SUFFICES ASSUME j < i PROVE FALSE
    BY Zenon
  <2>1. i \in 1..n /\ i <= i /\ ~(i <= j)
    BY <1>3, SMT
  <2>2. gmt(i) <= t /\ ~(key(i) <= l) /\ key(i) = gmt(i) + off(i) /\ gmt(i) \in Int
    BY <1>3, <1>5, <1>12, <2>1, Zenon
  <2> QED
    BY <1>11, <1>17, <2>2, SMT
<1>20. CASE j = i
  <2>1. l - off(j) = t
    BY <1>11, <1>17, <1>20, SMT
  <2>2. try = there
    BY <1>13, <2>1, Zenon DEF there
  <2>3. try.tm_isdst = dst(i)
    BY <1>7, <2>2, Zenon
  <2>4. result = l - 0 - off(j)
    BY <1>15, <2>3, Zenon
  <2>5. result = t
    BY <1>11, <1>17, <1>20, <2>4, SMT
  <2>6. \A k \in 1..n : ~(i < k /\ k <= j)
    BY <1>3, <1>20, SMT
  <2> QED
    BY <1>16, <1>18, <2>5, <2>6, Zenon
<1>21. CASE i < j
  <2>1. /\ i + 1 \in 1..n /\ (i + 1) - 1 = i /\ i + 1 \in 0..n /\ ~(i + 1 <= i) /\ i + 1 <= j
        /\ i + 1 = j \/ i + 1 < j
    BY <1>3, <1>21, SMT
  <2>2. /\ ~(gmt(i + 1) <= t) /\ key(i + 1) <= l /\ key(i + 1) = gmt(i + 1) + off(i + 1)
        /\ gmt(i + 1) \in Int /\ off(i + 1) \in Int /\ dst(i + 1) \in BOOLEAN
    BY <1>3, <1>4, <1>5, <1>12, <2>1, Zenon
  <2>3. ~(i + 1 < j)
    <3> SUFFICES ASSUME i + 1 < j PROVE FALSE
      BY Zenon
    <3>1. /\ i + 2 \in 1..n /\ i + 1 < i + 2 /\ i + 2 \in 0..n /\ i + 2 <= j
      BY <1>3, SMT
    <3>2. /\ key(i + 2) <= l /\ key(i + 2) = gmt(i + 2) + off(i + 2)
          /\ gmt(i + 1) + off((i + 1) - 1) < gmt(i + 2) + off(i + 2)
          /\ gmt(i + 2) \in Int /\ off(i + 2) \in Int
      BY <1>3, <1>4, <1>5, <1>12, <2>1, <3>1, Zenon
    <3>3. gmt(i + 1) + off(i) < gmt(i + 2) + off(i + 2)
      BY <2>1, <3>2, Zenon
    <3> QED
      BY <1>11, <1>17, <2>2, <3>2, <3>3, SMT
  <2>4. j = i + 1
    BY <2>1, <2>3, Zenon
  <2>5. PICK later : later = l - off(j)
    OBVIOUS
  <2>6. later \in Int /\ later + off(i + 1) = l /\ gmt(i + 1) <= later
    BY <1>11, <1>17, <2>2, <2>4, <2>5, SMT
  <2>7. InForce(tables, TRUE, later, i + 1)
    <3>1. ASSUME i + 1 < n PROVE later < gmt((i + 1) + 1)
      <4>1. (i + 1) + 1 \in 1..n /\ i + 1 < (i + 1) + 1 /\ ((i + 1) + 1) - 1 = i + 1
        BY <1>3, <3>1, SMT
      <4>2. /\ gmt(i + 1) + off((i + 1) - 1) < gmt((i + 1) + 1) + off(((i + 1) + 1) - 1)
            /\ gmt((i + 1) + 1) \in Int
        BY <1>3, <1>5, <2>1, <4>1, Zenon
      <4>3. gmt(i + 1) + off(i) < gmt((i + 1) + 1) + off(i + 1)
        BY <2>1, <4>1, <4>2, Zenon
      <4> QED
        BY <1>11, <1>17, <2>2, <2>6, <4>2, <4>3, SMT
    <3> QED
      BY <2>6, <3>1, Zenon DEF InForce, gmt, n
  <2>8. findLocaltime(tables, later, TRUE) = TypeAt(tables, i + 1)
    BY <2>1, <2>6, <2>7, OneInForce, Zenon DEF n
  <2>9. try.tm = l /\ try.tm_isdst = dst(i + 1)
    BY <1>13, <2>5, <2>6, <2>8, Zenon DEF toLocalTime, dst, off, Offset
  <2>10. result = l - (IF dst(i) /\ ~dst(i + 1) THEN hour ELSE 0) - off(i + 1)
    BY <1>15, <2>4, <2>9, Zenon
  <2>11. result = t + (off(i) - off(i + 1)) - (IF dst(i) /\ ~dst(i + 1) THEN hour ELSE 0)
    BY <1>1, <1>11, <1>17, <2>2, <2>10, SMT
  <2>12. \A k \in 1..n : i < k /\ k <= j <=> k = i + 1
    BY <1>3, <2>4, SMT
  <2> QED
    BY <1>16, <1>18, <2>1, <2>11, <2>12, Zenon
<1> QED
  BY <1>3, <1>19, <1>20, <1>21, SMT

-----------------------------------------------------------------------------
\* A file read up to its types, or further, gives the tables of the whole file;
\* one that ends earlier gives no transition.
LEMMA ReadsAllOrNone ==
  ASSUME NEW f, WellFormed(f), NEW size \in 0..Records(f)
  PROVE  /\ TypesRead(f, size) \in Seq(LocalTimeTypes)
         /\ size >= Records(f) - 1
              => readTimeZoneFile(f, size) = readTimeZoneFile(f, Records(f))
         /\ size < Records(f) - 1 => readTimeZoneFile(f, size).transitions = <<>>
         /\ TypesRead(f, size) # <<>> => TypesRead(f, size)[1] = f.types[1]
<1> DEFINE types == f.types
           nt    == Len(f.trans)
           n     == size - 1 - 2 * nt
           m     == IF n < Len(types) THEN n ELSE Len(types)
<1>1. nt \in Nat /\ size \in Int /\ Records(f) = 2 + 2 * nt + Len(types)
  BY DEF WellFormed, Records
<1>2. types \in Seq(LocalTimeTypes) /\ Len(types) \in Nat
  BY DEF WellFormed
<1>3. TypesRead(f, size) = SubSeq(types, 1, m)
  BY Zenon DEF TypesRead
<1> HIDE DEF types, nt
<1>4. m \in Int /\ m <= Len(types)
  BY <1>1, <1>2
<1>5. \A i \in 1..m : types[i] \in LocalTimeTypes
  BY <1>2, <1>4
<1> HIDE DEF m
<1>6. /\ SubSeq(types, 1, m) \in Seq(LocalTimeTypes)
      /\ Len(SubSeq(types, 1, m)) = IF 1 <= m THEN m ELSE 0
      /\ \A i \in 1..m : SubSeq(types, 1, m)[i] = types[i]
  <2>1. /\ SubSeq(types, 1, m) \in Seq(LocalTimeTypes)
        /\ Len(SubSeq(types, 1, m)) = IF 1 <= m THEN m - 1 + 1 ELSE 0
        /\ \A i \in 1..(m - 1 + 1) : SubSeq(types, 1, m)[i] = types[1 + i - 1]
    BY <1>4, <1>5, SMT
  <2> QED
    BY <2>1, <1>4
<1>7. size >= Records(f) - 1
        => readTimeZoneFile(f, size) = readTimeZoneFile(f, Records(f))
  <2> SUFFICES ASSUME size >= Records(f) - 1
               PROVE  /\ TypesRead(f, size) = TypesRead(f, Records(f))
                      /\ transitionsRead(f, size) = transitionsRead(f, Records(f))
    BY Zenon DEF readTimeZoneFile
  <2>1. m = Len(types)
    BY <1>1, <1>2 DEF m
  <2>2. ~(Records(f) - 1 - 2 * nt < Len(types))
    BY <1>1, <1>2
  <2>3. TypesRead(f, Records(f)) = SubSeq(types, 1, Len(types))
    BY <2>2, Zenon DEF TypesRead, types, nt
  <2>4. ~(size < Records(f) - 1) /\ ~(Records(f) < Records(f) - 1)
    BY <1>1, <1>2
  <2> QED
    BY <2>1, <2>3, <2>4, <1>3, Zenon DEF transitionsRead
<1>8. size < Records(f) - 1 => readTimeZoneFile(f, size).transitions = <<>>
  BY Zenon DEF readTimeZoneFile, transitionsRead
<1>9. TypesRead(f, size) # <<>> => TypesRead(f, size)[1] = f.types[1]
  <2> SUFFICES ASSUME SubSeq(types, 1, m) # <<>>
               PROVE  SubSeq(types, 1, m)[1] = types[1]
    BY <1>3, Zenon DEF types
  <2>1. 1 <= m
    BY <1>4, <1>6, SMTT(60)
  <2> QED
    BY <2>1, <1>4, <1>6, SMTT(30)
<1> QED
  BY <1>3, <1>6, <1>7, <1>8, <1>9, Zenon

\* Tables whose transitions are in order and apart.
Searchable(tables) ==
  Tables(tables) /\ Increasing(tables, TRUE) /\ Spaced(tables)

\* The tables of a whole file can be searched.
LEMMA WholeSearchable ==
  ASSUME NEW f, WellFormed(f), Apart(f)
  PROVE  /\ Searchable(readTimeZoneFile(f, Records(f)))
         /\ readTimeZoneFile(f, Records(f)).localtimes = f.types
<1> DEFINE tables == readTimeZoneFile(f, Records(f))
           all    == [i \in DOMAIN f.trans |-> Transition(f, i)]
           nt     == Len(f.trans)
           ny     == Len(f.types)
           type(i) == f.types[IF i = 0 THEN 1 ELSE f.local[i]]
           Kept   == [gmttime : Int, localtime : Int, localtimeIdx : DOMAIN f.types]
<1>1. /\ f.types \in Seq(LocalTimeTypes) /\ f.types # <<>> /\ f.trans \in Seq(Int)
      /\ f.local \in Seq(DOMAIN f.types) /\ Len(f.local) = Len(f.trans)
      /\ \A i, j \in DOMAIN f.trans : i < j => f.trans[i] < f.trans[j]
  BY Zenon DEF WellFormed
<1>2. Records(f) = 2 + 2 * nt + ny
  BY Zenon DEF Records
<1>3. nt \in Nat /\ ny \in Nat
  BY <1>1
<1>4. ~(Records(f) < Records(f) - 1) /\ ~(Records(f) - 1 - 2 * nt < ny)
  <2> HIDE DEF nt, ny
  <2> QED
    BY <1>2, <1>3
<1>5. tables.transitions = all
  BY <1>4, Zenon DEF readTimeZoneFile, transitionsRead
<1>6. tables.localtimes = f.types
  <2>1. tables.localtimes = SubSeq(f.types, 1, ny)
    BY <1>4, Zenon DEF readTimeZoneFile, TypesRead
  <2> QED
    BY <2>1, <1>1
<1>7. DOMAIN f.trans = 1..nt
  BY <1>1
<1>8. \A i \in DOMAIN f.trans : Transition(f, i) \in Kept
  <2> SUFFICES ASSUME NEW i \in DOMAIN f.trans PROVE Transition(f, i) \in Kept
    BY Zenon
  <2>1. f.trans[i] \in Int
    BY <1>1
  <2>2. f.local[i] \in DOMAIN f.types
    BY <1>1, <1>3, <1>7, SMTT(60)
  <2>3. f.types[f.local[i]] \in LocalTimeTypes
    BY <2>2, <1>1
  <2>4. f.types[f.local[i]].gmtOffset \in Int
    BY <2>3, Zenon DEF LocalTimeTypes
  <2> QED
    BY <2>1, <2>2, <2>4 DEF Transition
<1>9. all \in Seq(Kept) /\ Len(all) = nt
  <2> HIDE DEF Kept
  <2> QED
    BY <1>3, <1>7, <1>8
<1>10. Tables(tables)
  <2> HIDE DEF all, tables
  <2> QED
    BY <1>1, <1>5, <1>6, <1>9, Zenon DEF Tables, Entries
<1>11. \A i \in 1..nt : /\ KeyAt(tables, TRUE, i) = f.trans[i]
                        /\ KeyAt(tables, FALSE, i) = f.trans[i] + f.types[f.local[i]].gmtOffset
                        /\ TypeAt(tables, i) = type(i)
  <2> SUFFICES ASSUME NEW i \in 1..nt
               PROVE  /\ KeyAt(tables, TRUE, i) = f.trans[i]
                      /\ KeyAt(tables, FALSE, i) = f.trans[i] + f.types[f.local[i]].gmtOffset
                      /\ TypeAt(tables, i) = type(i)
    BY Zenon
  <2>1. all[i] = Transition(f, i)
    BY <1>7, Zenon
  <2>2. /\ Transition(f, i).gmttime = f.trans[i]
        /\ Transition(f, i).localtime = f.trans[i] + f.types[f.local[i]].gmtOffset
        /\ Transition(f, i).localtimeIdx = f.local[i]
    BY Zenon DEF Transition
  <2>3. i # 0
    BY <1>3, SMT
  <2> HIDE DEF all, tables
  <2>4. tables.transitions[i] = Transition(f, i)
    BY <1>5, <2>1, Zenon
  <2> QED
    BY <1>6, <2>2, <2>3, <2>4, Zenon DEF KeyAt, Key, TypeAt
<1>12. TypeAt(tables, 0) = type(0)
  <2> HIDE DEF tables
  <2> QED
    BY <1>6, Zenon DEF TypeAt
<1>13. Len(tables.transitions) = nt
  BY <1>5, <1>9, Zenon
<1> HIDE DEF all, tables
<1>14. Increasing(tables, TRUE)
  <2>1. \A i, j \in 1..nt : i < j => KeyAt(tables, TRUE, i) < KeyAt(tables, TRUE, j)
    <3> SUFFICES ASSUME NEW i \in 1..nt, NEW j \in 1..nt, i < j
                 PROVE  KeyAt(tables, TRUE, i) < KeyAt(tables, TRUE, j)
      BY Zenon
    <3>1. f.trans[i] < f.trans[j]
      BY <1>1, <1>7, Zenon
    <3> QED
      BY <1>11, <3>1, Zenon
  <2> QED
    BY <1>13, <2>1, Zenon DEF Increasing
<1>15. \A i, j \in 1..nt : i < j =>
         \A a \in {type(i - 1).gmtOffset, type(i).gmtOffset},
            b \in {type(j - 1).gmtOffset, type(j).gmtOffset} : f.trans[i] + a < f.trans[j] + b
  BY <1>7, Zenon DEF Apart
<1>16. \A i \in 1..nt : i # 0 /\ (i - 1 = 0 \/ i - 1 \in 1..nt)
  BY <1>3, SMT
<1>17. \A i \in 1..nt : /\ Offset(tables, i) = type(i).gmtOffset
                        /\ Offset(tables, i - 1) = type(i - 1).gmtOffset
  <2> HIDE DEF type
  <2> QED
    BY <1>11, <1>12, <1>16, Zenon DEF Offset
<1>18. Spaced(tables)
  <2>1. ASSUME NEW i \in 1..nt
        PROVE  KeyAt(tables, FALSE, i) = KeyAt(tables, TRUE, i) + Offset(tables, i)
    <3>1. type(i) = f.types[f.local[i]]
      BY <1>16, Zenon
    <3> HIDE DEF type
    <3> QED
      BY <1>11, <1>17, <3>1, Zenon
  <2> HIDE DEF type
  <2>2. ASSUME NEW i \in 1..nt, NEW j \in 1..nt, i < j,
               NEW a \in {Offset(tables, i - 1), Offset(tables, i)},
               NEW b \in {Offset(tables, j - 1), Offset(tables, j)}
        PROVE  KeyAt(tables, TRUE, i) + a < KeyAt(tables, TRUE, j) + b
    <3>1. /\ a \in {type(i - 1).gmtOffset, type(i).gmtOffset}
          /\ b \in {type(j - 1).gmtOffset, type(j).gmtOffset}
      BY <1>17, Zenon
    <3>2. f.trans[i] + a < f.trans[j] + b
      BY <1>15, <2>2, <3>1, Zenon
    <3> QED
      BY <1>11, <3>2, Zenon
  <2> QED
    BY <1>13, <2>1, <2>2, Zenon DEF Spaced
<1> QED
  BY <1>6, <1>10, <1>14, <1>18, Zenon DEF Searchable, tables

\* Tables without a transition can be searched.
LEMMA FixedSearchable ==
  ASSUME NEW tables, tables.transitions = <<>>, tables.localtimes # <<>>,
         tables.localtimes \in Seq(LocalTimeTypes)
  PROVE  Searchable(tables)
<1>1. Len(tables.transitions) = 0 /\ 1..Len(tables.transitions) = {}
  BY SMT
<1>2. <<>> \in Seq(Entries(tables))
  BY SMT
<1> QED
  BY <1>1, <1>2, Zenon DEF Searchable, Tables, Increasing, Spaced

-----------------------------------------------------------------------------
\* A zone with any local time type can be searched, and has the first type of
\* its whole file; its tables are those of the whole file, or hold no transition.
LEMMA DataSearchable ==
  ASSUME Loaded, data.localtimes # <<>>
  PROVE  /\ Searchable(data)
         /\ data.localtimes[1] = whole.localtimes[1]
         /\ data = whole \/ data.transitions = <<>>
<1>1. ASSUME NEW f \in Files, NEW size \in 0..Records(f),
             data = readTimeZoneFile(f, size),
             whole = readTimeZoneFile(f, Records(f))
      PROVE  /\ Searchable(data)
             /\ data.localtimes[1] = whole.localtimes[1]
             /\ data = whole \/ data.transitions = <<>>
  <2>1. WellFormed(f) /\ Apart(f)
    BY ZoneAssumption, Zenon
  <2>2. data.localtimes = TypesRead(f, size)
    BY <1>1, Zenon DEF readTimeZoneFile
  <2>3. data.localtimes[1] = f.types[1] /\ data.localtimes \in Seq(LocalTimeTypes)
    BY <2>1, <2>2, ReadsAllOrNone, Zenon
  <2>4. Searchable(whole) /\ whole.localtimes = f.types
    BY <1>1, <2>1, WholeSearchable, Zenon
  <2>5. size \in Int /\ Records(f) \in Int
    BY <2>1 DEF WellFormed, Records
  <2>6. size < Records(f) - 1 \/ size >= Records(f) - 1
    BY <2>5
  <2>7. data = whole \/ data.transitions = <<>>
    BY <1>1, <2>1, <2>6, ReadsAllOrNone, Zenon
  <2>8. Searchable(data)
    BY <2>3, <2>4, <2>7, FixedSearchable, Zenon
  <2> QED
    BY <2>3, <2>4, <2>7, <2>8, Zenon
<1>2. ASSUME NEW o \in Offsets, data = fixedZone(o), whole = fixedZone(o)
      PROVE  /\ Searchable(data)
             /\ data.localtimes[1] = whole.localtimes[1]
             /\ data = whole \/ data.transitions = <<>>
  <2>1. o \in Int
    BY ZoneAssumption, Zenon
  <2>2. [gmtOffset |-> o, isDst |-> FALSE] \in LocalTimeTypes
    BY <2>1, SMT DEF LocalTimeTypes
  <2>3. <<[gmtOffset |-> o, isDst |-> FALSE]>> \in Seq(LocalTimeTypes)
    <3> HIDE DEF LocalTimeTypes
    <3> QED
      BY <2>2, SMT
  <2>4. data.localtimes \in Seq(LocalTimeTypes) /\ data.transitions = <<>>
    BY <1>2, <2>3, Zenon DEF fixedZone
  <2> QED
    BY <1>2, <2>4, FixedSearchable, Zenon
<1> QED
  BY <1>1, <1>2, Zenon DEF Loaded

\* With no transition between two times, the same local time type is found for
\* both, and its offset is a number.
LEMMA SameType ==
  ASSUME Loaded, data.localtimes # <<>>,
         NEW a \in Int, NEW b \in Int, a < b, Between(a, b) = {}
  PROVE  /\ findLocaltime(data, a, TRUE) = findLocaltime(data, b, TRUE)
         /\ findLocaltime(data, a, TRUE).gmtOffset \in Int
<1> DEFINE n == Len(data.transitions)
           key(i) == KeyAt(data, TRUE, i)
<1>1. Tables(data) /\ Increasing(data, TRUE)
  BY DataSearchable, Zenon DEF Searchable
<1>2. /\ n \in Nat /\ DOMAIN data.transitions = 1..n
      /\ \A i \in 1..n : key(i) \in Int
      /\ \A i \in 0..n : TypeAt(data, i) \in LocalTimeTypes
  BY <1>1, Typed, Zenon
<1>3. PICK i \in 0..n : InForce(data, TRUE, a, i) /\ findLocaltime(data, a, TRUE) = TypeAt(data, i)
  BY <1>1, FindsInForce, Zenon
<1>4. \A k \in 1..n : ~(a < key(k) /\ key(k) <= b)
  <2> SUFFICES ASSUME NEW k \in 1..n, a < key(k), key(k) <= b PROVE FALSE
    BY Zenon
  <2>1. key(k) \in (a + 1)..b
    <3> HIDE DEF key
    <3> QED
      BY <1>2, SMT
  <2>2. data.transitions[k].gmttime \in (a + 1)..b
    BY <2>1, Zenon DEF KeyAt, Key
  <2> QED
    BY <1>2, <2>2, Zenon DEF Between
<1>5. /\ i > 0 => key(i) <= a
      /\ i < n => a < key(i + 1)
  BY <1>3, Zenon DEF InForce
<1> HIDE DEF key, n
<1>6. /\ i > 0 => key(i) <= b
      /\ i < n => b < key(i + 1)
  <2>1. ASSUME i > 0 PROVE key(i) <= b
    <3>1. i \in 1..n
      BY <1>2, <2>1, SMT
    <3>2. key(i) \in Int /\ key(i) <= a
      BY <1>2, <1>5, <2>1, <3>1, Zenon
    <3> QED
      BY <3>2, SMT
  <2>2. ASSUME i < n PROVE b < key(i + 1)
    <3>1. i + 1 \in 1..n
      BY <1>2, <2>2, SMT
    <3>2. key(i + 1) \in Int /\ a < key(i + 1) /\ ~(a < key(i + 1) /\ key(i + 1) <= b)
      BY <1>2, <1>4, <1>5, <2>2, <3>1, Zenon
    <3> QED
      BY <3>2, SMT
  <2> QED
    BY <2>1, <2>2, Zenon
<1>7. InForce(data, TRUE, b, i)
  BY <1>6, Zenon DEF InForce, key, n
<1>8. findLocaltime(data, b, TRUE) = TypeAt(data, i)
  BY <1>1, <1>7, OneInForce, Zenon DEF n
<1> QED
  BY <1>2, <1>3, <1>8, Zenon DEF LocalTimeTypes

-----------------------------------------------------------------------------
\* ZoneInv is inductive: the tables never change, and local and back are what
\* toLocalTime() and fromLocalTime() make of the time converted last.
LEMMA ZoneInvHolds == ZoneSpec => []ZoneInv
<1>1. ZoneInit => ZoneInv
  BY DEF ZoneInit, ZoneInv, Loaded, ConvertedLast
<1>2. ZoneInv /\ [ZoneNext]_zoneVars => ZoneInv'
  <2> SUFFICES ASSUME ZoneInv, [ZoneNext]_zoneVars PROVE ZoneInv'
    BY Zenon
  <2>1. CASE UNCHANGED zoneVars
    BY <2>1, Zenon DEF ZoneInv, Loaded, ConvertedLast, zoneVars
  <2>2. ASSUME NEW t \in ZoneTimes, Convert(t) PROVE ZoneInv'
    <3>1. t \in Int
      BY ZoneAssumption, SMT
    <3>2. Loaded'
      BY <2>2, Zenon DEF ZoneInv, Loaded, Convert
    <3>3. ConvertedLast'
      BY <2>2, <3>1, Zenon DEF ConvertedLast, Convert
    <3> QED
      BY <3>2, <3>3, Zenon DEF ZoneInv
  <2> QED
    BY <2>1, <2>2, Zenon DEF ZoneNext
<1> QED
  BY <1>1, <1>2, PTL DEF ZoneSpec

\* readTimeZoneFile(): wherever a zone file ends, toLocalTime() gives the times
\* of the whole file or those of the fixed offset of its first type.
THEOREM CutFileIsWholeOrFixed == ZoneSpec => []WholeOrFixed
<1>1. ZoneInv => WholeOrFixed
  <2> SUFFICES ASSUME ZoneInv, used PROVE WholeOrFixed
    BY Zenon DEF WholeOrFixed
  <2>1. Loaded /\ data.localtimes # <<>> /\ local = toLocalTime(data, now)
    BY Zenon DEF ZoneInv, ConvertedLast
  <2>2. CASE data = whole
    BY <2>1, <2>2, Zenon DEF WholeOrFixed
  <2>3. CASE data.transitions = <<>>
    <3>1. Len(data.transitions) = 0
      BY <2>3
    <3>2. findLocaltime(data, now, TRUE) = data.localtimes[1]
      BY <3>1, Zenon DEF findLocaltime
    <3>3. local.tm_gmtoff = whole.localtimes[1].gmtOffset
      BY <2>1, <3>2, DataSearchable, ZenonT(60) DEF toLocalTime
    <3> QED
      BY <2>3, <3>3, Zenon DEF WholeOrFixed
  <2> QED
    BY <2>1, <2>2, <2>3, DataSearchable, Zenon
<1> QED
  BY <1>1, ZoneInvHolds, PTL

\* fromLocalTime() gives back the time that toLocalTime() converted, wherever the
\* zone's file ends, except where the clock is about to be set back: there it is
\* off by what the clock is set back, less an hour when summer time ends.
THEOREM LocalTimeInverse == ZoneSpec => []LocalRoundTrip
<1>1. ZoneInv => LocalRoundTrip
  <2> SUFFICES ASSUME ZoneInv, used PROVE LocalRoundTrip
    BY Zenon DEF LocalRoundTrip
  <2>1. /\ Loaded /\ data.localtimes # <<>> /\ now \in Int
        /\ local = toLocalTime(data, now) /\ back = fromLocalTime(data, toLocalTime(data, now))
    BY Zenon DEF ZoneInv, ConvertedLast
  <2>2. Tables(data) /\ Increasing(data, TRUE) /\ Spaced(data)
    BY <2>1, DataSearchable, Zenon DEF Searchable
  <2>3. \E hour \in Nat : OneHour(hour)
    BY SMT DEF OneHour
  <2>4. PICK hour \in Nat : OneHour(hour)
    BY <2>3, Zenon
  <2>5. Returned(data, now, local, hour, back)
    BY <2>1, <2>2, <2>4, ThereAndBack, Zenon
  <2>6. /\ DOMAIN data.transitions = 1..Len(data.transitions)
        /\ \A i \in 1..Len(data.transitions) :
             KeyAt(data, TRUE, i) = data.transitions[i].gmttime
             /\ KeyAt(data, FALSE, i) = data.transitions[i].localtime
    BY <2>2, Typed, Zenon DEF KeyAt, Key
  <2>7. \A i \in DOMAIN data.transitions : i \in ShownAgain <=> Again(data, now, local.tm, i)
    BY <2>6, Zenon DEF ShownAgain, Again
  <2>8. ASSUME ShownAgain = {} PROVE back = now
    BY <2>5, <2>6, <2>7, <2>8, ZenonT(60) DEF Returned
  <2>9. ASSUME NEW i \in ShownAgain
        PROVE  LET type == data.localtimes[data.transitions[i].localtimeIdx]
                   setBack == local.tm_gmtoff - type.gmtOffset
                   summerEnds == local.tm_isdst /\ ~type.isDst
               IN  back = now + setBack - (IF summerEnds THEN 3600 ELSE 0)
    <3>1. i \in DOMAIN data.transitions
      BY Zenon DEF ShownAgain
    <3>2. i # 0
      BY <2>6, <3>1, SMT
    <3>3. TypeAt(data, i) = data.localtimes[data.transitions[i].localtimeIdx]
      BY <3>2, Zenon DEF TypeAt
    <3>4. back = now + (local.tm_gmtoff - Offset(data, i))
                   - (IF local.tm_isdst /\ ~TypeAt(data, i).isDst THEN hour ELSE 0)
      BY <2>5, <2>6, <2>7, <3>1, Zenon DEF Returned
    <3> QED
      BY <2>4, <3>3, <3>4, SMT DEF OneHour, Offset
  <2> QED
    BY <2>8, <2>9, ZenonT(60) DEF LocalRoundTrip
<1> QED
  BY <1>1, ZoneInvHolds, PTL

\* toLocalTime(): between two transitions of the zone, the local clock advances
\* exactly as the UTC clock does.
THEOREM ClockSteady == ZoneSpec => ClockJumpsOnlyAtTransitions
<1> DEFINE Steady == used /\ Between(now, now') = {}
                       => local'.tm - local.tm = now' - now
<1>1. ZoneInv /\ ZoneInv' /\ [ZoneNext]_zoneVars => [Steady]_zoneVars
  <2> SUFFICES ASSUME ZoneInv, NEW t \in ZoneTimes, Convert(t), used,
                      Between(now, now') = {}
               PROVE  local'.tm - local.tm = now' - now
    BY Zenon DEF ZoneNext
  <2>1. /\ Loaded /\ data.localtimes # <<>> /\ now \in Int
        /\ local = toLocalTime(data, now)
    BY Zenon DEF ZoneInv, ConvertedLast
  <2>2. t \in Int
    BY ZoneAssumption, SMT
  <2>3. /\ t > now /\ now' = t
        /\ local' = toLocalTime(data, t) /\ Between(now, t) = {}
    BY Zenon DEF Convert
  <2>4. now < t
    BY <2>1, <2>2, <2>3, SMT
  <2>5. /\ findLocaltime(data, now, TRUE) = findLocaltime(data, t, TRUE)
        /\ findLocaltime(data, now, TRUE).gmtOffset \in Int
    BY <2>1, <2>2, <2>3, <2>4, SameType, Zenon
  <2> DEFINE offset == findLocaltime(data, now, TRUE).gmtOffset
  <2>6. offset \in Int /\ local.tm = now + offset /\ local'.tm = t + offset
    BY <2>1, <2>3, <2>5, Zenon DEF toLocalTime
  <2> HIDE DEF offset
  <2>7. (t + offset) - (now + offset) = t - now
    BY <2>1, <2>2, <2>6, SMT
  <2> QED
    BY <2>3, <2>6, <2>7, Zenon
<1> QED
  BY <1>1, ZoneInvHolds, PTL DEF ZoneSpec, ClockJumpsOnlyAtTransitions
=============================================================================
