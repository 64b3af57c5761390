------------------------------ MODULE Calendar ------------------------------
(***************************************************************************)
(* The calendar arithmetic of srcs/timer: Date (Julian day numbers) and    *)
(* TimeZone::toUtcTime / fromUtcTime.  The formulas are checked against a  *)
(* calendar that is stepped one day at a time by the Gregorian rules, from *)
(* the first of January of every year in Years.                            *)
(***************************************************************************)
EXTENDS CppDivision

CONSTANTS Years,     \* bound: the years walked through
          Seconds    \* bound: the seconds of a day that are tried

VARIABLES ymd,      \* the day reached, by the rules of the calendar
          weekday,  \* ... and the day of the week, 0 for Sunday
          jdn       \* ... and julianDayNumber_ of the Date counted up with it

dateVars == <<ymd, weekday, jdn>>

-----------------------------------------------------------------------------
(* Date.  Every dividend is positive from 1900 to 2500.                    *)

\* mutant: the centuries are not left out
getJulianDayNumberMut(year, month, day) ==
  LET a == (14 - month) \div 12
      y == year + 4800 - a
      m == month + 12 * a - 3
  IN  day + (153 * m + 2) \div 5 + y * 365 + y \div 4 - 32083

getJulianDayNumber(year, month, day) ==
  LET a == (14 - month) \div 12
      y == year + 4800 - a
      m == month + 12 * a - 3
  IN  day + (153 * m + 2) \div 5 + y * 365
        + y \div 4 - y \div 100 + y \div 400 - 32045

getYearMonthDay(julianDayNumber) ==
  LET a == julianDayNumber + 32044
      b == (4 * a + 3) \div 146097
      c == a - ((b * 146097) \div 4)
      d == (4 * c + 3) \div 1461
      e == c - ((1461 * d) \div 4)
      m == (5 * e + 2) \div 153
  IN  [year  |-> b * 100 + d - 4800 + (m \div 10),
       month |-> m + 3 - 12 * (m \div 10),
       day   |-> e - ((153 * m + 2) \div 5) + 1]

kDaysPerWeek == 7

weekDay(julianDayNumber) == (julianDayNumber + 1) % kDaysPerWeek

kJulianDayOf1970_01_01 == getJulianDayNumber(1970, 1, 1)

-----------------------------------------------------------------------------
(* TimeZone::toUtcTime and fromUtcTime.                                    *)

kSecondsPerDay == 24 * 60 * 60

\* The years that date.h gives for a Date, in which no int overflows.
ASSUME DateAssumption ==
  /\ Years \subseteq 1900..2500
  /\ \A s \in Seconds : s \in Nat /\ s < kSecondsPerDay

fillHMS(seconds) == [tm_sec  |-> seconds % 60,
                     tm_min  |-> (seconds \div 60) % 60,
                     tm_hour |-> (seconds \div 60) \div 60]

\* mutant: a time before 1970 is not moved to the day before
DayAndSecondMut(secondsSinceEpoch) ==
  <<Quotient(secondsSinceEpoch, kSecondsPerDay),
    Remainder(secondsSinceEpoch, kSecondsPerDay)>>

\* The day since 1970 and the second in it: one day back if negative.
DayAndSecond(secondsSinceEpoch) ==
  LET seconds == Remainder(secondsSinceEpoch, kSecondsPerDay)
      days    == Quotient(secondsSinceEpoch, kSecondsPerDay)
  IN  IF seconds < 0 THEN <<days - 1, seconds + kSecondsPerDay>>
                     ELSE <<days, seconds>>

toUtcTime(secondsSinceEpoch, yday) ==
  LET split == DayAndSecond(secondsSinceEpoch)
      date  == split[1] + kJulianDayOf1970_01_01
      day   == getYearMonthDay(date)
  IN  [hms     |-> fillHMS(split[2]),
       tm_year |-> day.year - 1900, tm_mon |-> day.month - 1,
       tm_mday |-> day.day, tm_wday |-> weekDay(date),
       tm_yday |-> IF yday THEN date - getJulianDayNumber(day.year, 1, 1) ELSE 0]

fromUtcTime(utc) ==
  (getJulianDayNumber(utc.tm_year + 1900, utc.tm_mon + 1, utc.tm_mday)
     - kJulianDayOf1970_01_01) * kSecondsPerDay
    + utc.hms.tm_hour * 3600 + utc.hms.tm_min * 60 + utc.hms.tm_sec

-----------------------------------------------------------------------------
(* The reference: the days one after the other.                            *)

IsLeap(y) == (y % 4 = 0 /\ y % 100 # 0) \/ y % 400 = 0

DaysIn(y, m) == CASE m \in {4, 6, 9, 11} -> 30
                  [] m = 2 -> IF IsLeap(y) THEN 29 ELSE 28
                  [] OTHER -> 31

Tomorrow(d) ==
  CASE d.day < DaysIn(d.year, d.month) -> [d EXCEPT !.day = @ + 1]
    [] d.day = DaysIn(d.year, d.month) /\ d.month < 12 ->
         [d EXCEPT !.month = @ + 1, !.day = 1]
    [] OTHER -> [year |-> d.year + 1, month |-> 1, day |-> 1]

DateInit ==
  \E y \in Years :
    /\ ymd = [year |-> y, month |-> 1, day |-> 1]
    /\ jdn = getJulianDayNumber(y, 1, 1)
    /\ weekday = weekDay(jdn)

DateNext ==
  /\ ymd.year \in Years
  /\ ymd' = Tomorrow(ymd)
  /\ weekday' = (weekday + 1) % 7
  /\ jdn' = jdn + 1

DateSpec == DateInit /\ [][DateNext]_dateVars
-----------------------------------------------------------------------------
(* Properties.                                                             *)

\* A Date is the same day as a number and as year, month and day, and the
\* number of the next day is one more: across ends of months, leap days and
\* centuries in [1900..2500].
DateAgrees ==
  /\ getJulianDayNumber(ymd.year, ymd.month, ymd.day) = jdn
  /\ getYearMonthDay(jdn) = ymd
  /\ weekDay(jdn) = weekday

\* bound: the years whose seconds since 1970 fit in 32 bits.
Years32Bit == 1902..2037

\* utc is the time t, which is the second s of the day that has been reached.
RoundTrip(t, utc, s) ==
  /\ utc.tm_year + 1900 = ymd.year /\ utc.tm_mon + 1 = ymd.month
  /\ utc.tm_mday = ymd.day /\ utc.tm_wday = weekday /\ utc.hms = fillHMS(s)
  /\ utc.tm_yday \in 0..365
  /\ utc.tm_yday = 0 <=> ymd.month = 1 /\ ymd.day = 1
  /\ utc.tm_yday = 365 => IsLeap(ymd.year)
  /\ fromUtcTime(utc) = t

\* toUtcTime() gives the day, the weekday and the time of day, before 1970 as
\* after, and fromUtcTime() is its inverse, as timegm(3) is of gmtime(3).
UtcRoundTrip ==
  ymd.year \in Years32Bit =>
    \A s \in Seconds :
      LET t == (jdn - kJulianDayOf1970_01_01) * kSecondsPerDay + s
      IN  RoundTrip(t, toUtcTime(t, TRUE), s)
=============================================================================
