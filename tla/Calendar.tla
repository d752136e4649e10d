------------------------------ MODULE Calendar ------------------------------
(***************************************************************************)
(* The tracker's own calendar (utility.c).  The satellites give a date,    *)
(* the platform and the log want another form of it, and the seconds since *)
(* 1970 are what is stored: util_mktime, util_gmtime and util_localtime    *)
(* convert between them, each in its own way, and util_mtktime_to_gpstime  *)
(* gives the week and the second of the week a receiver is aided with.     *)
(*                                                                         *)
(* Time passes here from 1970 on, beside a calendar whose days are counted *)
(* one after the other; the conversions are compared with it on the way.   *)
(***************************************************************************)
EXTENDS Integers, Sequences, FiniteSets

CONSTANTS LastDay,      \* the last day looked at; 47481 is the last of 2099
          Stride        \* seconds between two looks, a day at most

VARIABLES now,          \* seconds since 1970
          date          \* the day, counted: year, month, day of the month

calendarVars == << now, date >>

Day == 86400

ASSUME CalendarAssumption ==
  /\ LastDay \in Nat /\ LastDay <= 47481
  /\ Stride \in Nat /\ 0 < Stride /\ Stride <= Day

---------------------------------------------------------------------------
(* The calendar that counts: every fourth year is a leap year from 1970 to *)
(* 2099, the year 2000 too.                                                *)
MonthEnd(d) ==
  CASE d.mon = 2              -> IF d.year % 4 = 0 THEN 29 ELSE 28
    [] d.mon \in {4, 6, 9, 11} -> 30
    [] OTHER                  -> 31

Tomorrow(d) ==
  CASE d.mday < MonthEnd(d) -> [d EXCEPT !.mday = d.mday + 1]
    [] d.mday = MonthEnd(d) /\ d.mon < 12
                            -> [year |-> d.year, mon |-> d.mon + 1, mday |-> 1]
    [] OTHER                -> [year |-> d.year + 1, mon |-> 1, mday |-> 1]

---------------------------------------------------------------------------
(* util_is_leap_year *)
Leap(y) == y % 400 = 0 \/ (y % 4 = 0 /\ y % 100 # 0)

(* days and util_mon_yday: the lengths of the months and the days before them. *)
MonthDays(leap) == << 31, IF leap THEN 29 ELSE 28, 31, 30, 31, 30,
                      31, 31, 30, 31, 30, 31 >>
MonthStart(leap) == IF leap THEN << 0, 31, 60, 91, 121, 152, 182, 213, 244, 274, 305, 335 >>
                            ELSE << 0, 31, 59, 90, 120, 151, 181, 212, 243, 273, 304, 334 >>

MonthOver(leap, month) == MonthStart(leap)[month] + MonthDays(leap)[month]

(* Mutant: the last day of a month is taken for the first of the next.     *)
InMonthEarly(day, leap) ==
  LET m == CHOOSE m \in 1 .. 12 : MonthStart(leap)[m] <= day /\ day < MonthOver(leap, m)
  IN  << m, day - MonthStart(leap)[m] >>

(* The month a day of the year falls in, and which day of the month it is: *)
(* the loops go on while a month is over before it.                        *)
InMonth(day, leap) ==
  LET m == CHOOSE m \in 1 .. 12 : MonthStart(leap)[m] < day /\ day <= MonthOver(leap, m)
  IN  << m, day - MonthStart(leap)[m] >>

(* The days of the years from one to before another, added year by year.   *)
YearDays(first, year) ==
  (year - first) * 365 + Cardinality({y \in first .. year - 1 : Leap(y)})

(* util_gmtime: years are subtracted from the days since 1970.             *)
InYear(days) ==
  LET y == CHOOSE y \in 1970 + (days \div 366) .. 1970 + (days \div 365) :
             YearDays(1970, y) <= days /\ days < YearDays(1970, y + 1)
  IN  << y, days - YearDays(1970, y) >>

GmTime(t) ==
  LET y == InYear(t \div Day)
      m == InMonth(y[2] + 1, Leap(y[1]))
  IN  [year |-> y[1], mon |-> m[1], mday |-> m[2]]

(* util_localtime: whole periods of four years of 1461 days, then years by *)
(* their hours, then the 29th of February apart and a table without it.    *)
YearHours(first, year) ==
  ((year - first) * 365 + Cardinality({y \in first .. year - 1 : y % 4 = 0})) * 24

InHours(hours, first) ==
  LET y == CHOOSE y \in first .. first + 3 :
             YearHours(first, y) <= hours /\ hours < YearHours(first, y + 1)
  IN  << y, hours - YearHours(first, y) >>

LocalDate(year, day) ==
  LET leap == year % 4 = 0
      m    == InMonth(IF leap /\ day > 60 THEN day - 1 ELSE day, FALSE)
  IN  IF leap /\ day = 60
        THEN [year |-> year, mon |-> 2, mday |-> 29]
        ELSE [year |-> year, mon |-> m[1], mday |-> m[2]]

LocalTime(t) ==
  LET hours == t \div 3600
      y     == InHours(hours % (1461 * 24), 1970 + 4 * (hours \div (1461 * 24)))
  IN  LocalDate(y[1], y[2] \div 24 + 1)

(* util_get_day: days before a year of the Gregorian calendar. *)
DaysBefore(year) ==
  LET y == year - 1 IN (y * 365) + (y \div 4) - (y \div 100) + (y \div 400)

(* util_mktime, util_items_mktime *)
MkTime(d, tod) ==
  LET days == DaysBefore(d.year) - DaysBefore(1970)
              + MonthStart(Leap(d.year))[d.mon] + d.mday - 1
  IN  days * Day + tod

(* util_mtktime_to_gpstime: the days since the sixth of January 1980.  The  *)
(* month loop runs from 1 while it is below month - 1 and adds the length   *)
(* of the month before it.                                                  *)
GpsDays(d) ==
  d.mday + YearDays(1980, d.year) - 6
    + IF d.mon >= 2 THEN MonthStart(Leap(d.year))[d.mon - 1] ELSE 0

GpsWeek(d)        == GpsDays(d) \div 7
GpsTimeOfWeek(d, tod, leapSeconds) ==
  (GpsDays(d) % 7) * Day + tod + leapSeconds

---------------------------------------------------------------------------
CalendarInit == now = 0 /\ date = [year |-> 1970, mon |-> 1, mday |-> 1]

CalendarNext ==
  /\ (now + Stride) \div Day <= LastDay
  /\ now' = now + Stride
  /\ date' = IF now' \div Day = now \div Day THEN date ELSE Tomorrow(date)

CalendarSpec == CalendarInit /\ [][CalendarNext]_calendarVars

---------------------------------------------------------------------------
CalendarTypeOK ==
  /\ now \in 0 .. (LastDay + 1) * Day - 1
  /\ date \in [year : 1970 .. 2099, mon : 1 .. 12, mday : 1 .. 31]

(* The three conversions agree with the calendar that counts its days, and *)
(* with one another: what is stored as seconds comes back as the same day  *)
(* (a position uploaded on a leap day, or from a year that ends a century, *)
(* keeps its date).                                                        *)
CalendarAgrees ==
  /\ GmTime(now) = date
  /\ LocalTime(now) = date
  /\ MkTime(date, now % Day) = now

(* utility.h:366-369: the week counted from the sixth of January 1980 and   *)
(* the second in it.                                                        *)
GpsTimeIsRight ==
  date.year >= 1981 =>
    /\ GpsWeek(date) = (now \div Day - 3657) \div 7
    /\ GpsTimeOfWeek(date, now % Day, 0)
         = ((now \div Day - 3657) % 7) * Day + (now % Day)
============================================================================
