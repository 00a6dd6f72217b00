------------------------------ MODULE Calendar ------------------------------
(* The day of the week as both applications compute it: Zeller's congruence  *)
(* over the fields of the calendar in the weather display (sl_wd_ntp.c), and *)
(* a table of month offsets in the asset tracker (wifi_handler.c); and the   *)
(* weather display's local time.  Fields are uint8_t, the tracker's year     *)
(* uint16_t; arithmetic is done as int.                                      *)
EXTENDS Integers

Uint8(n) == n % 256

\* convertMonthToEnum compares August with "Aud": it has no case and gives 0.
convertMonthToEnum(month) == IF month = 8 THEN 0 ELSE month

\* parse_datetime: the fields of the calendar's year 2000 to 2099 have century 1.
CenturyField(year) == Uint8(year \div 100 + 1) - 20
YearField(year)    == Uint8(year % 100)

\* January and February count to the year before, as its months 13 and 14.
CountedMonth(month)      == IF month < 3 THEN month + 12 ELSE month
CountedYear(month, year) == IF month < 3 THEN Uint8(year - 1) ELSE year

Zeller(day, month, year, century) ==
  (day + (13 * (month + 1)) \div 5 + year + year \div 4 + century \div 4 + 5 * century) % 7

\* 1 is Monday, 7 Sunday; in Zeller's congruence 0 is Saturday.
calculateDayOfWeek(day, month, year, century) ==
  LET dayOfWeek == Zeller(day, CountedMonth(month), CountedYear(month, year),
                          Uint8(century - 1))
  IN ((dayOfWeek + 5) % 7) + 1

WeatherDayOfWeek(day, month, year) ==
  calculateDayOfWeek(day, convertMonthToEnum(month), YearField(year), CenturyField(year))

\* parse_datetime: the offsets are bytes too, so that a zone west of Greenwich
\* wraps around.  What is beyond the day becomes the hour 1, the day stays.
LocalHour(hour, minute, hours, min) ==
  LET shifted == Uint8(hour + hours)
      kept    == IF shifted > 24 THEN 1 ELSE shifted
  IN IF Uint8(minute + min) > 60 THEN kept + 1 ELSE kept

LocalMinute(minute, min) ==
  LET shifted == Uint8(minute + min)
  IN IF shifted > 60 THEN shifted - 60 ELSE shifted

\* The table t of sl_get_day_of_week.
MonthOffset(month) ==
  CASE month \in {1, 5} -> 0 [] month = 8        -> 1 [] month \in {3, 11} -> 2
    [] month = 2        -> 3 [] month \in {9, 12} -> 4 [] month \in {4, 7} -> 5
    [] month = 6        -> 3 [] month = 10       -> 6

\* 0 is Sunday, 6 Saturday.
sl_get_day_of_week(day, month, year) ==
  LET y == IF month < 3 THEN year - 1 ELSE year
  IN (y + y \div 4 - y \div 100 + y \div 400 + MonthOffset(month) + day) % 7

-----------------------------------------------------------------------------
(* The Gregorian calendar                                                    *)

LeapYear(year) == year % 4 = 0 /\ (year % 100 # 0 \/ year % 400 = 0)

\* Days before the first of the month in a year that is not a leap year.
DaysBefore(month) ==
  CASE month = 1 -> 0   [] month = 2  -> 31  [] month = 3  -> 59  [] month = 4  -> 90
    [] month = 5 -> 120 [] month = 6  -> 151 [] month = 7  -> 181 [] month = 8  -> 212
    [] month = 9 -> 243 [] month = 10 -> 273 [] month = 11 -> 304 [] month = 12 -> 334

\* Days since Monday, the first of January of the year 1.
DayCount(day, month, year) ==
  LET y == year - 1
  IN 365 * y + y \div 4 - y \div 100 + y \div 400 + DaysBefore(month)
     + (IF month > 2 /\ LeapYear(year) THEN 1 ELSE 0) + day - 1

\* The day of the week, 0 for Monday.
Weekday(day, month, year) == DayCount(day, month, year) % 7

=============================================================================
