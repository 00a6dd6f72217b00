--------------------------- MODULE CalendarProofs ---------------------------
(* The days of the week that both applications compute, against the          *)
(* Gregorian calendar, for every date their fields are meant to hold.        *)
EXTENDS Calendar, TLAPS

Days        == 1 .. 31
Months      == 1 .. 12
MonthFields == Months \cup {0}

\* The years of this century whose January counts to a year of it.
Years == 2001 .. 2099

\* Whole weeks do not change the day of the week.
LEMMA WholeWeeks ==
  ASSUME NEW n \in Int, NEW weeks \in Int
  PROVE  (n + 7 * weeks) % 7 = n % 7
OBVIOUS

\* The next day, and the seven days there are.
LEMMA NextDay ==
  ASSUME NEW n \in Int
  PROVE  ((n % 7) + 1) % 7 = (n + 1) % 7 /\ n % 7 \in 0 .. 6
OBVIOUS

\* The leap days up to a year, and up to the year before.
LeapDays(year) == year \div 4 - year \div 100 + year \div 400

\* A leap year adds its day.
LEMMA LeapDay ==
  ASSUME NEW year \in Nat \ {0}
  PROVE  /\ LeapDays(year) = LeapDays(year - 1) + (IF LeapYear(year) THEN 1 ELSE 0)
         /\ LeapDays(year - 1) \in Int
<1>1. year \div 4 = (year - 1) \div 4 + (IF year % 4 = 0 THEN 1 ELSE 0)
  OBVIOUS
<1>2. year \div 100 = (year - 1) \div 100 + (IF year % 100 = 0 THEN 1 ELSE 0)
  OBVIOUS
<1>3. year \div 400 = (year - 1) \div 400 + (IF year % 400 = 0 THEN 1 ELSE 0)
  OBVIOUS
<1>4. (year % 400 = 0 => year % 100 = 0) /\ (year % 100 = 0 => year % 4 = 0)
  OBVIOUS
<1>5. (year - 1) \div 4 \in Int /\ (year - 1) \div 100 \in Int /\ (year - 1) \div 400 \in Int
  OBVIOUS
<1> HIDE DEF LeapDays
<1> QED
  BY <1>1, <1>2, <1>3, <1>4, <1>5 DEF LeapYear, LeapDays

\* The offsets of the table are the days before the month, less whole weeks.
LEMMA Offsets ==
  ASSUME NEW month \in Months
  PROVE  /\ MonthOffset(month) \in Int /\ DaysBefore(month) \in Int
         /\ DaysBefore(month) = MonthOffset(month)
                                + 7 * ((DaysBefore(month) - MonthOffset(month)) \div 7)
                                + (IF month < 3 THEN 0 ELSE 1)
<1>1. month = 1 \/ month = 2 \/ month = 3 \/ month = 4 \/ month = 5 \/ month = 6 \/ month = 7
      \/ month = 8 \/ month = 9 \/ month = 10 \/ month = 11 \/ month = 12
  BY DEF Months
<1> QED
  BY <1>1 DEF MonthOffset, DaysBefore

\* The asset tracker's table gives the day of the week of every date of every
\* year of a uint16_t (sl_get_day_of_week, 0 for Sunday).
THEOREM TrackerDayIsRight ==
  ASSUME NEW year \in Nat \ {0}, NEW month \in Months, NEW day \in Days
  PROVE  sl_get_day_of_week(day, month, year) = (Weekday(day, month, year) + 1) % 7
<1> DEFINE before == DaysBefore(month)
           offset == MonthOffset(month)
           months == (before - offset) \div 7
           leap   == IF month > 2 /\ LeapYear(year) THEN 1 ELSE 0
           past   == LeapDays(year - 1)
           late   == IF month < 3 THEN 0 ELSE 1
           ours   == year + past + leap + late + offset + day - 1
<1>0. month \in Int /\ day \in Int
  BY DEF Months, Days
<1>1. /\ before \in Int /\ offset \in Int /\ months \in Int
      /\ before = offset + 7 * months + late
  BY Offsets
<1>2. past \in Int /\ LeapDays(year) = past + (IF LeapYear(year) THEN 1 ELSE 0)
  BY LeapDay
<1>3. DayCount(day, month, year) = 365 * (year - 1) + past + before + leap + day - 1
  BY DEF DayCount, LeapDays
<1>4. sl_get_day_of_week(day, month, year) = ours % 7
  BY <1>0, <1>1, <1>2 DEF sl_get_day_of_week, LeapDays
<1> HIDE DEF before, offset, months, leap, past, late
<1>5. DayCount(day, month, year) + 1 = ours + 7 * (52 * (year - 1) + months)
  BY <1>0, <1>1, <1>2, <1>3 DEF leap, late
<1>6. (DayCount(day, month, year) + 1) % 7 = ours % 7
  BY <1>0, <1>1, <1>2, <1>5, WholeWeeks DEF leap, late
<1> QED
  BY <1>0, <1>1, <1>2, <1>3, <1>4, <1>6, NextDay DEF Weekday, leap

-----------------------------------------------------------------------------
(* The weather display                                                       *)

MonthTerm(month) == (13 * (CountedMonth(month) + 1)) \div 5

\* Zeller counts January and February to the year before.
ZellerYear(month, year) == IF month < 3 THEN year - 2001 ELSE year - 2000

ZellerSum(day, month, year) ==
  day + MonthTerm(month) + ZellerYear(month, year) + ZellerYear(month, year) \div 4

\* Zeller's month term is the days before the month, less whole weeks.
LEMMA ZellerOffsets ==
  ASSUME NEW month \in Months
  PROVE  /\ MonthTerm(month) \in Int /\ DaysBefore(month) \in Int
         /\ DaysBefore(month) + 1 = MonthTerm(month)
                                    + 7 * ((DaysBefore(month) + 1 - MonthTerm(month)) \div 7)
                                    + (IF month < 3 THEN 0 ELSE 1)
<1>1. month = 1 \/ month = 2 \/ month = 3 \/ month = 4 \/ month = 5 \/ month = 6 \/ month = 7
      \/ month = 8 \/ month = 9 \/ month = 10 \/ month = 11 \/ month = 12
  BY DEF Months
<1> QED
  BY <1>1 DEF MonthTerm, CountedMonth, DaysBefore

\* In this century every fourth year is a leap year.
LEMMA ThisCentury ==
  ASSUME NEW n \in 0 .. 99
  PROVE  LeapDays(2000 + n) = 485 + n \div 4 /\ n \div 4 \in Int
BY DEF LeapDays

\* Both terms are integers.
LEMMA ZellerTypes ==
  ASSUME NEW year \in Years, NEW month \in MonthFields
  PROVE  /\ MonthTerm(month) \in Int /\ ZellerYear(month, year) \in Int
         /\ ZellerYear(month, year) \div 4 \in Int
<1>1. MonthTerm(month) \in Int
  BY DEF MonthTerm, CountedMonth, MonthFields, Months
<1>2. ZellerYear(month, year) \in Int
  BY DEF ZellerYear, Years
<1>3. ZellerYear(month, year) \div 4 \in Int
  BY <1>2
<1> QED
  BY <1>1, <1>2, <1>3

\* So is their sum with the day.
LEMMA ZellerSumType ==
  ASSUME NEW year \in Years, NEW day \in Days, NEW month \in MonthFields
  PROVE  ZellerSum(day, month, year) \in Int
BY ZellerTypes DEF ZellerSum, Days

\* Without a century, Zeller's congruence is the sum of its other terms.
LEMMA ZellerOfSum ==
  ASSUME NEW day \in Int, NEW month \in Int, NEW y \in Int
  PROVE  Zeller(day, month, y, 0) = (day + (13 * (month + 1)) \div 5 + y + y \div 4) % 7
<1>1. 0 \div 4 = 0 /\ 5 * 0 = 0 /\ y \div 4 \in Int /\ (13 * (month + 1)) \div 5 \in Int
  OBVIOUS
<1>2. day + (13 * (month + 1)) \div 5 + y + y \div 4 + 0 \div 4 + 5 * 0
      = day + (13 * (month + 1)) \div 5 + y + y \div 4
  BY <1>1
<1> QED
  BY <1>2 DEF Zeller

\* What calculateDayOfWeek computes from the fields of the calendar.
LEMMA ZellerOf ==
  ASSUME NEW year \in Years, NEW day \in Days, NEW month \in MonthFields
  PROVE  calculateDayOfWeek(day, month, YearField(year), CenturyField(year))
         = (((ZellerSum(day, month, year) % 7) + 5) % 7) + 1
<1>1. YearField(year) = year - 2000 /\ CenturyField(year) = 1
  BY DEF YearField, CenturyField, Uint8, Years
<1>2. CountedYear(month, YearField(year)) = ZellerYear(month, year)
  BY <1>1 DEF CountedYear, ZellerYear, Uint8, Years
<1>3. Uint8(CenturyField(year) - 1) = 0
  BY <1>1 DEF Uint8
<1>4. CountedMonth(month) \in Int /\ ZellerYear(month, year) \in Int /\ day \in Int
  BY ZellerTypes DEF CountedMonth, MonthFields, Months, Days
<1>5. Zeller(day, CountedMonth(month), ZellerYear(month, year), 0)
      = ZellerSum(day, month, year) % 7
  BY <1>4, ZellerOfSum, Zenon DEF ZellerSum, MonthTerm
<1> QED
  BY <1>2, <1>3, <1>5, Zenon DEF calculateDayOfWeek

\* From Zeller's days, which start on Saturday, to the calendar's.
LEMMA FiveDays ==
  ASSUME NEW n \in Int
  PROVE  ((n % 7) + 5) % 7 = (n + 5) % 7
OBVIOUS

\* The days since the start of the calendar, as Zeller's formula counts them.
LEMMA ZellerCount ==
  ASSUME NEW year \in Years, NEW day \in Days, NEW month \in Months
  PROVE  Weekday(day, month, year) = (ZellerSum(day, month, year) + 5) % 7
<1> DEFINE y == ZellerYear(month, year)
           before == DaysBefore(month)
           zeller == MonthTerm(month)
           months == (before + 1 - zeller) \div 7
           leap   == IF month > 2 /\ LeapYear(year) THEN 1 ELSE 0
           late   == IF month < 3 THEN 0 ELSE 1
           quarter == y \div 4
<1>0. year \in Nat \ {0} /\ month \in Int /\ day \in Int
  BY DEF Years, Months, Days
<1>1. /\ before \in Int /\ zeller \in Int /\ months \in Int
      /\ before + 1 = zeller + 7 * months + late
  BY ZellerOffsets
<1>2. /\ LeapDays(year) = LeapDays(year - 1) + (IF LeapYear(year) THEN 1 ELSE 0)
      /\ LeapDays(year - 1) \in Int
  BY <1>0, LeapDay
<1>3. LeapDays(year - 1) + leap = 485 + quarter /\ quarter \in Int
  <2>1. CASE month < 3
    <3>1. year - 2001 \in 0 .. 99 /\ 2000 + (year - 2001) = year - 1
      BY DEF Years
    <3>2. LeapDays(year - 1) = 485 + (year - 2001) \div 4 /\ (year - 2001) \div 4 \in Int
      BY <3>1, ThisCentury
    <3> QED
      BY <1>0, <2>1, <3>2 DEF ZellerYear
  <2>2. CASE ~(month < 3)
    <3>1. year - 2000 \in 0 .. 99 /\ 2000 + (year - 2000) = year
      BY DEF Years
    <3>2. LeapDays(year) = 485 + (year - 2000) \div 4 /\ (year - 2000) \div 4 \in Int
      BY <3>1, ThisCentury
    <3> QED
      BY <1>0, <1>2, <2>2, <3>2 DEF ZellerYear
  <2> QED
    BY <2>1, <2>2
<1>4. DayCount(day, month, year) =
        365 * (year - 1) + LeapDays(year - 1) + before + leap + day - 1
  BY <1>0, <1>1 DEF DayCount, LeapDays
<1>5. y = year - 2001 + late /\ y \in Int /\ late \in Int /\ leap \in Int
  BY <1>0 DEF ZellerYear
<1>6. ZellerSum(day, month, year) = day + zeller + y + quarter
  BY Zenon DEF ZellerSum
<1> HIDE DEF before, zeller, months, leap, late, quarter, y
<1>7. DayCount(day, month, year) =
        (ZellerSum(day, month, year) + 5) + 7 * (52 * (year - 1) + 354 + months)
  BY <1>0, <1>1, <1>2, <1>3, <1>4, <1>5, <1>6
<1>8. ZellerSum(day, month, year) + 5 \in Int /\ 52 * (year - 1) + 354 + months \in Int
  BY <1>0, <1>1, <1>3, <1>5, <1>6
<1>9. ((ZellerSum(day, month, year) + 5) + 7 * (52 * (year - 1) + 354 + months)) % 7
      = (ZellerSum(day, month, year) + 5) % 7
  BY <1>8, WholeWeeks
<1> QED
  BY <1>7, <1>9 DEF Weekday

\* Outside August the weather display shows the right day of the week for every
\* date of the years 2001 to 2099 (calculateDayOfWeek, 1 for Monday).
THEOREM WeatherDayIsRight ==
  ASSUME NEW year \in Years, NEW month \in Months, NEW day \in Days, month # 8
  PROVE  WeatherDayOfWeek(day, month, year) = Weekday(day, month, year) + 1
<1>1. convertMonthToEnum(month) = month /\ month \in MonthFields
  BY DEF convertMonthToEnum, MonthFields
<1>2. WeatherDayOfWeek(day, month, year) = (((ZellerSum(day, month, year) % 7) + 5) % 7) + 1
  BY <1>1, ZellerOf, Zenon DEF WeatherDayOfWeek
<1>3. Weekday(day, month, year) = (ZellerSum(day, month, year) + 5) % 7
  BY ZellerCount
<1>4. ZellerSum(day, month, year) \in Int
  BY <1>1, ZellerSumType
<1>5. ((ZellerSum(day, month, year) % 7) + 5) % 7 = (ZellerSum(day, month, year) + 5) % 7
  BY <1>4, FiveDays
<1> QED
  BY <1>2, <1>3, <1>5, Zenon

\* In August it shows a wrong one on every day of all these years: the month
\* that convertMonthToEnum does not know is counted as the December before.
THEOREM AugustDayIsWrong ==
  ASSUME NEW year \in Years, NEW day \in Days
  PROVE  WeatherDayOfWeek(day, 8, year) # Weekday(day, 8, year) + 1
<1> DEFINE quarter == (year - 2001) \div 4
           right == ZellerSum(day, 8, year)
           wrong == ZellerSum(day, 0, year)
<1>1. /\ convertMonthToEnum(8) = 0
      /\ 0 \in MonthFields /\ 8 \in MonthFields /\ 8 \in Months
  BY DEF convertMonthToEnum, MonthFields, Months
<1>2. WeatherDayOfWeek(day, 8, year) = (((wrong % 7) + 5) % 7) + 1
  BY <1>1, ZellerOf, Zenon DEF WeatherDayOfWeek
<1>3. Weekday(day, 8, year) = (right + 5) % 7
  BY <1>1, ZellerCount
<1>4. quarter \in Int /\ ((year - 2000) \div 4 = quarter \/ (year - 2000) \div 4 = quarter + 1)
  BY DEF Years
<1>5. MonthTerm(0) = 33 /\ MonthTerm(8) = 23
  BY DEF MonthTerm, CountedMonth
<1>6. ZellerYear(0, year) = year - 2001 /\ ZellerYear(8, year) = year - 2000
  BY DEF ZellerYear
<1>7. wrong = right + 9 \/ wrong = right + 8
  <2>1. wrong = day + 33 + (year - 2001) + quarter
    BY <1>5, <1>6 DEF ZellerSum
  <2>2. right = day + 23 + (year - 2000) + (year - 2000) \div 4
    BY <1>5, <1>6 DEF ZellerSum
  <2>3. day \in Int /\ year \in Int
    BY DEF Days, Years
  <2> HIDE DEF right, wrong, quarter
  <2> QED
    BY <1>4, <2>1, <2>2, <2>3
<1>8. wrong \in Int /\ right \in Int
  BY <1>1, ZellerSumType
<1> HIDE DEF right, wrong
<1>9. WeatherDayOfWeek(day, 8, year) = ((wrong + 5) % 7) + 1
  BY <1>2, <1>8, FiveDays
<1> QED
  BY <1>3, <1>7, <1>8, <1>9

=============================================================================
