------------------------------ MODULE Periods ------------------------------
(***************************************************************************)
(* Days in periods: the keys that reports group dates by (bucketKey), the  *)
(* days a key stands for (bucketRange), relative periods and the one       *)
(* before (dates.ts), the keys that the database computes on its own       *)
(* (bucketExpr of report-engine.ts), and working time (addWorkingTime).    *)
(* A day is a number, 0 for Saturday 1 January 2000, and a month is the    *)
(* number of months since then; a range is [from, to).  The calendar walks *)
(* on day by day.                                                          *)
(***************************************************************************)
EXTENDS Integers, Sequences, FiniteSets

CONSTANTS
    FirstDays, LastDay,  \* bound: where the calendar begins, two years or more after day 0,
                         \* and ends
    FiscalStarts,        \* months a fiscal year may start in, 1 to 12
    Holidays,            \* days off, besides Sundays
    WalkDays             \* days that addWorkingTime looks at; 800 in the code

VARIABLES
    now,
    fyStartMonth         \* of the company

periodVars == <<now, fyStartMonth>>

Leap(y) == y % 4 = 0 /\ (y % 100 = 0 => y % 400 = 0)
YearOf(i) == 2000 + (i \div 12)
January(y) == (y - 2000) * 12

\* Date.UTC: the first day of a month, the months counted on over the ends of years.
LeapsBefore(y) == ((y - 1) \div 4) - ((y - 1) \div 100) + ((y - 1) \div 400)
NewYear(y) == 365 * (y - 2000) + LeapsBefore(y) - LeapsBefore(2000)
IntoYear == <<0, 31, 59, 90, 120, 151, 181, 212, 243, 273, 304, 334>>
Utc(i) ==
    NewYear(YearOf(i)) + IntoYear[(i % 12) + 1]
      + (IF Leap(YearOf(i)) /\ i % 12 >= 2 THEN 1 ELSE 0)

MonthOf(d) == CHOOSE i \in (d \div 31)..(d \div 28) : Utc(i) <= d /\ d < Utc(i + 1)
Weekday(d) == (d + 6) % 7

Buckets == {"day", "week", "month", "quarter", "year", "fiscal_year"}
DateRange(from, to) == [from |-> from, to |-> to]

PeriodsInit == now \in FirstDays /\ fyStartMonth \in FiscalStarts
NextDay == now < LastDay /\ now' = now + 1 /\ UNCHANGED fyStartMonth
PeriodsNext == NextDay
PeriodsSpec == PeriodsInit /\ [][PeriodsNext]_periodVars

-----------------------------------------------------------------------------
\* fiscalStart: the first month of the fiscal quarter or year of a month.
MonthsIntoYear(i) == ((i % 12) - (fyStartMonth - 1) + 12) % 12
FiscalStart(i, months) == i - (MonthsIntoYear(i) % months)

\* fiscalYearOf: the year the fiscal year starts in.
FiscalYearOf(i) == IF (i % 12) + 1 >= fyStartMonth THEN YearOf(i) ELSE YearOf(i) - 1

\* Mutant: the day itself and not the Thursday of its week decides the year.
WeekOfOwnYear(d) ==
    LET y == YearOf(MonthOf(d))
    IN <<y, ((d - Utc(January(y))) \div 7) + 1>>

\* bucketKey: the Thursday of a week decides its year.
WeekOf(d) ==
    LET thursday == d + 3 - ((Weekday(d) + 6) % 7)
        wy == YearOf(MonthOf(thursday))
    IN <<wy, ((thursday - Utc(January(wy))) \div 7) + 1>>

BucketKey(d, bucket) ==
    LET i == MonthOf(d) IN
    CASE bucket = "day" -> <<d>>
      [] bucket = "week" -> WeekOf(d)
      [] bucket = "month" -> <<YearOf(i), (i % 12) + 1>>
      [] bucket = "quarter" -> <<FiscalYearOf(i), (MonthsIntoYear(i) \div 3) + 1>>
      [] bucket = "year" -> <<YearOf(i)>>
      [] bucket = "fiscal_year" -> <<FiscalYearOf(i)>>

\* bucketRange
BucketRange(key, bucket) ==
    CASE bucket = "day" -> DateRange(key[1], key[1] + 1)
      [] bucket = "week" ->
           LET jan4 == Utc(January(key[1])) + 3
               from == jan4 - ((Weekday(jan4) + 6) % 7) + (key[2] - 1) * 7
           IN DateRange(from, from + 7)
      [] bucket = "month" ->
           LET i == January(key[1]) + key[2] - 1 IN DateRange(Utc(i), Utc(i + 1))
      [] bucket = "quarter" ->
           LET start == January(key[1]) + fyStartMonth - 1 + (key[2] - 1) * 3
           IN DateRange(Utc(start), Utc(start + 3))
      [] bucket = "year" -> DateRange(Utc(January(key[1])), Utc(January(key[1] + 1)))
      [] bucket = "fiscal_year" ->
           LET start == January(key[1]) + fyStartMonth - 1
           IN DateRange(Utc(start), Utc(start + 12))

\* bucketExpr: what the database makes of the same day. Its ISO weeks are its own ("%G-W%V"):
\* week one begins on the Monday next to 1 January, that is on or before it until
\* Thursday, and a year has the days from its week one to that of the next year.
WeekOne(y) ==
    LET first == Utc(January(y))
        sinceMonday == (Weekday(first) + 6) % 7
    IN IF sinceMonday <= 3 THEN first - sinceMonday ELSE first - sinceMonday + 7
DatabaseWeek(d) ==
    LET y == YearOf(MonthOf(d))
        wy == IF d >= WeekOne(y + 1) THEN y + 1 ELSE IF d < WeekOne(y) THEN y - 1 ELSE y
    IN <<wy, ((d - WeekOne(wy)) \div 7) + 1>>

DatabaseYear(i) ==
    LET month == (i % 12) + 1
    IN IF month >= fyStartMonth THEN YearOf(i) ELSE YearOf(i) - 1
DatabaseQuarter(i) ==
    LET month == (i % 12) + 1
    IN (((month - fyStartMonth + 12) % 12) \div 3) + 1

DatabaseKey(d, bucket) ==
    LET i == MonthOf(d)
    IN CASE bucket = "fiscal_year" -> <<DatabaseYear(i)>>
         [] bucket = "quarter" -> <<DatabaseYear(i), DatabaseQuarter(i)>>
         [] bucket = "year" -> <<YearOf(i)>>
         [] bucket = "month" -> <<YearOf(i), (i % 12) + 1>>
         [] bucket = "week" -> DatabaseWeek(d)
         [] bucket = "day" -> <<d>>

\* resolveRelative: the period of today and the one before it.
ThisPeriod(period) ==
    LET i == MonthOf(now)
        monday == now - ((Weekday(now) + 6) % 7)
        quarter == FiscalStart(i, 3)
        year == FiscalStart(i, 12)
    IN CASE period = "day" -> DateRange(now, now + 1)
         [] period = "week" -> DateRange(monday, monday + 7)
         [] period = "month" -> DateRange(Utc(i), Utc(i + 1))
         [] period = "quarter" -> DateRange(Utc(quarter), Utc(quarter + 3))
         [] period = "fiscal_year" -> DateRange(Utc(year), Utc(year + 12))

LastPeriod(period) ==
    LET i == MonthOf(now)
        monday == now - ((Weekday(now) + 6) % 7)
        quarter == FiscalStart(i, 3)
        year == FiscalStart(i, 12)
    IN CASE period = "day" -> DateRange(now - 1, now)
         [] period = "week" -> DateRange(monday - 7, monday)
         [] period = "month" -> DateRange(Utc(i - 1), Utc(i))
         [] period = "quarter" -> DateRange(Utc(quarter - 3), Utc(quarter))
         [] period = "fiscal_year" -> DateRange(Utc(year - 12), Utc(year))

\* previousRange: as many months when the range is of whole months, else as many days.
PreviousRange(r) ==
    LET from == MonthOf(r.from)
        to == MonthOf(r.to)
        aligned == Utc(from) = r.from /\ Utc(to) = r.to /\ to - from >= 1
    IN IF aligned THEN DateRange(Utc(from - (to - from)), r.from)
       ELSE DateRange(r.from - (r.to - r.from), r.from)

-----------------------------------------------------------------------------
\* addWorkingTime, in hours: from nine to six on days that are not free.  A moment is a
\* day and an hour, counted in hours.
Open == 9
Close == 18
WorkingDay(d) == Weekday(d) # 0 /\ d \notin Holidays

WorkingHour(t) == WorkingDay(t \div 24) /\ t % 24 >= Open /\ t % 24 < Close

\* What is left of the hours after so many days of the walk, and the moment it ends.
WorkOf(acc, d, start) ==
    LET from == IF d * 24 + Open > start THEN d * 24 + Open ELSE start
        room == d * 24 + Close - from
    IN IF acc.left = 0 \/ ~WorkingDay(d) \/ room <= 0 THEN acc
       ELSE IF room >= acc.left THEN [left |-> 0, at |-> from + acc.left]
       ELSE [left |-> acc.left - room, at |-> acc.at]

Walk(start, hours) ==
    LET walk[n \in 0..WalkDays] ==
            IF n = 0 THEN [left |-> hours, at |-> start]
            ELSE WorkOf(walk[n - 1], (start \div 24) + n - 1, start)
    IN walk

\* Without enough working days in sight, calendar hours.
AddWorkingTime(start, hours) ==
    LET end == Walk(start, hours)[WalkDays]
    IN IF end.left = 0 THEN end.at ELSE start + hours

-----------------------------------------------------------------------------
\* The keys split the days into ranges, bucketRange names the days of a key and no other
\* (drill-down shows what was counted), and the database computes the same keys.
KeysSplitTheDays ==
    \A b \in Buckets :
        LET key == BucketKey(now, b)
            r == BucketRange(key, b)
        IN /\ r.from <= now /\ now < r.to
           /\ BucketKey(r.from, b) = key /\ BucketKey(r.to - 1, b) = key
           /\ BucketKey(r.from - 1, b) # key
           /\ BucketKey(r.to, b) # key
           /\ DatabaseKey(now, b) = key

\* A relative period is the range of the key of today, the period before it ends where
\* it starts and is what previousRange makes of it.
PeriodsFollow ==
    \A b \in Buckets \ {"year"} :
        LET this == ThisPeriod(b) IN
        /\ this = BucketRange(BucketKey(now, b), b)
        /\ LastPeriod(b).to = this.from
        /\ LastPeriod(b) = BucketRange(BucketKey(this.from - 1, b), b)
        /\ PreviousRange(this) = LastPeriod(b)

\* The working hours between a start and what addWorkingTime returns are those asked for,
\* and the last of them ends there.  A walk that ends first finds too few.
WorkingHours(from, to) == {t \in from..(to - 1) : WorkingHour(t)}
Counts(start, hours) ==
    LET at == AddWorkingTime(start, hours) IN
    IF Walk(start, hours)[WalkDays].left = 0
    THEN Cardinality(WorkingHours(start, at)) = hours /\ WorkingHour(at - 1)
    ELSE Cardinality(WorkingHours(start, (start \div 24 + WalkDays) * 24)) < hours
WorkingTimeCounts ==
    \A hour \in {3, 9, 17, 20}, hours \in {1, 8, 9, 20} : Counts(now * 24 + hour, hours)

PeriodsFit == KeysSplitTheDays /\ PeriodsFollow /\ WorkingTimeCounts
=============================================================================
