-------------------------------- MODULE Calendar --------------------------------
(***************************************************************************)
(* TDateTime and TTime: dates and the number of microseconds they are      *)
(* turned into, in years that all have 365 days.  One step is one day of   *)
(* the calendar.                                                           *)
(***************************************************************************)
EXTENDS Naturals, Sequences, SequencesExt, FiniteSets

CONSTANTS
    FirstYears,     \* years whose first day it may begin with
    MaxDays,        \* bound: days from then on
    Units           \* what a day, an hour, a minute, a second and a millisecond have

VARIABLES
    year, month, day,   \* iYear, iMonth (from 0) and iDay
    clock,              \* iHour, iMinute, iSecond, iMilliSecond
    days                \* how many days there have been

vars == <<year, month, day, clock, days>>

DaysPerMonth == <<31, 28, 31, 30, 31, 30, 31, 31, 30, 31, 30, 31>>

IsLeapYear(y) == y % 4 = 0 /\ (y % 100 # 0 \/ y % 400 = 0)

DaysBefore(m) == FoldLeft(LAMBDA n, d : n + d, 0, SubSeq(DaysPerMonth, 1, m))

--------------------------------------------------------------------------------
(***************************************************************************)
(* Between TDateTime and TTime.                                            *)
(***************************************************************************)
TicksPerDay == FoldLeft(LAMBDA n, u : n * u, 1, Units)

\* TTime::Set().
Ticks(c) == FoldLeft(LAMBDA n, i : n * Units[i] + c[i], 0, [i \in DOMAIN Units |-> i])

Time(y, m, d, c) == (y * 365 + DaysBefore(m) + d - 1) * TicksPerDay + Ticks(c)

\* What a unit has below it.
Below(i) == FoldLeft(LAMBDA n, u : n * u, 1, SubSeq(Units, i + 1, Len(Units)))

\* TDateTime::TDateTime(TInt64).
DateTime(t) ==
    LET inYear == (t \div TicksPerDay) % 365
        m      == CHOOSE k \in 0 .. 11 : DaysBefore(k) <= inYear /\ inYear < DaysBefore(k + 1)
        ticks  == t % TicksPerDay
    IN [year |-> t \div (365 * TicksPerDay), month |-> m, day |-> inYear - DaysBefore(m) + 1,
        clock |-> [i \in DOMAIN Units |-> (ticks \div Below(i)) % Units[i]]]

\* 0 is Sunday.
DayOfWeek ==
    LET years == 365 * (year - 1) + Cardinality({y \in 1 .. year - 1 : IsLeapYear(y)})
        leap  == IF IsLeapYear(year) /\ month > 1 THEN 1 ELSE 0
    IN (years + DaysBefore(month) + leap + day) % 7

--------------------------------------------------------------------------------
DaysOf(y, m) == IF m = 1 /\ IsLeapYear(y) THEN 29 ELSE DaysPerMonth[m + 1]

Clocks == {[i \in DOMAIN Units |-> 0], [i \in DOMAIN Units |-> Units[i] - 1]}

Init ==
    /\ year \in FirstYears /\ month = 0 /\ day = 1
    /\ clock = [i \in DOMAIN Units |-> 0] /\ days = 0

\* The type invariant.
TypeOK ==
    /\ month \in 0 .. 11 /\ day \in 1 .. DaysOf(year, month)
    /\ clock \in Clocks /\ days \in 0 .. MaxDays

\* The time of day goes on, or a new day begins.
Evening ==
    /\ clock = [i \in DOMAIN Units |-> 0]
    /\ clock' = [i \in DOMAIN Units |-> Units[i] - 1]
    /\ UNCHANGED <<year, month, day, days>>

Midnight ==
    /\ clock # [i \in DOMAIN Units |-> 0] /\ days < MaxDays
    /\ clock' = [i \in DOMAIN Units |-> 0] /\ days' = days + 1
    /\ IF day < DaysOf(year, month) THEN day' = day + 1 /\ UNCHANGED <<year, month>>
       ELSE /\ day' = 1 /\ month' = (month + 1) % 12
            /\ year' = IF month = 11 THEN year + 1 ELSE year

Next == Evening \/ Midnight

Spec == Init /\ [][Next]_vars

--------------------------------------------------------------------------------
Now == Time(year, month, day, clock)

IsLeapDay == month = 1 /\ day = 29

\* Zeller's congruence, for which the year begins in March.
Zeller ==
    LET y == IF month < 2 THEN year - 1 ELSE year
        m == IF month < 2 THEN month + 13 ELSE month + 1
    IN (day + (13 * (m + 1)) \div 5 + y + y \div 4 - y \div 100 + y \div 400 + 6) % 7

\* A date that becomes a time and a date again is the same, but for 29 February; and
\* the day of the week is right over the ends of months, leap years and centuries.
DatesSurvive ==
    /\ ~IsLeapDay => DateTime(Now) = [year |-> year, month |-> month, day |-> day, clock |-> clock]
    /\ DayOfWeek = Zeller
================================================================================
