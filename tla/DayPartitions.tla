---------------------------- MODULE DayPartitions ----------------------------
(***************************************************************************)
(* PartitionByDayOfMonth (segments.py): records are put into the partition *)
(* of the day of the month, 01 to 31, and is_expired tells from that       *)
(* number and today's date whether the partition has outlived ttl_days.    *)
(* The module follows one record through the calendar, day by day, beside  *)
(* what is_expired says of its partition.                                  *)
(***************************************************************************)
EXTENDS Integers

CONSTANTS Ttls,      \* values of ttl_days stations declare
          Years,     \* bound: the years of the calendar
          MaxAge     \* bound: days a record is followed

\* __post_init__ rejects a ttl below one day
ASSUME TtlAssumption == Ttls \subseteq Nat \ {0}
ASSUME CalendarAssumption == Years \subseteq Nat /\ MaxAge \in Nat

VARIABLES
    today,   \* the date, as datetime.now(utc).date()
    ttl,     \* ttl_days of the station
    day,     \* the partition of the record, 0 before it is written
    age,     \* the days since it was written
    months   \* ghost: the months since it was written, 2 for two and more

dayVars == <<today, ttl, day, age, months>>

Leap(y) == y % 4 = 0 /\ (y % 100 # 0 \/ y % 400 = 0)

MonthLength(y, m) ==
    CASE m = 2 -> IF Leap(y) THEN 29 ELSE 28
      [] m \in {4, 6, 9, 11} -> 30
      [] OTHER -> 31

\* the length of the month before d's
PreviousLength(d) ==
    IF d.m = 1 THEN MonthLength(d.y - 1, 12) ELSE MonthLength(d.y, d.m - 1)

DayAfter(d) ==
    IF d.d < MonthLength(d.y, d.m) THEN [d EXCEPT !.d = @ + 1]
    ELSE IF d.m < 12 THEN [y |-> d.y, m |-> d.m + 1, d |-> 1]
    ELSE [y |-> d.y + 1, m |-> 1, d |-> 1]

DatesOK ==
    /\ today \in [y : Years, m : 1..12, d : 1..31]
    /\ today.d <= MonthLength(today.y, today.m)
    /\ ttl \in Ttls
    /\ day \in 0..31
    /\ day = 0 <=> age = -1
    /\ age \in -1..MaxAge
    /\ months \in 0..2

DayInit ==
    /\ \E y \in Years : today = [y |-> y, m |-> 1, d |-> 1]
    /\ ttl \in Ttls
    /\ day = 0
    /\ age = -1
    /\ months = 0

-------------------------------------------------------------------------------

\* mutant: days counted from zero
PartitionFromZero(d) == d.d - 1

\* partition_for
PartitionFor(d) == d.d

\* mutant: a record is expired on its last day already
ExpiredOnTheDay(part) ==
    IF part <= today.d
    THEN today.d - part >= ttl
    ELSE part <= PreviousLength(today) /\ today.d + PreviousLength(today) - part >= ttl

\* mutant: a partition is kept for one day more
ExpiredADayLate(part) ==
    IF part <= today.d
    THEN today.d - part > ttl + 1
    ELSE part <= PreviousLength(today) /\ today.d + PreviousLength(today) - part > ttl + 1

\* is_expired: the age of the latest day of that number, in this month if it
\* has come already, else in the previous one if that has such a day
IsExpired(part) ==
    IF part <= today.d
    THEN today.d - part > ttl
    ELSE part <= PreviousLength(today) /\ today.d + PreviousLength(today) - part > ttl

\* the record is written
WriteRecord ==
    /\ day = 0
    /\ day' = PartitionFor(today)
    /\ age' = 0
    /\ months' = 0
    /\ UNCHANGED <<today, ttl>>

\* a day passes
Tomorrow ==
    /\ age < MaxAge
    /\ today' = DayAfter(today)
    /\ today'.y \in Years
    /\ age' = IF day = 0 THEN -1 ELSE age + 1
    /\ months' = IF day # 0 /\ today'.d = 1 /\ months < 2 THEN months + 1 ELSE months
    /\ UNCHANGED <<ttl, day>>

\* the calendar or the life of the record ends
CalendarEnds ==
    /\ age = MaxAge \/ DayAfter(today).y \notin Years
    /\ UNCHANGED dayVars

DayNext == WriteRecord \/ Tomorrow \/ CalendarEnds

DaySpec == DayInit /\ [][DayNext]_dayVars

-------------------------------------------------------------------------------
(* Properties *)

\* The partition of a record that is no older than ttl_days is not reported
\* expired, across months of any length and the turn of the year: a sweep by
\* is_expired never deletes what is to be kept.
FreshKept == day # 0 /\ age <= ttl => ~IsExpired(day)

\* A record older than ttl_days is reported, from the day it becomes so until
\* the 27th day of its age; from the 28th its number may be that of a new day.
\* A ttl of 26 days is therefore the longest that a daily sweep enforces.
StaleReported == day # 0 /\ ttl < age /\ age <= 27 => IsExpired(day)
===============================================================================
