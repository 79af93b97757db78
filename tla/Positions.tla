------------------------------ MODULE Positions ------------------------------
(***************************************************************************)
(* The dates of core positions (pombola/core/models.py).  A position keeps *)
(* approximate dates, and strings derived from them in which the database  *)
(* sorts and compares; approximate_date_to_date turns the same dates into  *)
(* days.  Here a date is a record that compares like its string: 0 for a   *)
(* month or day that is not known, and years outside of Year for what is   *)
(* not a date.                                                             *)
(***************************************************************************)
EXTENDS Integers

CONSTANTS
    Year,           \* the years of known dates
    LastMonth,      \* 12, or fewer for a small calendar
    LastDay(_, _)   \* the last day of each month

Month == 1..LastMonth

ASSUME YearAssumption == \A y \in Year : y \in Nat /\ 2 <= y /\ y <= 9998
ASSUME MonthAssumption == LastMonth \in Nat /\ 1 <= LastMonth /\ LastMonth <= 12
ASSUME DayAssumption ==
    \A y \in Year, m \in Month :
        LastDay(y, m) \in Nat /\ 1 <= LastDay(y, m) /\ LastDay(y, m) <= 31

Date(y, m, d) == [y |-> y, m |-> m, d |-> d]

NoDate == Date(0, 0, 0)         \* None; as a sort string, 0000-00-00
Past   == Date(1, 0, 0)         \* past;  as a sort string, 0001-00-00
Future == Date(10000, 0, 0)     \* future
AFuture == Date(9999, 0, 0)     \* a-future, between the dates and future

RealDay(t) == t.d <= LastDay(t.y, t.m)

Day == {t \in [y : Year, m : Month, d : 1..31] : RealDay(t)}

(* What the field accepts: a day, a month, a year, or one of the words.    *)
Approximate ==
    {NoDate, Past, Future} \cup
    {t \in [y : Year, m : 0..LastMonth, d : 0..31] :
        /\ t.m = 0 => t.d = 0
        /\ t.m # 0 => RealDay(t)}

Before(s, t) ==
    \/ s.y < t.y
    \/ s.y = t.y /\ s.m < t.m
    \/ s.y = t.y /\ s.m = t.m /\ s.d < t.d

UpTo(s, t) == ~Before(t, s)

Later(s, t) == IF Before(s, t) THEN t ELSE s

-----------------------------------------------------------------------------
(* _set_sorting_dates, for a record with the fields start and end.         *)

SortingStart(p) == IF p.start = Future /\ p.end = NoDate THEN AFuture ELSE p.start

SortingEnd(p) ==
    IF p.end # NoDate THEN p.end
    ELSE IF p.start = Past THEN NoDate ELSE p.start

(* Mutant: an unknown month or day stays 00.                               *)
High_Low(t) == t

(* -00 becomes -99, to come after what is in that year or month.           *)
High(t) == Date(t.y, IF t.m = 0 THEN 99 ELSE t.m, IF t.d = 0 THEN 99 ELSE t.d)

(* start_date itself as a string: "past" sorts after "future".             *)
StartString(p) == IF p.start = Past THEN Date(10001, 0, 0) ELSE p.start

-----------------------------------------------------------------------------
(* PositionQuerySet.                                                       *)

EndsBefore(p, when) == Before(High(SortingEnd(p)), when) /\ p.end # NoDate

Active(p, when) ==
    /\ UpTo(SortingStart(p), when)
    /\ UpTo(when, High(SortingEnd(p))) \/ p.end = NoDate

Inactive(p, when) == Before(when, StartString(p)) \/ EndsBefore(p, when)

Previous(p, when) == EndsBefore(p, when)

Coming(p, when) == Before(when, SortingStart(p))

Overlapping(p, from, to) ==
    /\ p.start \in {NoDate, Past} \/ UpTo(SortingStart(p), to)
    /\ p.end \in {NoDate, Future} \/ UpTo(from, High(SortingEnd(p)))

(* Position.is_active_at_date: a position without an end counts up to its  *)
(* start only, as an empty date is None and not the '' it is compared with.*)
ActiveAt(p, when) ==
    /\ p.start # NoDate
    /\ UpTo(SortingStart(p), when)
    /\ UpTo(when, High(SortingEnd(p))) \/ p.end = Future

-----------------------------------------------------------------------------
(* approximate_date_to_date, for the start and for the end of a position.  *)

MinDay == Date(1, 1, 1)
MaxDay == Date(9999, 12, 31)

Earliest(t) ==
    IF t \in {NoDate, Past} THEN MinDay
    ELSE IF t = Future THEN MaxDay
    ELSE Date(t.y, IF t.m = 0 THEN 1 ELSE t.m, IF t.d = 0 THEN 1 ELSE t.d)

Latest(t) ==
    IF t = Past THEN MinDay
    ELSE IF t \in {NoDate, Future} THEN MaxDay
    ELSE IF t.m = 0 THEN Date(t.y, LastMonth, LastDay(t.y, LastMonth))
    ELSE IF t.d = 0 THEN Date(t.y, t.m, LastDay(t.y, t.m))
    ELSE t

(* Whether approximate_date_overlap is more than nothing.  The code takes  *)
(* the later of the two ends.                                              *)
HasOverlap(p, from, to) == Before(Later(Earliest(p.start), from), Later(Latest(p.end), to))

-----------------------------------------------------------------------------
(* The queries, which compare strings, mean what the same dates mean as    *)
(* days: a position is active from the earliest day it may have begun on   *)
(* to the latest it may have ended on, and the three other queries are its *)
(* complement, but that a start "past" is taken for one to come by         *)
(* currently_inactive, which therefore lists it beside currently_active.   *)
QueriesMeanDays(p) ==
    \A when \in Day :
        /\ Active(p, when) <=> UpTo(Earliest(p.start), when) /\ UpTo(when, Latest(p.end))
        /\ Previous(p, when) <=> Before(Latest(p.end), when)
        /\ Coming(p, when) <=> Before(when, Earliest(p.start))
        /\ Inactive(p, when) <=> ~Active(p, when) \/ p.start = Past
        /\ p.start # NoDate /\ p.end # NoDate => (ActiveAt(p, when) <=> Active(p, when))

(* A range overlaps a position if and only if a day of it may be one on    *)
(* which the position was held.                                            *)
OverlapsMeanDays(p) ==
    \A from, to \in Day :
        UpTo(from, to) =>
            (Overlapping(p, from, to) <=> UpTo(Earliest(p.start), to) /\ UpTo(from, Latest(p.end)))
=============================================================================
