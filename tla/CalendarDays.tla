---------------------------- MODULE CalendarDays -----------------------------
(***************************************************************************)
(* The dates in snapshot names, and the day count planner/mod.rs compares  *)
(* them by: months of 30 days, years of 365.  Beside it stands the         *)
(* Gregorian calendar, as the measure of what that approximation costs.    *)
(***************************************************************************)
EXTENDS Integers

Date == [y : Nat \ {0}, m : 1 .. 12, d : 1 .. 31]

-----------------------------------------------------------------------------
(* parse_date_to_days, for a name that starts with YYYYMMDD.               *)

(* The month read as another part of the year than it is.                  *)
DayCountMonthless(a) == a.y * 365 + a.d
DayCount(a) == a.y * 365 + a.m * 30 + a.d

-----------------------------------------------------------------------------
(* The calendar.                                                           *)

IsLeap(y) == y % 4 = 0 /\ (y % 100 = 0 => y % 400 = 0)

MonthLength(y, m) ==
  CASE m = 2 -> IF IsLeap(y) THEN 29 ELSE 28
    [] m \in {4, 6, 9, 11} -> 30
    [] OTHER -> 31

ValidDate(a) == a \in Date /\ a.d <= MonthLength(a.y, a.m)

(* The order of YYYYMMDD strings.                                          *)
NotAfter(a, b) ==
  \/ a.y < b.y
  \/ a.y = b.y /\ a.m < b.m
  \/ a.y = b.y /\ a.m = b.m /\ a.d <= b.d

(* The days of the year before a month, without the leap day.              *)
BeforeMonth(m) == <<0, 31, 59, 90, 120, 151, 181, 212, 243, 273, 304, 334>>[m]

LeapDaysBefore(y) == (y - 1) \div 4 - (y - 1) \div 100 + (y - 1) \div 400

(* The number of the day, counted from 1 January of the year 1.            *)
Serial(a) ==
  365 * (a.y - 1) + LeapDaysBefore(a.y)
    + BeforeMonth(a.m) + (IF a.m > 2 /\ IsLeap(a.y) THEN 1 ELSE 0) + a.d

(* The most by which the true distance of two dates exceeds the counted    *)
(* one: five days, and the leap days of their years.                       *)
Slack(a, b) == 5 + LeapDaysBefore(b.y + 1) - LeapDaysBefore(a.y)

=============================================================================
