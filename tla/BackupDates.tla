----------------------------- MODULE BackupDates -----------------------------
(***************************************************************************)
(* The age of chains in real days.  BackupRun compares snapshots by a      *)
(* given day count; here that count is the one of planner/mod.rs, computed *)
(* from the dates in the names, and recency is measured by the calendar.   *)
(***************************************************************************)
EXTENDS BackupRun, CalendarDays

CONSTANT DateOf    \* the date in a snapshot's name; None = there is none

Dated == {t \in Timestamps : DateOf[t] # None}

(* parse_date_to_days of every name.                                       *)
DayOf == [t \in Timestamps |-> IF t \in Dated THEN DayCount(DateOf[t]) ELSE None]

ASSUME DatesAssumption ==
  /\ \A t \in Dated : ValidDate(DateOf[t])
  /\ \A s, t \in Dated : s < t => NotAfter(DateOf[s], DateOf[t])
ASSUME DayOfAssumption == Day = DayOf

-----------------------------------------------------------------------------
(* btrbk names a snapshot by the time it takes it, so that names appear in *)
(* their order.  BackupRun does not assume it, and need not for any        *)
(* property but the ones about full sends: check_interval_exceeded         *)
(* compares with the newest full archive, and finds a snapshot that shows  *)
(* up late within the interval of a full that is newer than itself.        *)
InOrder == \A s, t \in Timestamps : s < t /\ snaps[t] # "future" => snaps[s] # "future"
OrderedSpec == Init /\ [][Next /\ InOrder']_vars

(* An incremental archive has a full archive before it that is younger, in *)
(* days of the calendar, than min_full_send_interval and the error of the  *)
(* day count together (planner/mod.rs:257, "sufficient for interval        *)
(* comparison").                                                           *)
ReallyRecent(m, t) ==
  \E f \in Fulls(m) \cap Dated :
    /\ f < t
    /\ Serial(DateOf[t]) - Serial(DateOf[f]) < Interval + Slack(DateOf[f], DateOf[t])
RealRecency ==
  MetaReadable =>
    \A t \in Archived(meta) : IsIncremental(meta, t) => t \in Dated /\ ReallyRecent(meta, t)

=============================================================================
