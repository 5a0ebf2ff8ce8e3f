---------------------------- MODULE MCBackupDates ----------------------------
(***************************************************************************)
(* An instance of BackupDates for TLC.                                     *)
(***************************************************************************)
EXTENDS BackupDates, TLC

In2024(m, d) == [y |-> 2024, m |-> m, d |-> d]

(* 1 July and 1 September are 62 days apart and counted as 60.  The last   *)
(* snapshot has a name without a date.                                     *)
Dates == [t \in Timestamps |->
  IF t \in 1 .. 4
    THEN <<In2024(7, 1), In2024(8, 1), In2024(9, 1), In2024(10, 20)>>[t]
    ELSE None]
CountedDays == DayOf

Alike == Permutations(Runs)

=============================================================================
