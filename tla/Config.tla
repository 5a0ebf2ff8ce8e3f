------------------------------- MODULE Config --------------------------------
(***************************************************************************)
(* model/config.rs, utils/duration.rs and model/policy.rs: what a file has *)
(* to say to be accepted, and the policy that is made of it.               *)
(*                                                                         *)
(* A file is a record with the fields of BbkarConfigFile; None stands for  *)
(* a field that is left out.  A duration such as "4w" is split into number *)
(* and unit; the numbers below zero stand for what u32::parse refuses.     *)
(***************************************************************************)
EXTENDS Integers, Sequences

CONSTANTS
  None,       \* no value
  UMax        \* u32::MAX

ASSUME UMaxAssumption == UMax \in Nat /\ None \notin Int

NotANumber == -1
Star == -2

-----------------------------------------------------------------------------
(* Durations, schedules and days of the week.                              *)

UnitDays == [d |-> 1, w |-> 7, m |-> 30, y |-> 365]

(* count * multiplier is a u32 and wraps in a release build.               *)
ParseDuration(x) ==
  IF x.number \in 0 .. UMax /\ x.unit \in DOMAIN UnitDays
    THEN (x.number * UnitDays[x.unit]) % (UMax + 1)
    ELSE None

IsBucket(x) == x.number \in 0 .. UMax \cup {Star} /\ x.unit \in DOMAIN UnitDays
ParseSchedule(tokens) ==
  IF tokens # <<>> /\ \A i \in DOMAIN tokens : IsBucket(tokens[i]) THEN tokens ELSE None

Weekdays == {"monday", "tuesday", "wednesday", "thursday", "friday", "saturday", "sunday"}
ParseWeekday(x) == IF x \in Weekdays THEN x ELSE None

(* "all" is no duration: it ends in an l.                                  *)
AllText == [number |-> NotANumber, unit |-> "l"]

-----------------------------------------------------------------------------
(* The sections of the file about a source and about a sync: a filter is a *)
(* list of patterns, max_incremental_depth is a u32.                       *)
IsFilter(f) == f = None \/ f \subseteq Seq(STRING)
IsSourceSpec(s) == IsFilter(s.filter)
IsSyncSpec(s) ==
  /\ IsFilter(s.filter)
  /\ DOMAIN s = {"source", "dest", "filter", "min_full_send_interval",
                 "max_incremental_depth", "archive_preserve_min",
                 "archive_preserve", "preserve_day_of_week"}
  /\ s.max_incremental_depth \in Nat \cup {None}

(* The defaults serde fills in.                                            *)

Given(x, default) == IF x = None THEN default ELSE x

Everything == {<<"*">>}

FillGlobal(g) ==
  [compression |-> Given(g.compression, "zstd"),
   max_backup_chunk_size |-> Given(g.max_backup_chunk_size, 32),
   btrfs_send_concurrency |-> Given(g.btrfs_send_concurrency, 1),
   write_archive_concurrency |-> Given(g.write_archive_concurrency, 1)]

FillSync(s) ==
  [s EXCEPT !.filter = Given(@, Everything),
            !.min_full_send_interval = Given(@, [number |-> 1, unit |-> "w"]),
            !.archive_preserve_min = Given(@, AllText),
            !.preserve_day_of_week = Given(@, "sunday")]

Filled(c) ==
  [global |-> FillGlobal(c.global),
   source |-> [n \in DOMAIN c.source |-> [filter |-> Given(c.source[n].filter, Everything)]],
   dest |-> c.dest,
   sync |-> [n \in DOMAIN c.sync |-> FillSync(c.sync[n])]]

-----------------------------------------------------------------------------
(* BbkarConfigFile::from_toml; each rule adds an error when it is broken.  *)

GlobalInRange(g) ==
  /\ g.compression = "zstd"
  /\ g.max_backup_chunk_size \in 1 .. 2048
  /\ g.btrfs_send_concurrency = 1
  /\ g.write_archive_concurrency = 1

AtMostOne(names) == \A m, n \in names : m = n

(* A bucket must not be blank; only the local driver needs a path that     *)
(* starts with a slash.                                                    *)
DestUsable(d) == IF d.driver = "local" THEN d.absolute ELSE ~d.blank

RefersToExistingSource(c, s) == s.source \in DOMAIN c.source
RefersToExisting(c, s) == s.source \in DOMAIN c.source /\ s.dest \in DOMAIN c.dest

PolicyValid(s) ==
  /\ ParseDuration(s.min_full_send_interval) # None
  /\ s.max_incremental_depth = None \/ s.max_incremental_depth >= 1
  /\ s.archive_preserve_min = AllText \/ ParseDuration(s.archive_preserve_min) # None
  /\ s.archive_preserve = None \/ ParseSchedule(s.archive_preserve) # None
  /\ ParseWeekday(s.preserve_day_of_week) # None

Accepted(c) ==
  /\ GlobalInRange(c.global)
  /\ AtMostOne(DOMAIN c.source) /\ AtMostOne(DOMAIN c.dest) /\ AtMostOne(DOMAIN c.sync)
  /\ \A n \in DOMAIN c.dest : DestUsable(c.dest[n])
  /\ \A n \in DOMAIN c.sync : RefersToExisting(c, c.sync[n]) /\ PolicyValid(c.sync[n])

(* None when the file is refused.                                          *)
FromToml(c) == IF Accepted(Filled(c)) THEN Filled(c) ELSE None

-----------------------------------------------------------------------------
(* ResolvedSyncPolicy::from_sync_spec; the unwrap of the interval panics   *)
(* on None.                                                                *)
Resolve(s) ==
  [min_full_send_interval |-> ParseDuration(s.min_full_send_interval),
   max_incremental_depth |-> s.max_incremental_depth,
   archive_preserve_min |->
     IF s.archive_preserve_min = AllText THEN None ELSE ParseDuration(s.archive_preserve_min),
   archive_preserve |->
     IF s.archive_preserve = None THEN None ELSE ParseSchedule(s.archive_preserve),
   preserve_day_of_week |-> Given(ParseWeekday(s.preserve_day_of_week), "sunday")]

=============================================================================
