----------------------------- MODULE SyncDriver ------------------------------
(***************************************************************************)
(* The commands that go over all volumes of a configuration: run, dryrun,  *)
(* status and ls (cli/mod.rs, cli/*.rs), one process at a time, with the   *)
(* configuration they load, the volumes they find and select, what they    *)
(* print, and the sudo session of the processes they spawn.  What a single *)
(* transfer does step by step is in BackupRun and SendStream; here it is   *)
(* one step, that happens or fails.                                        *)
(*                                                                         *)
(* A setting is what does not change: the configuration file, the options  *)
(* of the command line, the user, the snapshots there are and those that   *)
(* are to come, the volumes whose metadata cannot be read, and the entries *)
(* of the directory given to ls --restore-root.  A directory entry is      *)
(* VOLUME.SUFFIX, cut at its last dot; the suffix is a number, for its     *)
(* place in the order of suffixes and for its day, or None when it is no   *)
(* timestamp.  A name without a dot plays no part in anything.             *)
(*                                                                         *)
(* As in BackupRun, a definition that carries the name of the one after it *)
(* with a suffix is a mistake that a property must notice.                 *)
(***************************************************************************)
EXTENDS Config, Wildcard, FiniteSets, FiniteSetsExt, SequencesExt

CONSTANTS
  Snaps,              \* the suffixes
  Settings,
  Size,               \* bytes of a stream, by snapshot and parent
  MaxFails,           \* bound: how many commands are aborted or killed
  RefreshInterval

VARIABLES
  setting,        \* never changes
  dir,            \* the entries of the source directory
  archives,       \* per volume: what its metadata lists
  pc,             \* what the process does next
  cmd,            \* its command
  config,         \* what load_config returned
  todo_syncs,     \* syncs the loop has not come to
  sync,           \* sync_name
  source_cache,   \* per source: what inspect_source listed
  todo,           \* volumes the loop has not come to
  volume,         \* the volume being worked on
  steps,          \* RunPlan.steps not yet executed
  sent_stats,     \* sync_sent_stats, sync_would_send_stats
  remote_stats,   \* sync_remote_stats
  report,         \* the lines printed so far
  told,           \* the report of an earlier ls or dryrun, if still current
  fails,
  user, session, elapsed, age, ready, asked, lapsed, suspended

S == INSTANCE SudoSession

DirEntry == [volume : Seq(STRING), snap : Snaps \cup {None}]
Commands == {"run", "dryrun", "measure", "status", "ls", "ls_restore"}

ASSUME SudoAssumption == RefreshInterval \in Nat
ASSUME SnapsAssumption == Snaps \subseteq Nat \ {0} /\ IsFiniteSet(Snaps) /\ MaxFails \in Nat
ASSUME SizeAssumption ==
  \A t \in Snaps : \A p \in Snaps \cup {None} : (p = None \/ p < t) => Size[t][p] \in Nat
ASSUME SettingsAssumption ==
  \A s \in Settings :
    /\ s.user \in S!Users
    /\ s.commands \subseteq Commands
    /\ s.now \cup s.later \cup s.restored \subseteq DirEntry
    /\ s.file # None => /\ \A n \in DOMAIN s.file.source : IsSourceSpec(s.file.source[n])
                        /\ \A n \in DOMAIN s.file.sync : IsSyncSpec(s.file.sync[n])

sudo == <<user, session, elapsed, age, ready, asked, lapsed, suspended>>
stats == <<sent_stats, remote_stats>>
loop == <<config, todo_syncs, sync, source_cache, todo, volume, steps>>
vars == <<setting, dir, archives, pc, cmd, loop, stats, report, told, fails, sudo>>

-----------------------------------------------------------------------------
(* Archives and their statistics.                                          *)

Archive == [parent : Snaps \cup {None}, size : Nat]
Archived(m) == {t \in Snaps : m[t] # None}

Sources == UNION {DOMAIN s.file.source : s \in {x \in Settings : x.file # None}}
Volumes == {e.volume : e \in UNION {s.now \cup s.later : s \in Settings}}

ASSUME VolumesAssumption == None \notin Volumes /\ None \notin Archive

NoStats == [full_count |-> 0, full_size |-> 0, incremental_count |-> 0, incremental_size |-> 0]

(* ArchiveStats.add_size; the totals of all archives are the sums.         *)
AddSize(st, parent, size) ==
  IF parent = None
    THEN [st EXCEPT !.full_count = @ + 1, !.full_size = @ + size]
    ELSE [st EXCEPT !.incremental_count = @ + 1, !.incremental_size = @ + size]

FromMeta(m) == FoldSet(LAMBDA t, st : AddSize(st, m[t].parent, m[t].size), NoStats, Archived(m))

Merge(st, other) == [k \in DOMAIN st |-> st[k] + other[k]]

-----------------------------------------------------------------------------
(* inspect_source: entries with a timestamp, grouped by volume, for        *)
(* the volumes the filter of the source selects.  A volume without entries *)
(* is not in the result.                                                   *)
Snapshots(v) == {t \in Snaps : [volume |-> v, snap |-> t] \in dir}
Listing(src) == [v \in Volumes |-> IF Selected(src.filter, v) THEN Snapshots(v) ELSE {}]
Found(listing) == {v \in Volumes : listing[v] # {}}

(* build_plan as one function: BackupRun has its loop.                     *)
Newest(T) == CHOOSE t \in T : \A u \in T : u <= t
Depths(m) == CHOOSE d \in [Snaps -> 0 .. Cardinality(Snaps)] :
  \A t \in Snaps : d[t] = IF m[t] = None \/ m[t].parent = None THEN 0 ELSE d[m[t].parent] + 1

ForceFullLate(acc, p, t, policy) ==
  \/ policy.max_incremental_depth # None /\ acc.depth[p] + 1 > policy.max_incremental_depth
  \/ acc.last_full = None
  \/ t - acc.last_full >= policy.min_full_send_interval

ForceFull(acc, p, t, policy) ==
  \/ policy.max_incremental_depth # None /\ acc.depth[p] + 1 >= policy.max_incremental_depth
  \/ acc.last_full = None
  \/ t - acc.last_full >= policy.min_full_send_interval

PlanStep(acc, t, listed, policy) ==
  LET older == {p \in listed : p \in acc.dest_set /\ p < t}
      full  == older = {} \/ ForceFull(acc, Newest(older), t, policy)
      par   == IF full THEN None ELSE Newest(older)
  IN  [steps |-> Append(acc.steps, [snap |-> t, parent |-> par]),
       dest_set |-> acc.dest_set \cup {t},
       depth |-> [acc.depth EXCEPT ![t] = IF full THEN 0 ELSE acc.depth[par] + 1],
       last_full |-> IF full THEN t ELSE acc.last_full]

BuildPlan(listed, m, policy) ==
  LET fulls == {t \in Archived(m) : m[t].parent = None}
      start == [steps |-> <<>>, dest_set |-> Archived(m), depth |-> Depths(m),
                last_full |-> IF fulls = {} THEN None ELSE Newest(fulls)]
  IN  MapThenFoldSet(LAMBDA t, acc : PlanStep(acc, t, listed, policy), start,
                     LAMBDA t : t, Newest, listed \ Archived(m)).steps

-----------------------------------------------------------------------------
(* What the commands print about a volume.                                 *)

(* print_snapshot_table                                                    *)
SnapshotTableSwapped(v, listed, m) ==
  {[volume |-> v, snap |-> t,
    state |-> CASE t \notin Archived(m) -> "remote-only"
                [] t \notin listed -> "local-only"
                [] OTHER -> "synced"] : t \in listed \cup Archived(m)}

SnapshotTable(v, listed, m) ==
  {[volume |-> v, snap |-> t,
    state |-> CASE t \notin Archived(m) -> "local-only"
                [] t \notin listed -> "remote-only"
                [] OTHER -> "synced"] : t \in listed \cup Archived(m)}

(* print_restore_table: what follows VOLUME. in the name of an entry; for  *)
(* an entry of a volume with a longer name that is the rest of that name,  *)
(* too, with the dot that ends it.                                         *)
Prefixed(v, entries) ==
  {e \in entries : IsPrefix(Append(v, "."), Append(e.volume, "."))}

StripToLastDot(v, entries) ==
  {[rest |-> <<>>, snap |-> e.snap] : e \in Prefixed(v, entries)}

Strip(v, entries) ==
  {[rest |-> SubSeq(Append(e.volume, "."), Len(v) + 2, Len(e.volume) + 1), snap |-> e.snap] :
     e \in Prefixed(v, entries)}

RestoreTable(v, m) ==
  LET archived == {[rest |-> <<>>, snap |-> t] : t \in Archived(m)}
      restored == Strip(v, setting.restored)
  IN  {[volume |-> v, raw |-> x,
        state |-> CASE x \notin restored -> "not-restored"
                    [] x \notin archived -> "restored-only"
                    [] OTHER -> "restored"] : x \in archived \cup restored}

Span(T) == IF T = {} THEN None ELSE <<Min(T), Max(T)>>
StatusLines(v, listed, m) ==
  {[volume |-> v, local |-> Span(listed), remote |-> Span(Archived(m)), usage |-> FromMeta(m)]}

PlanLines(v, plan) ==
  {[volume |-> v, snap |-> plan[i].snap, parent |-> plan[i].parent] : i \in DOMAIN plan}

-----------------------------------------------------------------------------
Init ==
  /\ setting \in Settings
  /\ dir = setting.now
  /\ archives = [v \in Volumes |-> [t \in Snaps |-> None]]
  /\ pc = "idle"
  /\ cmd = None
  /\ config = None
  /\ todo_syncs = {}
  /\ sync = None
  /\ source_cache = [n \in Sources |-> None]
  /\ todo = {}
  /\ volume = None
  /\ steps = <<>>
  /\ sent_stats = NoStats
  /\ remote_stats = NoStats
  /\ report = {}
  /\ told = None
  /\ fails = 0
  /\ user = setting.user
  /\ S!SessionInit

(* The end of a process, with or without an error.                         *)
Exit ==
  /\ pc' = "idle"
  /\ cmd' = None
  /\ config' = None
  /\ todo_syncs' = {}
  /\ sync' = None
  /\ source_cache' = [n \in Sources |-> None]
  /\ todo' = {}
  /\ volume' = None
  /\ steps' = <<>>
  /\ sent_stats' = NoStats
  /\ remote_stats' = NoStats
  /\ report' = {}
  /\ S!Quit
  /\ UNCHANGED <<setting, dir, archives>>

(* btrbk                                                                   *)
SnapCreate(e) ==
  /\ e \in setting.later \ dir
  /\ dir' = dir \cup {e}
  /\ told' = None
  /\ UNCHANGED <<setting, archives, pc, cmd, loop, stats, report, fails, sudo>>

-----------------------------------------------------------------------------
(* From the command line to the volumes: main, for_each_sync.              *)

Foretells(c) == c \in {"dryrun", "measure", "ls"}

Start(c) ==
  /\ pc = "idle"
  /\ c \in setting.commands
  /\ cmd' = c
  /\ pc' = "load"
  /\ told' = IF Foretells(c) THEN [by |-> c] ELSE told
  /\ UNCHANGED <<setting, dir, archives, loop, stats, report, fails, sudo>>

Loads == [s \in Settings |-> IF s.file = None THEN None ELSE FromToml(s.file)]
Loaded == Loads[setting]

(* The filter of for_each_sync, and resolve_sync_name before it when ls    *)
(* has a --restore-root: it asks for --name unless there is one sync.      *)
NameUsable(c) ==
  /\ setting.name # None => setting.name \in DOMAIN c.sync
  /\ cmd = "ls_restore" /\ setting.name = None => Cardinality(DOMAIN c.sync) = 1

Usable == Loaded # None /\ NameUsable(Loaded)

LoadConfig ==
  /\ pc = "load"
  /\ Usable
  /\ config' = Loaded
  /\ todo_syncs' = {s \in DOMAIN Loaded.sync : setting.name \in {None, s}}
  /\ pc' = "syncs"
  /\ UNCHANGED <<setting, dir, archives, cmd, sync, source_cache, todo, volume,
                 steps, stats, report, told, fails, sudo>>

RefuseConfig ==
  /\ pc = "load"
  /\ ~Usable
  /\ Exit
  /\ told' = IF Foretells(cmd) THEN None ELSE told
  /\ UNCHANGED fails

(* on_sync_start                                                           *)
NextSync(s) ==
  /\ pc = "syncs"
  /\ s \in todo_syncs
  /\ todo_syncs' = todo_syncs \ {s}
  /\ sync' = s
  /\ sent_stats' = NoStats
  /\ remote_stats' = NoStats
  /\ pc' = "sync"
  /\ UNCHANGED <<setting, dir, archives, cmd, config, source_cache, todo, volume,
                 steps, report, told, fails, sudo>>

Source == config.sync[sync].source
Policy == Resolve(config.sync[sync])

InspectSource ==
  /\ pc = "sync"
  /\ source_cache' = [source_cache EXCEPT
       ![Source] = IF @ = None THEN Listing(config.source[Source]) ELSE @]
  /\ todo' = Found(source_cache'[Source])
  /\ pc' = "volumes"
  /\ UNCHANGED <<setting, dir, archives, cmd, config, todo_syncs, sync, volume,
                 steps, stats, report, told, fails, sudo>>

-----------------------------------------------------------------------------
(* The volumes, in the order of a hash map.                                *)

IsNextFixed(v) == v \in todo /\ v = CHOOSE w \in todo : TRUE
IsNext(v) == v \in todo

Matches(v) == Selected(config.sync[sync].filter, v)

SkipVolume(v) ==
  /\ pc = "volumes"
  /\ IsNext(v)
  /\ ~Matches(v)
  /\ todo' = todo \ {v}
  /\ UNCHANGED <<setting, dir, archives, pc, cmd, config, todo_syncs, sync,
                 source_cache, volume, steps, stats, report, told, fails, sudo>>

(* inspect_dest_volume returns what is there, or an error, with which the  *)
(* whole command ends.                                                     *)
Enter(v) ==
  /\ pc = "volumes"
  /\ IsNext(v)
  /\ Matches(v)
  /\ v \notin setting.broken
  /\ todo' = todo \ {v}
  /\ UNCHANGED <<setting, dir, archives, cmd, config, todo_syncs, sync,
                 source_cache, sent_stats, told, fails, sudo>>

BrokenVolume(v) ==
  /\ pc = "volumes"
  /\ IsNext(v)
  /\ Matches(v)
  /\ v \in setting.broken
  /\ Exit
  /\ told' = None
  /\ UNCHANGED fails

Listed(v) == source_cache[Source][v]
PlanFor(v) == BuildPlan(Listed(v), archives[v], Policy)

RunVolume(v) ==
  /\ cmd = "run"
  /\ Enter(v)
  /\ volume' = v
  /\ steps' = PlanFor(v)
  /\ pc' = "step"
  /\ UNCHANGED <<remote_stats, report>>

DryrunVolumeLastOnly(v) ==
  /\ cmd = "dryrun"
  /\ Enter(v)
  /\ report' = PlanLines(v, PlanFor(v))
  /\ remote_stats' = Merge(remote_stats, FromMeta(archives[v]))
  /\ UNCHANGED <<pc, volume, steps>>

DryrunVolume(v) ==
  /\ cmd = "dryrun"
  /\ Enter(v)
  /\ report' = report \cup PlanLines(v, PlanFor(v))
  /\ remote_stats' = Merge(remote_stats, FromMeta(archives[v]))
  /\ UNCHANGED <<pc, volume, steps>>

(* dryrun --measure-send sends every step into a counter.                  *)
MeasureVolume(v) ==
  /\ cmd = "measure"
  /\ Enter(v)
  /\ remote_stats' = Merge(remote_stats, FromMeta(archives[v]))
  /\ volume' = v
  /\ steps' = PlanFor(v)
  /\ pc' = "step"
  /\ UNCHANGED report

Printed(v) ==
  CASE cmd = "ls" -> SnapshotTable(v, Listed(v), archives[v])
    [] cmd = "ls_restore" -> RestoreTable(v, archives[v])
    [] cmd = "status" -> StatusLines(v, Listed(v), archives[v])

ShowVolume(v) ==
  /\ cmd \in {"ls", "ls_restore", "status"}
  /\ Enter(v)
  /\ report' = report \cup Printed(v)
  /\ UNCHANGED <<pc, volume, steps, remote_stats>>

-----------------------------------------------------------------------------
(* The steps of a plan.                                                    *)

EnsureSudoUpToDate ==
  /\ pc = "step"
  /\ S!EnsureSudo
  /\ UNCHANGED <<setting, dir, archives, pc, cmd, loop, stats, report, told, fails>>

EnsureSudo ==
  /\ pc = "step"
  /\ steps # <<>>
  /\ S!EnsureSudo
  /\ UNCHANGED <<setting, dir, archives, pc, cmd, loop, stats, report, told, fails>>

RefuseSudo ==
  /\ pc = "step"
  /\ steps # <<>>
  /\ S!Refused
  /\ Exit
  /\ told' = None
  /\ UNCHANGED fails

StartSend ==
  /\ pc = "step"
  /\ S!Spawn
  /\ pc' = "send"
  /\ UNCHANGED <<setting, dir, archives, cmd, loop, stats, report, told, fails>>

(* The archive has been written and recorded, or counted.                  *)
FinishSend ==
  LET step == Head(steps)
      size == Size[step.snap][step.parent]
  IN  /\ pc = "send"
      /\ steps' = Tail(steps)
      /\ sent_stats' = AddSize(sent_stats, step.parent, size)
      /\ report' = report \cup PlanLines(volume, <<step>>)
      /\ \/ /\ cmd = "run"
            /\ archives' = [archives EXCEPT
                 ![volume][step.snap] = [parent |-> step.parent, size |-> size]]
            /\ UNCHANGED remote_stats
         \/ /\ cmd = "measure"
            /\ remote_stats' = AddSize(remote_stats, step.parent, size)
            /\ UNCHANGED archives
      /\ pc' = "step"
      /\ UNCHANGED <<setting, dir, cmd, config, todo_syncs, sync, source_cache, todo,
                     volume, told, fails, sudo>>

FinishVolume ==
  /\ pc = "step"
  /\ steps = <<>>
  /\ remote_stats' = IF cmd = "run" THEN Merge(remote_stats, FromMeta(archives[volume]))
                     ELSE remote_stats
  /\ volume' = None
  /\ pc' = "volumes"
  /\ UNCHANGED <<setting, dir, archives, cmd, config, todo_syncs, sync, source_cache,
                 todo, steps, sent_stats, report, told, fails, sudo>>

FinishSync ==
  /\ pc = "volumes"
  /\ todo = {}
  /\ pc' = "syncs"
  /\ UNCHANGED <<setting, dir, archives, cmd, loop, stats, report, told, fails, sudo>>

FinishCommand ==
  /\ pc = "syncs"
  /\ todo_syncs = {}
  /\ Exit
  /\ told' = CASE cmd = "run" \/ told = None -> None
               [] Foretells(cmd) /\ told # None ->
                    [by |-> cmd, said |-> report, sent |-> sent_stats, remote |-> remote_stats]
               [] OTHER -> told
  /\ UNCHANGED fails

(* Any call may return an error, and the process may be killed.            *)
Fail ==
  /\ pc # "idle"
  /\ fails < MaxFails
  /\ fails' = fails + 1
  /\ Exit
  /\ told' = None

Time ==
  /\ S!Tick \/ S!Suspend
  /\ UNCHANGED <<setting, dir, archives, pc, cmd, loop, stats, report, told, fails>>

-----------------------------------------------------------------------------
Work ==
  \/ LoadConfig \/ RefuseConfig
  \/ \E s \in todo_syncs : NextSync(s)
  \/ InspectSource
  \/ \E v \in todo : \/ SkipVolume(v) \/ BrokenVolume(v)
                     \/ RunVolume(v) \/ DryrunVolume(v) \/ MeasureVolume(v) \/ ShowVolume(v)
  \/ EnsureSudo \/ RefuseSudo \/ StartSend \/ FinishSend
  \/ FinishVolume \/ FinishSync \/ FinishCommand

Next ==
  \/ \E e \in setting.later : SnapCreate(e)
  \/ \E c \in setting.commands : Start(c)
  \/ Work \/ Fail \/ Time

(* A process goes on; `run` is started again and again, whatever else the  *)
(* user starts in between; and a hash map seeded anew in every process     *)
(* does not put the same volume last for ever.                             *)
Fairness ==
  /\ WF_vars(Work)
  /\ SF_vars(Start("run"))
  /\ \A v \in Volumes : SF_vars(RunVolume(v))

Spec == Init /\ [][Next]_vars
FairSpec == Spec /\ Fairness

-----------------------------------------------------------------------------
(* Properties.                                                             *)

Entry == [volume : Volumes, snap : Snaps \cup {None}]
Step == [snap : Snaps, parent : Snaps \cup {None}]

(* Every variable has its type, and a volume is being worked on exactly    *)
(* while its steps are.                                                    *)
TypeOK ==
  /\ setting \in Settings
  /\ dir \subseteq Entry
  /\ archives \in [Volumes -> [Snaps -> Archive \cup {None}]]
  /\ pc \in {"idle", "load", "syncs", "sync", "volumes", "step", "send"}
  /\ cmd \in Commands \cup {None}
  /\ (config = None) <=> (pc \in {"idle", "load"})
  /\ todo \subseteq Volumes
  /\ volume \in Volumes \cup {None}
  /\ (volume # None) <=> (pc \in {"step", "send"})
  /\ \A i \in DOMAIN steps : steps[i] \in Step
  /\ pc = "send" => steps # <<>>
  /\ DOMAIN sent_stats = DOMAIN NoStats /\ DOMAIN remote_stats = DOMAIN NoStats
  /\ fails \in 0 .. MaxFails
  /\ S!TypeOK

(* No accepted configuration makes for_each_sync panic: the indices into   *)
(* source and dest (mod.rs:137) and the unwrap of the interval             *)
(* (policy.rs:38) rely on rules that are checked far away, in from_toml.   *)
NoPanic ==
  \A s \in todo_syncs :
    /\ config.sync[s].source \in DOMAIN config.source
    /\ config.sync[s].dest \in DOMAIN config.dest
    /\ ParseDuration(config.sync[s].min_full_send_interval) # None

(* The limits that the file asks for hold of the archives, over all runs,  *)
(* aborted ones among them: as many incrementals as planner/mod.rs:89      *)
(* allows, and none that comes the interval or more after every full       *)
(* archive (one whose name shows up late may lie before a full one, see    *)
(* OrderedSpec of BackupDates).  The limits are read off the file as it is *)
(* written, before defaults, the resolved policy and the 32 bits of a      *)
(* product (duration.rs:25), which must not loosen them.  A file without   *)
(* max_incremental_depth asks for no limit, as in policy.rs:10.            *)
DaysAsked(s) ==
  LET x == Given(s.min_full_send_interval, [number |-> 1, unit |-> "w"])
  IN  x.number * UnitDays[x.unit]

WithinLimits(m, depth, days) ==
  \A t \in Archived(m) :
    /\ depth # None => Depths(m)[t] < depth
    /\ m[t].parent # None => \E u \in Archived(m) : m[u].parent = None /\ t - u < days

LimitsKept ==
  setting.file # None =>
    \A n \in DOMAIN setting.file.sync : \A v \in Volumes :
      WithinLimits(archives[v], setting.file.sync[n].max_incremental_depth,
                   DaysAsked(setting.file.sync[n]))

Denoted(filter, v) == \E p \in filter : Denotes(p, v)

(* A sync goes over the volumes that both filters denote and that have     *)
(* snapshots, all of them and no others (shown on ls, which prints at      *)
(* least a line for each).                                                 *)
VisitsSelected ==
  [][FinishSync /\ cmd = "ls" /\ told # None =>
       {row.volume : row \in report} =
         {v \in Volumes : /\ Snapshots(v) # {}
                          /\ Denoted(config.source[Source].filter, v)
                          /\ Denoted(config.sync[sync].filter, v)}]_vars

RunEndsWell == FinishCommand /\ cmd = "run" /\ told # None

(* As long as nothing else changes source or destination, a run does what  *)
(* dryrun has said it would: the same steps and, with --measure-send, the  *)
(* same two lines of statistics, although the one adds up what it sends    *)
(* and the other what it counts.                                           *)
DryrunForetells ==
  [][RunEndsWell /\ told.by \in {"dryrun", "measure"} =>
       /\ report = told.said
       /\ told.by = "measure" => sent_stats = told.sent /\ remote_stats = told.remote]_vars

(* And the snapshots that ls calls local-only are the ones it sends.       *)
LsForetells ==
  [][RunEndsWell /\ told.by = "ls" =>
       {<<row.volume, row.snap>> : row \in report} =
         {<<row.volume, row.snap>> : row \in {x \in told.said : x.state = "local-only"}}]_vars

(* What ls --restore-root calls restored is what restore would skip: an    *)
(* archive of that volume whose subvolume is in the directory              *)
(* (restore.rs:196), never a subvolume of a volume with a longer name.     *)
RestoredRowsAreSkipped ==
  cmd = "ls_restore" =>
    \A row \in report :
      row.state = "restored" <=>
        /\ row.raw.rest = <<>>
        /\ row.raw.snap \in Archived(archives[row.volume])
        /\ [volume |-> row.volume, snap |-> row.raw.snap] \in setting.restored

(* See SudoSession.                                                        *)
AskedOnlyAfterLapse == S!AskedOnlyAfterLapse
BtrfsNotAsked == S!BtrfsNotAsked

(* A snapshot that every run is meant to send is archived in the end, when *)
(* runs are repeated, even if other volumes make every run fail            *)
(* (mod.rs:192): nothing but the order of a hash map, which differs from   *)
(* run to run, lets the volumes before the broken one get their turn.      *)
Served == [s \in {x \in Settings : Loads[x] # None /\ x.user.root /\ "run" \in x.commands} |->
  {v \in Volumes \ s.broken :
     \E n \in DOMAIN Loads[s].sync :
       /\ s.name \in {None, n}
       /\ Selected(Loads[s].source[Loads[s].sync[n].source].filter, v)
       /\ Selected(Loads[s].sync[n].filter, v)}]
Wanted == IF setting \in DOMAIN Served THEN {e \in dir : e.volume \in Served[setting]} ELSE {}
AllArchived == \A e \in Wanted : e.snap # None => archives[e.volume][e.snap] # None
OthersArchived == <>[]AllArchived

=============================================================================
