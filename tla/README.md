# A verification project for bbkar

bbkar sends btrfs snapshots, made by btrbk, to a directory or an object store as compressed chunk files,
and restores them. These modules model what it does to its destination and to the restored subvolumes,
what its commands accept, select and print, and how it gets at its privileges. TLC checks them on small
instances, and TLAPS proves every safety property among the checked ones for every instance.

Paths below are those of the repository's root (`src/cli/run.rs` and so on).

## 1. The system

One `bbkar` process is a single thread that calls external commands and a storage library. It keeps no
state of its own between runs: all that survives is on the destination and in the file system.
Concurrency comes from outside: btrbk creates and deletes snapshots, `btrfs send` and `btrfs receive` run
beside bbkar at the other end of pipes, and a second bbkar may be started by hand or by a timer.
The process may be killed anywhere.

| Component | State | Operations | Hard behaviours | Correct when |
|---|---|---|---|---|
| Source inspection (`inspect_source.rs`) | none; reads the source directory | list snapshots per volume | the listing is stale as soon as it is made: btrbk goes on | a run archives what it listed, or says that it did not |
| Destination inspection (`inspect_dest.rs`) | none; reads `bbkar-meta.yaml` | read metadata, or start from none | read once, before planning and sending | |
| Planner (`planner/mod.rs`) | `dest_set`, `depth_cache`, `last_full` of one call | `build_plan`, `build_restore_plan`, `compute_depth`, `find_parent_candidate`, `check_interval_exceeded` | decisions rest on planned but unsent archives; depths count across runs; undated names | chains closed, ordered, bounded in depth and in age |
| Run loop (`cli/run.rs`) | `dest_meta`, the plan | send step by step, commit after each | an error or a kill between any two steps; two runs at once | what is committed is whole, and stays |
| Sync driver (`cli/mod.rs`) | cached listings, statistics of a sync | visit the selected volumes of the configured sync | an error in one volume stops the others; hash map order | the selected volumes and no others; none left out for ever |
| Chunk writer (`write_dest.rs`, `compress.rs`) | open chunk, its size and digest, part number, raw counters | write, roll, finish | the encoder lags behind; partial writes; leftovers of an aborted run | what is recorded reads back as what was sent |
| Metadata writer (`write_dest.rs`) | temporary file | write, rename / put | a kill during the write | the metadata is never torn |
| btrfs processes (`btrfs_send.rs`, `impl.rs`) | pipes, exit status | read, write, close, wait | who waits for whom; early exit; broken pipe | nobody waits for ever; a failure is not taken for success |
| Chunk reader (`read_dest.rs`) | index and cursor | read | chunk boundaries | the stream in order |
| Restore (`cli/restore.rs`) | targets, steps, `pre_existing`, `received` | resolve, plan, scan, receive | leftovers of an aborted restore; merged chains; another restore in the same root | parents first; completion means that everything is there |
| Sudo session (`sudo.rs`) | strategy, time of the last refresh | choose a strategy, refresh before a command | a transfer may outlast the credentials; cached ones look like a passwordless sudo; the machine sleeps | a password is asked for in mid-run only after the credentials have run out, and by the refresh rather than by a btrfs command |
| Wildcards (`utils/wildcard.rs`) | one row, updated in place | match, filter | the direction in which a row is swept | a volume is selected exactly if a pattern denotes it |
| Durations, dates (`utils/duration.rs`, `planner/mod.rs`) | none | parse, count days | months of 30 days; 32 bits | the count follows the order of dates, with a bounded error |
| Configuration (`model/config.rs`, `model/policy.rs`) | none | defaults, validation, resolved policy | what later code relies on is checked here only | an accepted file makes no later step panic, and the archives keep its limits |
| `dryrun`, `ls`, `status` | statistics | read and print | they repeat decisions of `run` and `restore` in code of their own | what they say is what `run` and `restore` do |
| OpenDAL operators, command line, logging, formatting | none | construct, parse, print | | |

`PROJECT.json` lists these components with their sources and what is modelled of each, and under
`hazards` the places in the code where something could go wrong that a test would hardly reach.

## 2. The modules

| Module | What it is |
|---|---|
| `BackupRun` | the planner, the run loop, the chunk files, the metadata file and the source directory of one volume; any number of runs |
| `ArchiveStore` | what the destination promises a reader: a set of whole archives that grows by one at a time |
| `BackupRefines` | the reader's view of `BackupRun`, and the statement that it implements `ArchiveStore` |
| `RestoreRun` | restores into one `--root`, from a destination that behaves as `ArchiveStore`; it EXTENDS that module |
| `SendStream` | one `write_subvolume`: `btrfs send`, its pipes, the encoder and `ChunkedWriter` |
| `ReceiveStream` | one `restore_archive`: `ChunkStreamReader`, the copy into `btrfs receive`, its stderr and status |
| `CalendarDays` | dates, the planner's day count, and the Gregorian calendar it approximates |
| `BackupDates` | `BackupRun` with the day count of `CalendarDays`: the age of chains in real days |
| `Config` | durations, schedules, days of the week, the defaults and rules of a configuration file, the policy made of it |
| `Wildcard` | the matcher, and what a pattern denotes |
| `SudoSession` | the strategies, the refresh, and what sudo remembers |
| `SyncDriver` | `run`, `dryrun`, `status` and `ls` over all volumes; it EXTENDS `Config` and `Wildcard`, and INSTANCEs `SudoSession` |
| `MCBackupRun`, `MCBackupDates`, `MCRestoreRun`, `MCSendStream`, `MCReceiveStream`, `MCSyncDriver` | instances for TLC |
| `BackupRunProofs`, `BackupArchiveProofs`, `BackupRecencyProofs`, `RestoreRunProofs`, `SendStreamProofs`, `ReceiveStreamProofs`, `SyncDriverProofs` | theorems; `BackupRecencyProofs` has those about `CalendarDays`, `SyncDriverProofs` those about `Config`, `Wildcard` and `SudoSession` |
| `Recursion` | lemmas about induction and recursion, on which the proofs rest wherever the model has a recursive function or a fold |

The levels fit together like this: `SendStream` opens up what `BackupRun` does between `StartSend` and
`FinishSend`, and `ReceiveStream` what `RestoreRun` does between `StartReceive` and `FinishReceive`.
`BackupRun` through `BackupRefines` implements the `ArchiveStore` on which `RestoreRun` rests.
`SyncDriver` is the level above: it has many volumes and all commands, and a transfer is a single step that
happens or fails. It runs one process at a time; concurrent runs are `BackupRun`'s.

In every module a definition whose name is that of the one after it with a suffix (`CreateInPlace` before
`CreateTmp`) is a plausible mistake. The specifications do not use it; each property has one that breaks
it, under `mutants` in `PROJECT.json`.

### BackupRun

State: `snaps` is the source directory; `files`, `meta`, `tmp` are the destination and survive a run; the
rest belongs to one run and is lost when it ends (`Exit`). A snapshot is a number; its order is the string
order of the raw timestamps. A chunk file holds a value that says which part of which stream it is, and
whether it is open, closed, or the end of a stream that broke off. That value also stands for the recorded
sha256: equal digests are equal contents.

| Actions | Code |
|---|---|
| `SnapCreate`, `SnapDelete` | btrbk (external). A snapshot cannot be deleted while `btrfs send` reads it |
| `InspectSource`, `SkipVolume` | `inspect_source`; a volume without snapshots is not visited |
| `InspectDest` | `inspect_dest_volume` and the head of `build_plan` (`depth_cache`, `last_full`) |
| `PlanSkip`, `PlanFull`, `PlanIncremental` | one iteration of `build_plan`'s loop each |
| `UpToDate`, `ExecutePlan` | the empty plan and the start of the loop over the steps |
| `StartSend`, `RollNext`, `FinishSend` | one step: spawn, roll chunks, close the last one, add the archive to `dest_meta` |
| `FinishFailedSend` | the same after a `btrfs send` that exited early: its status is not looked at (`compress.rs:26`) |
| `CreateTmp`, `WriteTmp`, `RenameTmp` | `write_metadata_to_dest` on a local destination |
| `PutMeta` | the same on an object store |
| `FinishRun`, `Fail` | the end of the loop; an error or a kill at any step |

`compute_depth` is recursive; the model has the function that satisfies its equation (`IsDepth`), which
exists only when the parents are not circular and is then the only one.

### RestoreRun

`root` says of each subvolume in `--root` whether it is absent, partly received, whole, or received wrongly
(from a damaged chunk or onto a wrong parent). The archives that arrive during a restore come from
`StoreNext`; `Damage` is the medium's. `ResolveTargets`, `StartChain`, `Walk`, `ScanRoot` are
`prepare_restore` (targets, chains, merge and sort, listing of `--root`); `Skip`, `StartReceive`,
`CreateSubvolume`, `FinishReceive`, `Refuse`, `FinishRestore` are the loop of `restore`. `Fail` aborts it;
whatever `btrfs receive` has created stays.

### SendStream and ReceiveStream

Amounts are counted in units. In `SendStream` a unit of the stream becomes a unit of compressed output,
when the encoder likes, and one more unit ends the frame: what matters is that the encoder lags behind, not
how well it compresses. A chunk file is known by the first unit in it and its size. In `ReceiveStream` a
unit is known by its place in the stream, so that a chunk left out or read twice shows. Pipes have
capacities; a process blocks on a full or an empty one until the other end is closed. `btrfs send` and
`btrfs receive` are external: they may exit at any time, and report success only at the end of the stream.

### BackupDates and CalendarDays

`Day`, a constant of `BackupRun`, becomes the day count of `parse_date_to_days`: 365 days a year, 30 a month.
`Serial` is the true number of a day. `OrderedSpec` adds one assumption about the world: btrbk names a
snapshot by the time it takes it, so names appear in their order. Without it recency does not hold:
`check_interval_exceeded` compares a snapshot with the *newest* full archive, and one that shows up late is
found within the interval of a full archive newer than itself.

### SyncDriver, Config, Wildcard and SudoSession

A setting is one element of the constant `Settings`: a configuration file, the options of the command line,
the user, the snapshots there are and those to come, the volumes whose metadata cannot be read, and the
directory given to `ls --restore-root`. Nothing in it changes; each behaviour has one.

| Actions | Code |
|---|---|
| `Start`, `LoadConfig`, `RefuseConfig` | `main`, `load_config`, the filter by name of `for_each_sync` and of `resolve_sync_name` |
| `NextSync`, `InspectSource`, `FinishSync`, `FinishCommand` | the outer loop of `for_each_sync` and its two closures |
| `SkipVolume`, `BrokenVolume` | a volume that the filter leaves out; one whose `inspect_dest_volume` fails, and the command with it |
| `RunVolume`, `DryrunVolume`, `MeasureVolume`, `ShowVolume` | the closure of each command, up to the loop over the steps |
| `EnsureSudo`, `RefuseSudo`, `StartSend`, `FinishSend`, `FinishVolume` | the loop over the steps: privileges, the transfer, the statistics |
| `Fail` | any error, or a kill |
| `SnapCreate`, `Time` | btrbk; the clocks of the process and of sudo, which differ while the machine sleeps |

`report` is the set of rows printed so far. `told` is a history variable: what the last `dryrun` or `ls`
printed, until something happens that may make it untrue. A name is a sequence of characters where filters and
prefixes look into it; a suffix is a number. In `Config` a text such as `"4w"` is split into number and unit,
and numbers below zero stand for what `u32::parse` refuses; `UMax` stands for `u32::MAX`, and the product of
count and unit wraps as in a release build.

In `SudoSession`, `elapsed` is the time since the process's last refresh and `age` that since sudo last accepted the
user, by two clocks that differ while the machine sleeps. How long sudo keeps credentials is the user's
`timestamp_timeout`, any number, for `sudo.rs` does not know it: five minutes in sudo itself, so less than the ten
after which bbkar refreshes. `sudo -v` and a btrfs command ask for the password when the credentials have run out
(`Asks`), and `asked` remembers which did; `lapsed` says that they have run out since the session began. Without an
answer `sudo -v` ends the command (`RefuseSudo`). A btrfs command that gets none has an empty stream, which is a
transfer like any other in `SyncDriver` and a failing send in `BackupRun`.

`BuildPlan` is the loop of `build_plan` as a fold over the suffixes in their order. `BackupRun` has the same loop
step by step, with other runs in between.

## 3. What the runs check

| Run | Question | Bounds |
|---|---|---|
| `backup_local` | one run at a time, aborted at any step: is the metadata always readable, are the archives it lists whole and unaltered, are none lost, does a good end mean that all listed snapshots are archived, and does all this implement `ArchiveStore`? | 3 snapshots, 2 chunks, 2 aborts, local destination |
| `backup_policy` | two runs at once on an object store: do the surviving chains stay closed, within the depth limit, and recent, by the planner's count and by the calendar? | 5 snapshots (1 July, 1 August, 1 September, 20 October 2024, and one without a date), depth 2, interval 61 days, purges between runs, no abort (a run may stop for as long as it likes), symmetry of the runs |
| `backup_live` | on an object store: does a run end, and is a snapshot that stays archived in the end, with failing sends, purges during a run and aborts? | 2 snapshots, 2 chunks, 2 aborts |
| `restore_once` | does a restore end, and are the targets there when it reports completion? | 3 snapshots, 5 requests, damage, 1 abort |
| `restore_shared` | two restores into one root, also over leftovers: parents first, nothing in vain? | 3 snapshots, 2 requests, 1 abort, symmetry |
| `send_stream` | does what was recorded read back as what was sent, are sizes right, does nobody wait for ever? | 8 units, chunks of 2, pipes of 3 and 2, reads and writes of up to 3 |
| `receive_stream` | is the stream in order, does Ok mean a whole stream, does nobody wait for ever? | chunks of 2, 1 and 4 units, pipes of 2, reads of up to 3 |
| `commands` | do `dryrun` and `ls` say what `run` and `restore` do, are exactly the selected volumes visited, does no accepted file make a command panic, do the archives keep the limits that a file asks for, when and for what does sudo ask for a password again, and is no volume left out for ever? | 3 suffixes, 5 volumes, 1 abort, every filter pattern of up to three of the characters `a b * ?`, a file for each rule that is broken and some that come close, intervals of 2 days and of 1001 where 999 is the largest number, 7 users, refresh after 1 and timeouts of sudo of 0 to 2 units of time |

Why these bounds are enough for the interesting cases: three snapshots give a full archive, an incremental
on it and one on that, with a purge of any of them; two chunks distinguish the last from the others; two
aborts allow an abort of the run that repairs what the first one left. In `backup_policy` the dates are such
that July to September are 62 days that count as 60: the first incremental passes an interval of 61 days by the
count and not by the calendar, and the next one must not. Two runs overwrite each other's metadata, so chains are cut and
continued. In `commands` the volumes `a`, `aa`, `aab`, `a.b` and `b` begin alike in every way that prefixes and
patterns can confuse; three characters of a pattern are enough for a star with something on both sides, and for two
stars in a row; three suffixes make a full archive and two incrementals under `max_incremental_depth = 2`. Sudo's
timeouts of 0 to 2 around a refresh after 1 are one that keeps nothing, one that ends before a refresh is due, and one
that only a long transfer, or a sleep of the machine, outlasts. In `send_stream` the chunk limit is smaller
than a write, so a chunk can overshoot it, and reads, writes and chunks do not align. The configuration
has no upper bound on these numbers; the theorems below cover them all.

`MaxChunks` and `MaxFails` bound what the code does not bound; `Retry`, `Rot`, `SendMayFail`, `PurgeInRun` and
`LocalDest` are switches that choose an environment. Each run names what it assumes: `backup_local`, for
one, has no failing sends, because the code does not notice them (next section). Deadlock is checked
in every run. A process that is done stutters where the system really stops.

### Disagreements between the code and what is said of it

Four runs end in a violation, and `findings` in `PROJECT.json` quotes the line that each contradicts.

- `found_cut_archive`: `btrfs send` exits non-zero after part of the stream, and the part is recorded as
  an archive; later runs skip the snapshot and build on it.
- `found_lost_update`: of two runs at once, the later metadata drops the archive the earlier one committed.
- `found_early_full`: with `max_incremental_depth = 2` there is one incremental between full sends, not two.
- `found_partial_restored`: a second restore takes a half-received subvolume for a restored one and reports
  completion.

Others are plain to see, and the models do what the code does:

- `doc/terms-config.md:63` gives `max_incremental_depth` the default `30`. In the code it has none: a file that leaves
  it out has no limit (`policy.rs:10`, and the field of `SyncSpec`). `LimitsKept` says nothing of the depth in such a case.
- `doc/terms-config.md:61` says that `min_full_send_interval` "Ensures full sends happen at least this often". The
  interval is counted with months of 30 days, so it may be exceeded by the slack in `RealRecency`; and a snapshot whose
  name shows up late is compared with a full archive newer than itself, so its chain may be older still
  (`FullRecency` holds of names in their order only).
- `examples/full.toml:3` calls `max_backup_chunk_size` the "max size for a single backup file", and
  `doc/design-code.md:133` speaks of "at-most-512M files". The limit is compared before a write of the encoder, so a
  file exceeds it by up to that write (`ChunkBounded`). `examples/full.toml:4` gives the default as 256; it is 32
  (`config.rs:189`).
- `sudo.rs:14` says that the session avoids repeated password prompts, and `sudo.rs:25` to authenticate once. When a
  transfer outlasts the timeout of sudo, the next `sudo -v` asks again, or fails where nobody answers; and with
  sudo's default of five minutes, shorter than the refresh interval, the next btrfs command may.
  `AskedOnlyAfterLapse` and `BtrfsNotAsked` say what does hold. `sudo.rs:105` recommends a passwordless sudo for
  btrfs commands, with which `sudo -n id` does not pass, so that a run without a terminal is refused.
- `wildcard.rs:3` says that wildcards do not match a slash, while the code and its test at line 52 let them (no
  name of a volume has one).

### Fairness

- A run and a restore that were started keep going (`Work`, `Advance`): a single thread that waits only for
  calls of its own to return. That such a call returns is the point of `SendStream` and `ReceiveStream`.
- `WF(InspectSource)` assumes that runs are started again and again, which is up to a timer or a user, not
  to bbkar. Only `EventuallyArchived` depends on it.
- In `SyncDriver` a process goes on (`WF(Work)`), `run` is started again and again whatever else is started
  in between (`SF(Start("run"))`), and the order of volumes is not the same for ever
  (`SF(RunVolume(v))`): Rust seeds the hash function of a `HashMap` anew in every process. Only
  `OthersArchived` depends on it. Without the last one it would be false: a volume that always comes after a
  broken one is never backed up, for the error ends the whole command.
- In `SendStream` and `ReceiveStream` each of the two processes goes on while it can, by the scheduler of
  the kernel. Nothing is assumed about failing: `Fail` is never fair.

## 4. What is proved

The proofs hold for every number of snapshots, runs, volumes, chunks, units and aborts, every configuration
file and every pattern, under the named ASSUMEs of the modules. These are types; sentinels that are not data
(`SentinelAssumption`, `VolumesAssumption`, `RecordAssumption`); finitely many snapshots; the ranges that
`src/model/config.rs` enforces (`PolicyAssumption` of `BackupRun`, `SizesAssumption` of `SendStream`; the lemma
`PolicyAlwaysUsable` shows that no accepted file leaves them); that an incremental has a size when its parent is older
(`SizeAssumption`); and these two about the world: on a local destination only one
run works at a time (`LocalRunsAssumption`), and what btrfs writes to stderr fits into its pipe
(`StderrAssumption`). A theorem that needs more says so in its hypotheses, listed below.

### One volume: `BackupRunProofs`, `BackupArchiveProofs`, `BackupRecencyProofs`

| Theorem | Argument |
|---|---|
| `TypeCorrect`, `MetaAlwaysReadable` | `TypeInv`: types, and the temporary file is whole when it is renamed |
| `ChainAlwaysClosed` | `ChainInv`. `ChainClosed` is not inductive: a run writes metadata it keeps in memory. So not only the metadata file but also the temporary file and each run's `dest_meta` are closed under parents, and the parent of a planned step is archived, planned earlier, or being sent |
| `DepthAlwaysBounded` | `DepthInv`, on top of `ChainInv`: `depth_cache` agrees with the archives a run has in memory and with its planned steps, and is below the limit. It needs that the depth function of closed metadata is unique (`DepthUnique`) |
| `ArchivesAlwaysComplete` | If sends succeed and nothing is purged during a run (`SendsSucceed`); any number of runs. `CompleteInv`: the archives in the metadata, the temporary file and each `dest_meta` are complete, and what a run has yet to send or builds on is in the source directory. Without the hypothesis it is false (`found_cut_archive`) |
| `ArchivesAlwaysIntact`, `CommittedNeverChanges`, `RunsCoverTheirSource` | One run at a time (`OneRun`), with failing sends, purges and aborts. `IntactInv`: the recorded chunks are on the destination, in the metadata and in `dest_meta`, and `dest_meta` has what the metadata has; the chunks of the archive being sent are this run's; no step is planned twice or for an archive that is there; every listed snapshot is archived, planned, or yet to be planned. With two runs it is false (`found_lost_update`) |
| `RunImplementsStore` | `OneRun` and `SendsSucceed`. `StoreInv` is the conjunction of the invariants above but for depth: under it, each step of `BackupRun` maps to a stuttering step of `ArchiveStore` or adds one whole archive whose parent is there |
| `FullAlwaysRecent`, `RealAlwaysRecent` | Under `OrderedSpec`, and with nothing purged during a run (`~PurgeInRun` is a hypothesis of both). `OrderInvariant`: on top of `ChainInv`, `OrderInv` says that a run works through its listing from the oldest to the newest, and that what is archived includes, with a snapshot, all older ones that are still there; `RecencyInv` says that each incremental in the metadata, in a run's memory and in its plan has a full archive near, and that `last_full` is a full archive the run knows. `RealAlwaysRecent` adds `DayCountError` |
| `DayCountMonotone`, `DayCountError` | linear arithmetic, month by month; for all years |

### Restores and transfers: `RestoreRunProofs`, `SendStreamProofs`, `ReceiveStreamProofs`

| Theorem | Argument |
|---|---|
| `RestoreTypeCorrect`, `ParentsAreFirst` | `OrderInvariant`: what a restore read is closed under parents; the parent of a step is a step, or held, or being walked; what is held is in `--root`. Then the oldest step has its parent |
| `OnlyNeededReceived` | `NeedInvariant`: every step, and the archive the walk is at, is a target or the parent of one that is known |
| `CompleteRestoreDelivers` | One restore that does not start over the leftovers of another (`OneRestore`, `~Retry`), while backups go on and chunks are damaged. `DeliverInvariant`: a target is yet to be walked, being walked, a step, or held; a subvolume is partial only while the restore is receiving it; as long as no chunk is damaged, nothing was received wrongly. Without the hypotheses it is false (`found_partial_restored`) |
| `SendTypeCorrect`, `ChunksAlwaysBounded`, `NeverMutualWait`, `AlwaysReadsBack` | `Amounts` (no unit disappears; who is blocked has something to write; after the end of stdout the child is gone) and `Layout` (the files follow each other, all but the open one are recorded) |
| `RawSizesAlwaysAddUp` | `SumInv`: what is recorded adds up to what was read at the last roll, and in the end that is everything. The sum is a recursive function; that it exists, is unique, and does not change when an entry is appended comes from `Recursion` |
| `ReceiveTypeCorrect`, `AlwaysInOrder`, `OkAlwaysMeansWhole`, `ReceiveNeverMutualWait` | `Progress` (the cursor is where reading stopped) and `Closing` (bbkar stops copying at the end of the stream, or because the receiver has exited with an error) |

### The commands: `SyncDriverProofs`

| Theorem | Argument |
|---|---|
| `MatchesWhatItDenotes` | For every pattern and every text. After `i` characters of the pattern, the row says of each prefix of the text whether it is denoted by these `i`; induction over `i`, and within a sweep over the row, in the direction in which the code sweeps |
| `NeverPanics` | `ConfigInv`: a process beyond `LoadConfig` has the accepted configuration of its file |
| `AskedAgainOnlyAfterLapse`, `RefreshAsksInstead`, `SudoTypeCorrect` | About `SudoSession`, for any interval and any timeout. `SessionInv`: credentials of a session that needs them are there or have lapsed, so that who is asked had them lapse; and while a session is interactive and the machine does not sleep, sudo's credentials are never older than the process's last refresh, so that with a timeout longer than the interval the next command finds them valid, or a refresh comes before it |
| `DriverImplementsSession`, `CommandsAskOnlyAfterLapse` | What the commands do between two calls of `ensure_sudo` are steps or stuttering steps of `SudoSession`, so that its theorems hold of them |
| `DriverTypeCorrect` | `TypeInv`. It rests on what a plan is (`PlanIs`, an induction over the fold in `BuildPlan`): one step for each snapshot that is listed and not archived, and none whose parent is not older |
| `LimitsAlwaysKept` | `LimitsInv`, over `TypeInv` and `StepsInv`. The archives are closed under parents; and of the archives and the planned steps of a run together there is a rank that grows along chains and stays below the limit, of which the depth is the smallest (`DepthBelowRank`), while each incremental step has its parent, and a full archive near enough, among the archives or the steps before it (`Sound`). That a new plan has both, from the depth cache and `last_full`, is an induction over the fold in `BuildPlan` (`PlanRanks`). An aborted run loses its plan and leaves the archives as they were |
| `RestoredRowsRight` | `ReportInv`: rows of `ls --restore-root` agree with the directory given and the metadata read |
| `AlwaysVisitsSelected` | `VisitInv`: an `ls` has printed the selected volumes among those it has come to |
| `LsAlwaysForetells`, `DryrunAlwaysForetells` | `DriverInv`, the conjunction of all the above with `PlaceInv`, `LineInv`, `StepsInv` and `CountInv`. `LineInv`: what a process has printed together with what it is going to print is the same from its start to its end, and the same for `run`, `dryrun` and `ls`, as long as nothing else changes the source or the destination. `CountInv` says it of the statistics, which the commands gather in different orders and at different times (`run` counts a volume's archives after its last step, `dryrun` before its first): they are at every moment the statistics of a set (`StatsOf`, by cardinalities), and that set together with what is yet to be counted stays the same. That a fold over archives gives the statistics of their set, in whatever order, is `FromMetaIs` |

### Recursion

The provers know nothing of recursive functions and folds, and cannot instantiate the induction theorems of the
library, which take an operator. `Recursion` has them in terms of sets and functions: to show something of all
`0 .. n` or of all subsets of a finite set, one shows it of the set of those that have it (`IntervalInduction`,
`SubsetInduction`); a recursion is given by its first value and a step function, and has exactly one solution
(`StepsUnique`, `StepsExist`, `FoldExists`). With these the CHOOSE in the definition of a recursive function or of
`MapThenFoldSet` can be shown to pick a function that satisfies its equation.

### What stays with TLC

Liveness: `RunsEnd`, `EventuallyArchived`, `RestoreEnds`, `TransferEnds`, `OthersArchived`. The prover does no
reasoning about ENABLED and fairness. Every other property of the passing runs is stated by a theorem above.
Where a theorem has a hypothesis, the constants of the run that checks the property satisfy it, too; in
`backup_local` nothing is purged while a run works, so that `RunCoversSource` with such purges rests on the theorem
`RunsCoverTheirSource` alone. No property is about `status`, which prints what it has read.

## 5. What is not modelled

- Bytes, compression ratios, digests as such, timing statistics, and the wording and layout of what is printed.
- The splitting of texts: TOML, the suffix of a snapshot's name, number and unit of a duration, raw timestamps
  on the command line. The order of suffixes (`_10` before `_2`) is a total order of numbers here, as it is of
  strings in the code.
- OpenDAL operators (`opendal.rs`): they hand constants of the configuration to an external library.
- Two runs on one *local* destination, which would share the temporary file and the inodes of chunk files.
- Two syncs: `from_toml` accepts at most one. Several processes in `SyncDriver`.
- The file system's order of writes at a power failure.
- The data in a hand-edited metadata file. bbkar itself never writes circular parents (`ChainClosed`).
- The exit status of bbkar, which is 0 after most errors (`main.rs:81`).

## 6. Plan

Done: all modules above, and a theorem for every safety property of the runs. Next, in this order:

1. Proofs: that `BuildPlan` of `SyncDriver` plans what the loop of `BackupRun` plans, when no other run is in between;
   that the steps of `SendStream` and `ReceiveStream` are what one step of `BackupRun` and `RestoreRun` stands for.
2. Two local runs in `BackupRun`, with shared inodes and a shared temporary file.
3. Several processes in `SyncDriver`, with a listing that another run makes stale.
