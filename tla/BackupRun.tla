------------------------------ MODULE BackupRun ------------------------------
(***************************************************************************)
(* One source volume, its archives in one destination, and the processes   *)
(* that execute `bbkar run` on it: the planner's loop (planner/mod.rs),    *)
(* the loop over the plan's steps (cli/run.rs), the chunk files and the    *)
(* metadata file those steps write (executor/write_dest.rs), and the       *)
(* source directory, which btrbk changes while a run works on it.          *)
(*                                                                         *)
(* A snapshot is a member of Timestamps, a set of numbers ordered as the   *)
(* raw strings of model/source.rs are.  The bytes of a chunk file are      *)
(* abstracted to the stream they were cut from (see Chunk); that value     *)
(* also stands for the sha256 digest kept in the metadata.                 *)
(*                                                                         *)
(* A definition that stands right before another one and carries its name  *)
(* with a suffix (IsLastArchive before IsLastFull, CreateInPlace before    *)
(* CreateTmp) is a mistake the code could have made: nothing uses it but   *)
(* the runs that show that a property would notice.                        *)
(***************************************************************************)
EXTENDS Integers, FiniteSets

CONSTANTS
  Timestamps,     \* the snapshots the volume may ever have
  Day,            \* parse_date_to_days of each of them
  Runs,           \* the bbkar processes
  MaxDepth,       \* max_incremental_depth; None = no limit
  Interval,       \* min_full_send_interval in days
  MaxChunks,      \* bound: the most chunks one stream is cut into
  MaxFails,       \* bound: how often a run is aborted or killed
  LocalDest,      \* TRUE: driver "local"; FALSE: S3 or GCS
  SendMayFail,    \* may `btrfs send` of an existing snapshot exit non-zero?
  PurgeInRun,     \* may btrbk delete a snapshot while a run is working?
  None,           \* no value
  Torn            \* a file of which only a prefix has been written

-----------------------------------------------------------------------------
(* Data.                                                                   *)

Parents == Timestamps \cup {None}
Parts == 1 .. MaxChunks

Step == [snap : Timestamps, parent : Parents]
Sending == [snap : Timestamps, parent : Parents, of : Parts, part : 0 .. MaxChunks]

(* Chunk `part` of the stream of a snapshot sent against `parent` and cut  *)
(* into `of` chunks.  "open": a prefix of that chunk; "closed": all of it; *)
(* "cut": the encoder was finished after a stream that ended early.        *)
Content == [parent : Parents, of : Parts, part : Parts,
            state : {"open", "closed", "cut"}]

Chunk(c, i, st) == [parent |-> c.parent, of |-> c.of, part |-> i, state |-> st]

(* VolumeArchive; its timestamp is its key in Metas.                       *)
Archive == [parent : Parents, chunks : UNION {[1 .. n -> Content] : n \in Parts}]

(* DestMeta.archives.                                                      *)
Metas == [Timestamps -> Archive \cup {None}]
EmptyMeta == [t \in Timestamps |-> None]

Archived(m) == {t \in Timestamps : m[t] # None}
IsIncremental(m, t) == m[t] # None /\ m[t].parent # None
Fulls(m) == {t \in Archived(m) : ~IsIncremental(m, t)}

(* compute_depth, as the function that satisfies its recursion equation: a *)
(* full archive and a snapshot that is not archived have depth 0.          *)
DepthStep(d, m, t) == IF IsIncremental(m, t) THEN d[m[t].parent] + 1 ELSE 0
IsDepth(m, d) == \A t \in Timestamps : d[t] = DepthStep(d, m, t)

IsNewest(t, S) == t \in S /\ \A u \in S : u <= t
IsOldest(t, S) == t \in S /\ \A u \in S : t <= u

-----------------------------------------------------------------------------
ASSUME TimestampsAssumption == Timestamps \subseteq Nat /\ IsFiniteSet(Timestamps)
ASSUME SentinelAssumption ==
  /\ None \notin Int \cup Content \cup Archive \cup Sending
  /\ Torn # None
  /\ {None, Torn} \cap Metas = {}
ASSUME DayAssumption == Day \in [Timestamps -> Int \cup {None}]
ASSUME PolicyAssumption ==
  /\ MaxDepth \in (Nat \ {0}) \cup {None}
  /\ Interval \in Nat
ASSUME BoundsAssumption == MaxChunks \in Nat \ {0} /\ MaxFails \in Nat
ASSUME SwitchesAssumption ==
  /\ LocalDest \in BOOLEAN
  /\ SendMayFail \in BOOLEAN
  /\ PurgeInRun \in BOOLEAN
(* Two processes that write one local file share its inode and the         *)
(* temporary metadata file; only whole-object stores are modelled for them.*)
ASSUME LocalRunsAssumption == LocalDest => \A r, s \in Runs : r = s

-----------------------------------------------------------------------------
VARIABLES
  snaps,        \* source directory: a snapshot is future, present or deleted
  files,        \* destination: DEST/VOLUME/SNAPSHOT/partNNNNNN.btrfs.zstd
  meta,         \* destination: bbkar-meta.yaml
  tmp,          \* destination: .bbkar-meta.yaml.tmp
  pc,           \* what a run does next
  src_state,    \* SourceState: the snapshots inspect_source listed
  todo,         \* the part of src_state the planner's loop has not reached
  dest_meta,    \* the metadata a run read, with the archives it added
  steps,        \* RunPlan.steps not yet executed; the least snap is first
  depth_cache,  \* build_plan's depth_cache
  last_full,    \* build_plan's last_full
  cur,          \* the step being sent and the chunk being written
  fails         \* how many runs were aborted so far

dest == <<files, meta, tmp>>
plan == <<todo, steps, depth_cache, last_full>>
vars == <<snaps, files, meta, tmp, pc, src_state, todo, dest_meta, steps,
          depth_cache, last_full, cur, fails>>

-----------------------------------------------------------------------------
Present == {t \in Timestamps : snaps[t] = "present"}

(* The kernel refuses to delete a subvolume that is being sent, or that is *)
(* the parent of one.                                                      *)
InUse(t) == \E r \in Runs : pc[r] = "send" /\ t \in {cur[r].snap, cur[r].parent}

(* `btrfs send` finds the snapshot, and its parent when it has one.        *)
Streaming(r) == {cur[r].snap, cur[r].parent} \ {None} \subseteq Present

Init ==
  /\ snaps = [t \in Timestamps |-> "future"]
  /\ files = [t \in Timestamps |-> [i \in Parts |-> None]]
  /\ meta = EmptyMeta
  /\ tmp = None
  /\ pc = [r \in Runs |-> "idle"]
  /\ src_state = [r \in Runs |-> {}]
  /\ todo = [r \in Runs |-> {}]
  /\ dest_meta = [r \in Runs |-> EmptyMeta]
  /\ steps = [r \in Runs |-> {}]
  /\ depth_cache = [r \in Runs |-> [t \in Timestamps |-> 0]]
  /\ last_full = [r \in Runs |-> None]
  /\ cur = [r \in Runs |-> None]
  /\ fails = 0

(* A process that ends, normally or not, loses everything it remembered.   *)
Exit(r) ==
  /\ pc' = [pc EXCEPT ![r] = "idle"]
  /\ src_state' = [src_state EXCEPT ![r] = {}]
  /\ todo' = [todo EXCEPT ![r] = {}]
  /\ dest_meta' = [dest_meta EXCEPT ![r] = EmptyMeta]
  /\ steps' = [steps EXCEPT ![r] = {}]
  /\ depth_cache' = [depth_cache EXCEPT ![r] = [t \in Timestamps |-> 0]]
  /\ last_full' = [last_full EXCEPT ![r] = None]
  /\ cur' = [cur EXCEPT ![r] = None]

-----------------------------------------------------------------------------
(* btrbk: creates snapshots and deletes them by its own retention policy.  *)

SnapCreate(t) ==
  /\ snaps[t] = "future"
  /\ snaps' = [snaps EXCEPT ![t] = "present"]
  /\ UNCHANGED <<dest, pc, src_state, plan, dest_meta, cur, fails>>

SnapDelete(t) ==
  /\ snaps[t] = "present"
  /\ ~InUse(t)
  /\ PurgeInRun \/ \A r \in Runs : pc[r] = "idle"
  /\ snaps' = [snaps EXCEPT ![t] = "deleted"]
  /\ UNCHANGED <<dest, pc, src_state, plan, dest_meta, cur, fails>>

-----------------------------------------------------------------------------
(* Inspection and planning.                                                *)

InspectSource(r) ==
  /\ pc[r] = "idle"
  /\ Present # {}
  /\ src_state' = [src_state EXCEPT ![r] = Present]
  /\ pc' = [pc EXCEPT ![r] = "inspect"]
  /\ UNCHANGED <<snaps, dest, plan, dest_meta, cur, fails>>

(* inspect_source groups directory entries by volume: a volume without     *)
(* snapshots is not in its result, and the run does not visit it.          *)
SkipVolume(r) ==
  /\ pc[r] = "idle"
  /\ Present = {}
  /\ UNCHANGED vars

(* The newest archive in the metadata that is not incremental.             *)
IsLastArchive(m, f) == IF Archived(m) = {} THEN f = None ELSE IsNewest(f, Archived(m))
IsLastFull(m, f) == IF Fulls(m) = {} THEN f = None ELSE IsNewest(f, Fulls(m))

InspectDest(r) ==
  /\ pc[r] = "inspect"
  /\ meta # Torn
  /\ dest_meta' = [dest_meta EXCEPT ![r] = meta]
  /\ todo' = [todo EXCEPT ![r] = src_state[r]]
  /\ \E d \in [Timestamps -> 0 .. Cardinality(Archived(meta))] :
       /\ IsDepth(meta, d)
       /\ depth_cache' = [depth_cache EXCEPT ![r] = d]
  /\ \E f \in Parents :
       /\ IsLastFull(meta, f)
       /\ last_full' = [last_full EXCEPT ![r] = f]
  /\ pc' = [pc EXCEPT ![r] = "plan"]
  /\ UNCHANGED <<snaps, dest, src_state, steps, cur, fails>>

(* build_plan's dest_set: what is archived and what is planned already.    *)
Planned(r) == {s.snap : s \in steps[r]}
DestSetLive(r) == Archived(meta) \cup Planned(r)
DestSet(r) == Archived(dest_meta[r]) \cup Planned(r)

(* find_parent_candidate is the newest of these.                           *)
ParentCandidates(r, t) == {p \in src_state[r] \cap DestSet(r) : p < t}

WouldExceedDepth(r, p) == MaxDepth # None /\ depth_cache[r][p] + 1 >= MaxDepth

(* check_interval_exceeded, false only when both dates can be parsed.      *)
WithinInterval(last, t) ==
  /\ last # None
  /\ Day[last] # None
  /\ Day[t] # None
  /\ Day[t] - Day[last] < Interval

ForceFull(r, p, t) == WouldExceedDepth(r, p) \/ ~WithinInterval(last_full[r], t)

StepDepth(d, p) == IF p = None THEN 0 ELSE d[p] + 1

(* The end of an iteration that pushes a step for t.                       *)
AddStepUncounted(r, t, p) ==
  /\ steps' = [steps EXCEPT ![r] = @ \cup {[snap |-> t, parent |-> p]}]
  /\ depth_cache' = depth_cache
  /\ todo' = [todo EXCEPT ![r] = @ \ {t}]

AddStep(r, t, p) ==
  /\ steps' = [steps EXCEPT ![r] = @ \cup {[snap |-> t, parent |-> p]}]
  /\ depth_cache' = [depth_cache EXCEPT ![r] = [@ EXCEPT ![t] = StepDepth(depth_cache[r], p)]]
  /\ todo' = [todo EXCEPT ![r] = @ \ {t}]

PlanSkipOlder(r, t) ==
  /\ pc[r] = "plan"
  /\ IsOldest(t, todo[r])
  /\ \E u \in DestSet(r) : t <= u
  /\ todo' = [todo EXCEPT ![r] = @ \ {t}]
  /\ UNCHANGED <<snaps, dest, pc, src_state, dest_meta, steps, depth_cache,
                 last_full, cur, fails>>

PlanSkip(r, t) ==
  /\ pc[r] = "plan"
  /\ IsOldest(t, todo[r])
  /\ t \in DestSet(r)
  /\ todo' = [todo EXCEPT ![r] = @ \ {t}]
  /\ UNCHANGED <<snaps, dest, pc, src_state, dest_meta, steps, depth_cache,
                 last_full, cur, fails>>

PlanFull(r, t) ==
  /\ pc[r] = "plan"
  /\ IsOldest(t, todo[r])
  /\ t \notin DestSet(r)
  /\ \A p \in ParentCandidates(r, t) :
       IsNewest(p, ParentCandidates(r, t)) => ForceFull(r, p, t)
  /\ AddStep(r, t, None)
  /\ last_full' = [last_full EXCEPT ![r] = t]
  /\ UNCHANGED <<snaps, dest, pc, src_state, dest_meta, cur, fails>>

PlanIncremental(r, t) ==
  /\ pc[r] = "plan"
  /\ IsOldest(t, todo[r])
  /\ t \notin DestSet(r)
  /\ \E p \in ParentCandidates(r, t) :
       /\ IsNewest(p, ParentCandidates(r, t))
       /\ ~ForceFull(r, p, t)
       /\ AddStep(r, t, p)
  /\ UNCHANGED <<snaps, dest, pc, src_state, dest_meta, last_full, cur, fails>>

(* An empty plan ends the work on the volume.                              *)
UpToDate(r) ==
  /\ pc[r] = "plan"
  /\ todo[r] = {}
  /\ steps[r] = {}
  /\ Exit(r)
  /\ UNCHANGED <<snaps, dest, fails>>

ExecutePlan(r) ==
  /\ pc[r] = "plan"
  /\ todo[r] = {}
  /\ steps[r] # {}
  /\ pc' = [pc EXCEPT ![r] = "run"]
  /\ UNCHANGED <<snaps, dest, src_state, plan, dest_meta, cur, fails>>

-----------------------------------------------------------------------------
(* Executing the plan.                                                     *)

StartSendKeepingStep(r) ==
  /\ pc[r] = "run"
  /\ \E s \in steps[r], n \in Parts :
       cur' = [cur EXCEPT ![r] = [snap |-> s.snap, parent |-> s.parent,
                                  of |-> n, part |-> 0]]
  /\ pc' = [pc EXCEPT ![r] = "send"]
  /\ UNCHANGED <<snaps, dest, src_state, plan, dest_meta, fails>>

StartSend(r) ==
  /\ pc[r] = "run"
  /\ \E s \in steps[r], n \in Parts :
       /\ IsOldest(s.snap, Planned(r))
       /\ cur' = [cur EXCEPT ![r] = [snap |-> s.snap, parent |-> s.parent,
                                     of |-> n, part |-> 0]]
       /\ steps' = [steps EXCEPT ![r] = @ \ {s}]
  /\ pc' = [pc EXCEPT ![r] = "send"]
  /\ UNCHANGED <<snaps, dest, src_state, todo, dest_meta, depth_cache,
                 last_full, fails>>

(* File::create truncates what an earlier run left; an object appears, or  *)
(* is replaced, only when its writer is closed.                            *)
OpenChunk(fs, c, i) ==
  IF LocalDest THEN [fs EXCEPT ![c.snap] = [@ EXCEPT ![i] = Chunk(c, i, "open")]]
  ELSE fs

(* finalize_current                                                        *)
CloseChunkNotLast(fs, c, st) ==
  IF c.part \in {0, c.of} THEN fs
  ELSE [fs EXCEPT ![c.snap] = [@ EXCEPT ![c.part] = Chunk(c, c.part, st)]]

CloseChunk(fs, c, st) ==
  IF c.part = 0 THEN fs
  ELSE [fs EXCEPT ![c.snap] = [@ EXCEPT ![c.part] = Chunk(c, c.part, st)]]

Roll(r) ==
  /\ cur[r].part < cur[r].of
  /\ files' = OpenChunk(CloseChunk(files, cur[r], "closed"), cur[r], cur[r].part + 1)
  /\ cur' = [cur EXCEPT ![r].part = @ + 1]
  /\ UNCHANGED <<snaps, meta, tmp, pc, src_state, plan, dest_meta, fails>>

RollNextCreateNew(r) ==
  /\ pc[r] = "send"
  /\ cur[r].part # 0 => Streaming(r)
  /\ Roll(r)
  /\ files[cur[r].snap][cur[r].part + 1] = None

(* Even a send that fails at once makes the encoder write a frame.         *)
RollNext(r) ==
  /\ pc[r] = "send"
  /\ cur[r].part # 0 => Streaming(r)
  /\ Roll(r)

(* ChunkedWriter.finish, with the digest of every chunk as it was written. *)
WrittenChunksFromZero(c, st) ==
  [i \in 0 .. c.part - 1 |-> Chunk(c, i, IF i = c.part - 1 THEN st ELSE "closed")]

WrittenChunks(c, st) ==
  [i \in 1 .. c.part |-> Chunk(c, i, IF i = c.part THEN st ELSE "closed")]

AddArchiveToNothing(m, c, st) ==
  [EmptyMeta EXCEPT ![c.snap] = [parent |-> c.parent, chunks |-> WrittenChunks(c, st)]]
AddArchiveAsFull(m, c, st) ==
  [m EXCEPT ![c.snap] = [parent |-> None, chunks |-> WrittenChunks(c, st)]]

AddArchive(m, c, st) ==
  [m EXCEPT ![c.snap] = [parent |-> c.parent, chunks |-> WrittenChunks(c, st)]]

(* write_subvolume returned; the archive is added to the run's dest_meta.  *)
Finish(r, st) ==
  /\ files' = CloseChunk(files, cur[r], st)
  /\ dest_meta' = [dest_meta EXCEPT ![r] = AddArchive(dest_meta[r], cur[r], st)]
  /\ pc' = [pc EXCEPT ![r] = "commit"]
  /\ UNCHANGED <<snaps, meta, tmp, src_state, plan, cur, fails>>

FinishSendEarly(r) ==
  /\ pc[r] = "send"
  /\ cur[r].part > 0
  /\ Streaming(r)
  /\ Finish(r, "closed")

FinishSend(r) ==
  /\ pc[r] = "send"
  /\ cur[r].part = cur[r].of
  /\ Streaming(r)
  /\ Finish(r, "closed")

(* The exit status of btrfs send is a BtrfsSendChunk::ProcessExit, which   *)
(* CompressSession.write_chunk ignores: the shorter stream is archived.    *)
FinishFailedSend(r) ==
  /\ pc[r] = "send"
  /\ cur[r].part > 0
  /\ SendMayFail \/ ~Streaming(r)
  /\ Finish(r, "cut")

(* write_metadata_to_dest: fs::write creates the file and then fills it.   *)
CreateInPlace(r) ==
  /\ pc[r] = "commit"
  /\ LocalDest
  /\ meta' = Torn
  /\ pc' = [pc EXCEPT ![r] = "tmp"]
  /\ UNCHANGED <<snaps, files, tmp, src_state, plan, dest_meta, cur, fails>>

CreateTmp(r) ==
  /\ pc[r] = "commit"
  /\ LocalDest
  /\ tmp' = Torn
  /\ pc' = [pc EXCEPT ![r] = "tmp"]
  /\ UNCHANGED <<snaps, files, meta, src_state, plan, dest_meta, cur, fails>>

WriteTmp(r) ==
  /\ pc[r] = "tmp"
  /\ tmp' = dest_meta[r]
  /\ pc' = [pc EXCEPT ![r] = "rename"]
  /\ UNCHANGED <<snaps, files, meta, src_state, plan, dest_meta, cur, fails>>

RenameTmp(r) ==
  /\ pc[r] = "rename"
  /\ meta' = tmp
  /\ tmp' = None
  /\ pc' = [pc EXCEPT ![r] = "run"]
  /\ cur' = [cur EXCEPT ![r] = None]
  /\ UNCHANGED <<snaps, files, src_state, plan, dest_meta, fails>>

PutMeta(r) ==
  /\ pc[r] = "commit"
  /\ ~LocalDest
  /\ meta' = dest_meta[r]
  /\ pc' = [pc EXCEPT ![r] = "run"]
  /\ cur' = [cur EXCEPT ![r] = None]
  /\ UNCHANGED <<snaps, files, tmp, src_state, plan, dest_meta, fails>>

FinishRun(r) ==
  /\ pc[r] = "run"
  /\ steps[r] = {}
  /\ Exit(r)
  /\ UNCHANGED <<snaps, dest, fails>>

(* Any call may return an error, which `?` carries out of the closure, and *)
(* the process may be killed between any two steps.  What is on the        *)
(* destination stays there.                                                *)
Fail(r) ==
  /\ pc[r] # "idle"
  /\ fails < MaxFails
  /\ fails' = fails + 1
  /\ Exit(r)
  /\ UNCHANGED <<snaps, dest>>

-----------------------------------------------------------------------------
Plan(r) == \E t \in Timestamps : PlanSkip(r, t) \/ PlanFull(r, t) \/ PlanIncremental(r, t)

Advance(r) ==
  \/ InspectSource(r) \/ SkipVolume(r) \/ InspectDest(r)
  \/ Plan(r) \/ UpToDate(r) \/ ExecutePlan(r)
  \/ StartSend(r) \/ RollNext(r) \/ FinishSend(r) \/ FinishFailedSend(r)
  \/ CreateTmp(r) \/ WriteTmp(r) \/ RenameTmp(r) \/ PutMeta(r)
  \/ FinishRun(r)

Next ==
  \/ \E t \in Timestamps : SnapCreate(t) \/ SnapDelete(t)
  \/ \E r \in Runs : Advance(r) \/ Fail(r)

Spec == Init /\ [][Next]_vars

(* A process that was started keeps going: it blocks on nothing but its    *)
(* own calls.  Starting it is up to whoever schedules `bbkar run`.         *)
Work(r) == Advance(r) /\ pc[r] # "idle"
Fairness == \A r \in Runs : WF_vars(Work(r)) /\ WF_vars(InspectSource(r))
FairSpec == Spec /\ Fairness

-----------------------------------------------------------------------------
(* Properties.                                                             *)

(* Every variable has its type, and a run that is past StartSend has a     *)
(* step in its hands.                                                      *)
TypeOK ==
  /\ snaps \in [Timestamps -> {"future", "present", "deleted"}]
  /\ files \in [Timestamps -> [Parts -> Content \cup {None}]]
  /\ meta \in Metas \cup {Torn}
  /\ tmp \in Metas \cup {None, Torn}
  /\ pc \in [Runs -> {"idle", "inspect", "plan", "run", "send", "commit",
                      "tmp", "rename"}]
  /\ src_state \in [Runs -> SUBSET Timestamps]
  /\ todo \in [Runs -> SUBSET Timestamps]
  /\ dest_meta \in [Runs -> Metas]
  /\ steps \in [Runs -> SUBSET Step]
  /\ depth_cache \in [Runs -> [Timestamps -> Nat]]
  /\ last_full \in [Runs -> Parents]
  /\ cur \in [Runs -> Sending \cup {None}]
  /\ fails \in 0 .. MaxFails
  /\ \A r \in Runs : pc[r] \in {"send", "commit", "tmp", "rename"} => cur[r] \in Sending

(* bbkar-meta.yaml can be parsed after every step of every run, a crash in *)
(* the middle of write_metadata_to_dest included (write_dest.rs:335).      *)
MetaReadable == meta # Torn

Closed(m) ==
  \A t \in Archived(m) :
    IsIncremental(m, t) => m[t].parent \in Archived(m) /\ m[t].parent < t

(* Whatever the runs, the crashes, the failed sends and the purges: the    *)
(* metadata never names an incremental archive whose parent it lacks, or   *)
(* whose parent is not older.  build_restore_plan (planner/mod.rs:136)     *)
(* depends on the first, restore's chronological order on the second.      *)
ChainClosed == MetaReadable => Closed(meta)

(* Every chunk the metadata records is on the destination, with the bytes  *)
(* its sha256 was computed from.                                           *)
ArchivesIntact ==
  MetaReadable =>
    \A t \in Archived(meta) :
      \A i \in DOMAIN meta[t].chunks : files[t][i] = meta[t].chunks[i]

(* The chunks that were recorded make up the whole stream of the snapshot. *)
Complete(a) ==
  \E n \in Parts :
    a.chunks = [i \in 1 .. n |-> Chunk([parent |-> a.parent, of |-> n], i, "closed")]

(* A snapshot is recorded as archived only with its whole stream           *)
(* (doc/design-code.md:137, "prevent inconsistent state and data loss").   *)
ArchivesComplete == MetaReadable => \A t \in Archived(meta) : Complete(meta[t])

(* What was committed stays: no step of any run drops or alters a recorded *)
(* archive, or touches one of its chunk files.                             *)
CommittedKept ==
  MetaReadable =>
    /\ MetaReadable'
    /\ \A t \in Archived(meta) :
         /\ meta'[t] = meta[t]
         /\ \A i \in DOMAIN meta[t].chunks : files'[t][i] = files[t][i]
CommittedImmutable == [][CommittedKept]_vars

(* A run that ends without an error leaves every snapshot it listed in the *)
(* metadata: none is lost between the plan's loop and the execution's.     *)
EndsWell(r) == pc[r] \in {"plan", "run"} /\ pc'[r] = "idle" /\ fails' = fails
RunCoversSource ==
  [][\A r \in Runs : EndsWell(r) => MetaReadable /\ src_state[r] \subseteq Archived(meta)]_vars

(* No chain of incrementals in the metadata is max_incremental_depth long, *)
(* counting across runs, crashes and purged parents.                       *)
DepthBounded ==
  MaxDepth # None /\ MetaReadable =>
    \E d \in [Timestamps -> 0 .. MaxDepth - 1] : IsDepth(meta, d)

(* An incremental archive has a full archive less than                     *)
(* min_full_send_interval days before it (doc/terms-config.md:61).         *)
RecentFull(m, t) ==
  \E f \in Fulls(m) :
    f < t /\ {Day[f], Day[t]} \subseteq Int /\ Day[t] - Day[f] < Interval
FullRecency ==
  MetaReadable =>
    \A t \in Archived(meta) : IsIncremental(meta, t) => RecentFull(meta, t)

(* A full send that has a parent to build on is due: the interval is over, *)
(* or max_incremental_depth incrementals are stacked on the last full      *)
(* (doc/terms-config.md:63).                                               *)
FullIsDue(r, t) ==
  \A p \in ParentCandidates(r, t) :
    IsNewest(p, ParentCandidates(r, t)) =>
      \/ ~WithinInterval(last_full[r], t)
      \/ MaxDepth # None /\ depth_cache[r][p] >= MaxDepth
FullOnlyWhenDue ==
  [][\A r \in Runs, t \in Timestamps : PlanFull(r, t) => FullIsDue(r, t)]_vars

(* A run that was started comes to an end.                                 *)
RunsEnd == \A r \in Runs : pc[r] # "idle" ~> pc[r] = "idle"

(* As long as runs are started again and again, aborted ones included, a   *)
(* snapshot that stays in the source directory is archived at last.        *)
EventuallyArchived ==
  \A t \in Timestamps :
    snaps[t] = "present" ~> snaps[t] = "deleted" \/ t \in Archived(meta)

=============================================================================
