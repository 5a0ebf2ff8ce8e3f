----------------------------- MODULE RestoreRun ------------------------------
(***************************************************************************)
(* `bbkar restore` of one volume: the choice of the targets, the chain of  *)
(* archives each of them needs, and the loop that feeds these archives to  *)
(* `btrfs receive` (cli/restore.rs, Planner::build_restore_plan), run by   *)
(* processes that may be aborted and started again, into a directory that  *)
(* outlives them.                                                          *)
(*                                                                         *)
(* The destination is the one ArchiveStore describes: `bbkar run` may go   *)
(* on adding archives, and a medium may damage one that is there.          *)
(*                                                                         *)
(* As in BackupRun, a definition that carries the name of the one after it *)
(* with a suffix is a mistake that a property must notice.                 *)
(***************************************************************************)
EXTENDS ArchiveStore

CONSTANTS
  Restores,       \* the restoring processes
  Requests,       \* the --snapshot, --min-timestamp, --max-timestamp they use
  Retry,          \* may a restore start over what an aborted one has left?
  Rot,            \* may stored chunks be damaged?
  MaxFails        \* bound: how often a restore is aborted or killed

Request == [explicit : SUBSET Timestamps,
            min : Timestamps \cup {None}, max : Timestamps \cup {None}]

ASSUME TimestampsAssumption == Timestamps \subseteq Nat
ASSUME SentinelAssumption == None \notin Int \cup Record
ASSUME RequestsAssumption == Requests \subseteq Request
ASSUME BoundsAssumption == {Retry, Rot} \subseteq BOOLEAN /\ MaxFails \in Nat

VARIABLES
  root,           \* --root: absent, partial, whole or wrong, per snapshot
  pc,             \* what a restore does next
  request,        \* its command line
  meta,           \* the archives it read
  targets,        \* what resolve_targets returned
  unwalked,       \* targets whose chain has not been collected
  at,             \* the archive it looks at or receives
  steps,          \* RestorePlan.steps still to apply; the oldest is first
  pre_existing,   \* entries of --root before the first step
  received,       \* what it received itself
  fails           \* how many restores were aborted so far

process == <<pc, request, meta, targets, unwalked, at, steps, pre_existing, received>>
vars == <<store, root, process, fails>>

-----------------------------------------------------------------------------
Archives(m) == {t \in Timestamps : m[t] # None}
IsIncremental(m, t) == m[t].parent # None
IsOldest(t, S) == t \in S /\ \A u \in S : t <= u
IsNewest(t, S) == t \in S /\ \A u \in S : u <= t

IsDefault(q) == q.explicit = {} /\ q.min = None /\ q.max = None
HasRange(q) == q.min # None \/ q.max # None

(* The range of resolve_targets includes both ends.                        *)
InRange(q, t) ==
  /\ q.min # None => q.min <= t
  /\ q.max # None => t <= q.max

(* The targets: the latest archive when nothing is asked for, else the     *)
(* named ones and those in the range.                                      *)
Targets(q, m) ==
  IF IsDefault(q) THEN {t \in Archives(m) : IsNewest(t, Archives(m))}
  ELSE q.explicit \cup {t \in Archives(m) : HasRange(q) /\ InRange(q, t)}

Init ==
  /\ StoreInit
  /\ root = [t \in Timestamps |-> "absent"]
  /\ pc = [r \in Restores |-> "idle"]
  /\ request = [r \in Restores |-> None]
  /\ meta = [r \in Restores |-> [t \in Timestamps |-> None]]
  /\ targets = [r \in Restores |-> {}]
  /\ unwalked = [r \in Restores |-> {}]
  /\ at = [r \in Restores |-> None]
  /\ steps = [r \in Restores |-> {}]
  /\ pre_existing = [r \in Restores |-> {}]
  /\ received = [r \in Restores |-> {}]
  /\ fails = 0

Exit(r) ==
  /\ pc' = [pc EXCEPT ![r] = "idle"]
  /\ request' = [request EXCEPT ![r] = None]
  /\ meta' = [meta EXCEPT ![r] = [t \in Timestamps |-> None]]
  /\ targets' = [targets EXCEPT ![r] = {}]
  /\ unwalked' = [unwalked EXCEPT ![r] = {}]
  /\ at' = [at EXCEPT ![r] = None]
  /\ steps' = [steps EXCEPT ![r] = {}]
  /\ pre_existing' = [pre_existing EXCEPT ![r] = {}]
  /\ received' = [received EXCEPT ![r] = {}]

-----------------------------------------------------------------------------
(* The world around a restore.                                             *)

Backup == StoreNext /\ UNCHANGED <<root, process, fails>>

Damage(t) ==
  /\ Rot
  /\ t \in Stored
  /\ store[t].stream = "whole"
  /\ store' = [store EXCEPT ![t].stream = "damaged"]
  /\ UNCHANGED <<root, process, fails>>

(* The user removes a restored subvolume when nothing is being restored.   *)
Remove(t) ==
  /\ root[t] # "absent"
  /\ \A r \in Restores : pc[r] = "idle"
  /\ root' = [root EXCEPT ![t] = "absent"]
  /\ UNCHANGED <<store, process, fails>>

-----------------------------------------------------------------------------
(* prepare_restore                                                         *)

(* inspect_dest_volume and resolve_targets.                                *)
ResolveTargets(r, q) ==
  /\ pc[r] = "idle"
  /\ Retry \/ \A t \in Timestamps : root[t] # "partial"
  /\ q.explicit \subseteq Stored
  /\ Targets(q, store) # {}
  /\ request' = [request EXCEPT ![r] = q]
  /\ meta' = [meta EXCEPT ![r] = store]
  /\ targets' = [targets EXCEPT ![r] = Targets(q, store)]
  /\ unwalked' = [unwalked EXCEPT ![r] = Targets(q, store)]
  /\ pc' = [pc EXCEPT ![r] = "walk"]
  /\ UNCHANGED <<store, root, at, steps, pre_existing, received, fails>>

(* build_restore_plan starts at the next target ...                        *)
StartChain(r) ==
  /\ pc[r] = "walk"
  /\ at[r] = None
  /\ \E t \in unwalked[r] :
       /\ IsOldest(t, unwalked[r])
       /\ at' = [at EXCEPT ![r] = t]
       /\ unwalked' = [unwalked EXCEPT ![r] = @ \ {t}]
  /\ UNCHANGED <<store, root, pc, request, meta, targets, steps, pre_existing,
                 received, fails>>

(* ... collects it (`seen` keeps the steps distinct), and goes on with its *)
(* parent until it has collected a full archive.                           *)
Collect(r, ts, next) ==
  /\ pc[r] = "walk"
  /\ at[r] \in Archives(meta[r])
  /\ steps' = [steps EXCEPT ![r] = @ \cup ts]
  /\ at' = [at EXCEPT ![r] = next]
  /\ UNCHANGED <<store, root, pc, request, meta, targets, unwalked,
                 pre_existing, received, fails>>

Parent(r) == meta[r][at[r]].parent

WalkNoFull(r) == Collect(r, {at[r]} \cap {t \in Timestamps : Parent(r) # None}, Parent(r))
WalkPushParent(r) == Collect(r, {Parent(r)}, Parent(r))
WalkPrefix(r) == Collect(r, {t \in Archives(meta[r]) : t <= at[r]}, Parent(r))
WalkInPlace(r) == Collect(r, {at[r]}, at[r])

Walk(r) == Collect(r, {at[r]}, Parent(r))

(* After the last chain the steps are sorted, and --root is listed.        *)
ScanRoot(r) ==
  /\ pc[r] = "walk"
  /\ at[r] = None
  /\ unwalked[r] = {}
  /\ pre_existing' = [pre_existing EXCEPT ![r] = {t \in Timestamps : root[t] # "absent"}]
  /\ pc' = [pc EXCEPT ![r] = "apply"]
  /\ UNCHANGED <<store, root, request, meta, targets, unwalked, at, steps,
                 received, fails>>

-----------------------------------------------------------------------------
(* restore                                                                 *)

Skip(r) ==
  /\ pc[r] = "apply"
  /\ \E t \in (pre_existing[r] \cup received[r]) :
       /\ IsOldest(t, steps[r])
       /\ steps' = [steps EXCEPT ![r] = @ \ {t}]
  /\ UNCHANGED <<store, root, pc, request, meta, targets, unwalked, at,
                 pre_existing, received, fails>>

(* btrfs receive refuses a subvolume that is there already, and an         *)
(* incremental stream whose parent has not been received completely.       *)
Receivable(m, t) ==
  /\ root[t] = "absent"
  /\ IsIncremental(m, t) => root[m[t].parent] \in {"whole", "wrong"}

StartReceiveNewest(r) ==
  /\ pc[r] = "apply"
  /\ \E t \in steps[r] \ (pre_existing[r] \cup received[r]) :
       /\ IsNewest(t, steps[r])
       /\ at' = [at EXCEPT ![r] = t]
       /\ steps' = [steps EXCEPT ![r] = @ \ {t}]
  /\ pc' = [pc EXCEPT ![r] = "receive"]
  /\ UNCHANGED <<store, root, request, meta, targets, unwalked, pre_existing,
                 received, fails>>

StartReceive(r) ==
  /\ pc[r] = "apply"
  /\ \E t \in steps[r] \ (pre_existing[r] \cup received[r]) :
       /\ IsOldest(t, steps[r])
       /\ at' = [at EXCEPT ![r] = t]
       /\ steps' = [steps EXCEPT ![r] = @ \ {t}]
  /\ pc' = [pc EXCEPT ![r] = "receive"]
  /\ UNCHANGED <<store, root, request, meta, targets, unwalked, pre_existing,
                 received, fails>>

(* The first commands of the stream create the subvolume.                  *)
CreateSubvolume(r) ==
  /\ pc[r] = "receive"
  /\ Receivable(meta[r], at[r])
  /\ root' = [root EXCEPT ![at[r]] = "partial"]
  /\ pc' = [pc EXCEPT ![r] = "stream"]
  /\ UNCHANGED <<store, request, meta, targets, unwalked, at, steps,
                 pre_existing, received, fails>>

(* Neither the sha256 sums nor a zstd checksum are verified: a damaged     *)
(* archive may be received without an error.                               *)
Result(m, t) ==
  IF /\ store[t].stream = "whole"
     /\ IsIncremental(m, t) => root[m[t].parent] = "whole"
  THEN "whole" ELSE "wrong"

FinishReceive(r) ==
  /\ pc[r] = "stream"
  /\ root' = [root EXCEPT ![at[r]] = Result(meta[r], at[r])]
  /\ received' = [received EXCEPT ![r] = @ \cup {at[r]}]
  /\ at' = [at EXCEPT ![r] = None]
  /\ pc' = [pc EXCEPT ![r] = "apply"]
  /\ UNCHANGED <<store, request, meta, targets, unwalked, steps, pre_existing, fails>>

(* "restore complete"                                                      *)
FinishRestore(r) ==
  /\ pc[r] = "apply"
  /\ steps[r] = {}
  /\ pc' = [pc EXCEPT ![r] = "complete"]
  /\ UNCHANGED <<store, root, request, meta, targets, unwalked, at, steps,
                 pre_existing, received, fails>>

Leave(r) ==
  /\ pc[r] = "complete"
  /\ Exit(r)
  /\ UNCHANGED <<store, root, fails>>

(* The exit status of btrfs receive is an error of restore_archive.        *)
Refuse(r) ==
  /\ pc[r] = "receive"
  /\ ~Receivable(meta[r], at[r])
  /\ Exit(r)
  /\ UNCHANGED <<store, root, fails>>

(* Any call returns an error, or the process is killed.  What btrfs        *)
(* receive has created stays in --root.                                    *)
Fail(r) ==
  /\ pc[r] \notin {"idle", "complete"}
  /\ fails < MaxFails
  /\ fails' = fails + 1
  /\ Exit(r)
  /\ UNCHANGED <<store, root>>

-----------------------------------------------------------------------------
Advance(r) ==
  \/ \E q \in Requests : ResolveTargets(r, q)
  \/ StartChain(r) \/ Walk(r) \/ ScanRoot(r)
  \/ Skip(r) \/ StartReceive(r) \/ CreateSubvolume(r) \/ FinishReceive(r)
  \/ Refuse(r) \/ FinishRestore(r) \/ Leave(r)

Next ==
  \/ Backup
  \/ \E t \in Timestamps : Damage(t) \/ Remove(t)
  \/ \E r \in Restores : Advance(r) \/ Fail(r)

Spec == Init /\ [][Next]_vars

(* A restore that was started keeps going.                                 *)
Fairness == \A r \in Restores : WF_vars(Advance(r) /\ pc[r] # "idle")
FairSpec == Spec /\ Fairness

-----------------------------------------------------------------------------
(* Properties.                                                             *)

(* Every variable has its type, and a restore that is past StartReceive    *)
(* has an archive in its hands.                                            *)
TypeOK ==
  /\ store \in [Timestamps -> Record \cup {None}]
  /\ root \in [Timestamps -> {"absent", "partial", "whole", "wrong"}]
  /\ pc \in [Restores -> {"idle", "walk", "apply", "receive", "stream", "complete"}]
  /\ request \in [Restores -> Requests \cup {None}]
  /\ meta \in [Restores -> [Timestamps -> Record \cup {None}]]
  /\ targets \in [Restores -> SUBSET Timestamps]
  /\ unwalked \in [Restores -> SUBSET Timestamps]
  /\ at \in [Restores -> Timestamps \cup {None}]
  /\ steps \in [Restores -> SUBSET Timestamps]
  /\ pre_existing \in [Restores -> SUBSET Timestamps]
  /\ received \in [Restores -> SUBSET Timestamps]
  /\ fails \in 0 .. MaxFails
  /\ \A r \in Restores : pc[r] \in {"receive", "stream"} => at[r] \in Timestamps

(* "parents are always older, so chronological order = valid apply order"  *)
(* (restore.rs:116): when an incremental archive is about to be received,  *)
(* its parent is in --root, received before it or found there.             *)
ParentFirst ==
  \A r \in Restores :
    pc[r] \in {"receive", "stream"} /\ IsIncremental(meta[r], at[r]) =>
      root[meta[r][at[r]].parent] # "absent"

(* A restore receives nothing but its targets and the archives other steps *)
(* of it are built on.                                                     *)
Needed(r, t) ==
  \/ t \in targets[r]
  \/ \E u \in steps[r] \cup received[r] \cup pre_existing[r] \cup {at[r]} :
       u \in Archives(meta[r]) /\ meta[r][u].parent = t
NeededOnly ==
  \A r \in Restores :
    pc[r] # "idle" => \A t \in steps[r] \cup received[r] : Needed(r, t)

(* As long as no stored chunk is damaged, a restore that reports "restore  *)
(* complete" leaves every target in --root as it was in the source         *)
(* (restore.rs:143-150, 189-225).                                          *)
RestoreDelivers ==
  (\A t \in Stored : store[t].stream = "whole") =>
    \A r \in Restores :
      pc[r] = "complete" => \A t \in targets[r] : root[t] = "whole"

(* A restore ends: the parent chains it walks are not circular, and each   *)
(* of its steps is received, skipped or refused.                           *)
RestoreEnds == \A r \in Restores : pc[r] # "idle" ~> pc[r] = "idle"

=============================================================================
