---------------------------- MODULE MCSyncDriver -----------------------------
(***************************************************************************)
(* An instance of SyncDriver for TLC.                                      *)
(***************************************************************************)
EXTENDS SyncDriver

(* A full stream has twice as many bytes as the number of its snapshot, an *)
(* incremental one as many as the numbers differ.                          *)
Bytes == [t \in Snaps |-> [p \in Snaps \cup {None} |-> IF p = None THEN 2 * t ELSE t - p]]

-----------------------------------------------------------------------------
(* Volumes and their snapshots.                                            *)

VolA == <<"a">>
VolAA == <<"a", "a">>
VolAdotB == <<"a", ".", "b">>
VolAdot == <<"a", ".">>
VolAAB == <<"a", "a", "b">>
VolB == <<"b">>
Of(v, T) == {[volume |-> v, snap |-> t] : t \in T}
BadSuffix(v) == [volume |-> v, snap |-> None]

(* Configurations.                                                         *)

Global == [compression |-> None, max_backup_chunk_size |-> None,
           btrfs_send_concurrency |-> None, write_archive_concurrency |-> None]
LocalDest == [driver |-> "local", absolute |-> TRUE, blank |-> FALSE]
SyncSpec == [source |-> "src", dest |-> "dst", filter |-> None,
             min_full_send_interval |-> None, max_incremental_depth |-> None,
             archive_preserve_min |-> None, archive_preserve |-> None,
             preserve_day_of_week |-> None]
File == [global |-> Global, source |-> [src |-> [filter |-> None]],
         dest |-> [dst |-> LocalDest], sync |-> [main |-> SyncSpec]]

Days(n) == [number |-> n, unit |-> "d"]
Strict == [File EXCEPT !.sync.main.max_incremental_depth = 2]
Filtered == [File EXCEPT !.source.src.filter = {<<"a">>, <<"a", "*">>},
                         !.sync.main.filter = {<<"a">>, <<"?", "*", "b">>},
                         !.sync.main.min_full_send_interval = Days(2)]
Exact == [File EXCEPT !.sync.main.filter = {<<"a">>}]

(* Files that are refused: a rule broken in each.                          *)
Refusals ==
  {[File EXCEPT !.global.compression = "gzip"],
   [File EXCEPT !.global.max_backup_chunk_size = 0],
   [File EXCEPT !.global.max_backup_chunk_size = 2049],
   [File EXCEPT !.global.btrfs_send_concurrency = 2],
   [File EXCEPT !.dest.dst.absolute = FALSE],
   [File EXCEPT !.dest.dst = [driver |-> "s3", absolute |-> FALSE, blank |-> TRUE]],
   [File EXCEPT !.sync.main.source = "other"],
   [File EXCEPT !.sync.main.dest = "other"],
   [File EXCEPT !.sync = [main |-> SyncSpec, second |-> SyncSpec]],
   [File EXCEPT !.sync.main.min_full_send_interval = [number |-> Star, unit |-> "d"]],
   [File EXCEPT !.sync.main.min_full_send_interval = [number |-> 1, unit |-> "h"]],
   [File EXCEPT !.sync.main.max_incremental_depth = 0],
   [File EXCEPT !.sync.main.archive_preserve_min = [number |-> NotANumber, unit |-> "d"]],
   [File EXCEPT !.sync.main.archive_preserve = <<Days(Star), [number |-> 1, unit |-> "h"]>>],
   [File EXCEPT !.sync.main.preserve_day_of_week = "someday"],
   None}

(* Files that are accepted although they come close.                       *)
Accepts ==
  {[File EXCEPT !.global.max_backup_chunk_size = 2048],
   [File EXCEPT !.dest.dst = [driver |-> "gcs", absolute |-> FALSE, blank |-> FALSE]],
   [File EXCEPT !.sync = <<>>],
   [File EXCEPT !.sync.main.max_incremental_depth = 1,
                !.sync.main.min_full_send_interval = [number |-> UMax, unit |-> "y"],
                !.sync.main.archive_preserve_min = Days(7),
                !.sync.main.archive_preserve = <<Days(30), [number |-> Star, unit |-> "y"]>>,
                !.sync.main.preserve_day_of_week = "monday"]}

-----------------------------------------------------------------------------
Root == [root |-> TRUE, tty |-> FALSE, timeout |-> 1, nopasswd |-> "nothing"]
Desktop == [root |-> FALSE, tty |-> TRUE, timeout |-> 2, nopasswd |-> "nothing"]
Server == [root |-> FALSE, tty |-> FALSE, timeout |-> 1, nopasswd |-> "everything"]
BtrfsOnly == [root |-> FALSE, tty |-> FALSE, timeout |-> 1, nopasswd |-> "btrfs"]
SudoUsers ==
  {Server, BtrfsOnly, [BtrfsOnly EXCEPT !.tty = TRUE]}
    \cup {[Desktop EXCEPT !.timeout = n] : n \in 0 .. 2}

Plain == [file |-> File, name |-> None, commands |-> {"run"}, user |-> Root,
          now |-> Of(VolA, {1}), later |-> {}, broken |-> {}, restored |-> {}]

(* What the commands say, over two volumes of which one grows.             *)
Saying == [Plain EXCEPT !.commands = {"run", "dryrun", "measure", "ls", "status"},
                        !.file = Strict,
                        !.now = Of(VolA, {1, 2}) \cup Of(VolB, {3}),
                        !.later = Of(VolA, {3})]

(* Filters, and names that begin alike.                                    *)
Names == [Plain EXCEPT !.commands = {"run", "ls", "ls_restore"},
                       !.name = "main",
                       !.now = Of(VolA, {1}) \cup Of(VolAA, {1}) \cup Of(VolAdotB, {2})
                                 \cup {BadSuffix(VolB)},
                       !.restored = Of(VolA, {2}) \cup Of(VolAdotB, {1, 2})
                                      \cup Of(VolAdot, {1})
                                      \cup {BadSuffix(v) : v \in {VolA, VolAA, VolB}}]
NamesOf(file) == [Names EXCEPT !.file = file]

(* Every pattern of up to three characters.                                *)
Patterns == UNION {[1 .. n -> {"a", "b", "*", "?"}] : n \in 0 .. 3}
Matching(p) == [Plain EXCEPT !.commands = {"ls"},
                             !.file.source.src.filter = {p},
                             !.now = UNION {Of(v, {1}) : v \in {VolA, VolB, VolAA, VolAAB, VolAdotB}}]

(* A volume whose metadata cannot be read.                                 *)
Breaking == [Plain EXCEPT !.now = Of(VolA, {1}) \cup Of(VolAA, {1, 2}) \cup Of(VolB, {1}),
                          !.later = Of(VolB, {2}),
                          !.broken = {VolA}]

(* Full sends every second day; and 1001 days, a number that does not fit. *)
Limiting(x) == [Plain EXCEPT !.file.sync.main.min_full_send_interval = x,
                             !.now = Of(VolA, {1, 2}),
                             !.later = Of(VolA, {3})]

(* Users who need sudo.                                                    *)
SudoOf(u) == [Plain EXCEPT !.user = u, !.now = Of(VolA, {1, 2, 3})]

Unnamed(file) == [Plain EXCEPT !.commands = {"run", "ls_restore"}, !.file = file]

AllSettings ==
  {Saying, Breaking, [Plain EXCEPT !.name = "other"]}
    \cup {NamesOf(f) : f \in {File, Filtered, Exact}}
    \cup {SudoOf(u) : u \in SudoUsers}
    \cup {Limiting(x) : x \in {Days(2), [number |-> 143, unit |-> "w"]}}
    \cup {Matching(p) : p \in Patterns}
    \cup {Unnamed(f) : f \in Refusals \cup Accepts}

=============================================================================
