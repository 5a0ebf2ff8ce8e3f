---------------------------- MODULE ReceiveStream ----------------------------
(***************************************************************************)
(* One call of restore_archive (executor/impl.rs): bbkar reads the chunk   *)
(* files of an archive one after the other (ChunkStreamReader,             *)
(* executor/read_dest.rs), copies the stream to the stdin of `btrfs        *)
(* receive`, closes it, reads stderr, and waits for the exit status.       *)
(*                                                                         *)
(* Amounts are counted in units, as in SendStream; the decoder is taken to *)
(* give a unit for a unit.  A unit is known by its place in the stream.    *)
(*                                                                         *)
(* A definition that carries the name of the one after it with a suffix is *)
(* a mistake that a property must notice.                                  *)
(***************************************************************************)
EXTENDS Integers, Sequences

CONSTANTS
  Ends,          \* the unit each recorded chunk ends with
  InCap,         \* capacity of the stdin pipe
  ErrCap,        \* capacity of the stderr pipe
  ErrOutput,     \* the most btrfs receive writes to stderr
  MaxRead        \* the buffer of io::copy

Start(i) == IF i = 1 THEN 0 ELSE Ends[i - 1]
Total == Ends[Len(Ends)]

(* A chunk is opened for a write, so it is not empty (SendStream).         *)
ASSUME EndsAssumption ==
  /\ Ends \in Seq(Nat) /\ Ends # << >>
  /\ \A i \in 1 .. Len(Ends) : 0 < Ends[i]
  /\ \A i, j \in 1 .. Len(Ends) : i < j => Ends[i] < Ends[j]

ASSUME CapacityAssumption ==
  /\ {InCap, ErrCap, MaxRead} \subseteq Nat \ {0}
  /\ ErrOutput \in Nat

(* btrfs receive prints a line per subvolume, and one per error; a pipe    *)
(* holds 64 KiB.                                                           *)
ASSUME StderrAssumption == ErrOutput <= ErrCap

VARIABLES
  child,         \* btrfs receive: "work", blocked in "in" or "err", "eof", "exited"
  status,        \* how it exited: "none", "zero" or "other"
  applied,       \* units it has received
  complaints,    \* units it has written to stderr
  err,           \* what is in the stderr pipe
  bb,            \* what bbkar does next
  stdin_open,    \* bbkar has not dropped stdin
  current_idx,   \* chunks loaded
  pos, limit,    \* current_cursor: the last unit read of it, and its end
  got,           \* the units ChunkStreamReader has returned
  written        \* how many of them are in the stdin pipe, or were

process == <<child, status, applied, complaints>>
reader == <<current_idx, pos, limit, got>>
vars == <<process, err, bb, stdin_open, reader, written>>

Init ==
  /\ child = "work" /\ status = "none" /\ applied = 0 /\ complaints = 0
  /\ err = 0
  /\ bb = "copy" /\ stdin_open = TRUE
  /\ current_idx = 0 /\ pos = 0 /\ limit = 0 /\ got = << >>
  /\ written = 0

Ended == bb \in {"ok", "failed"}

-----------------------------------------------------------------------------
(* btrfs receive.                                                          *)

ChildWaitsFor(c) ==
  /\ child = "work"
  /\ c = "err" => complaints < ErrOutput
  /\ child' = c
  /\ UNCHANGED <<status, applied, complaints, err, bb, stdin_open, reader, written>>

ChildIn ==
  /\ child = "in"
  /\ applied < written
  /\ applied' = applied + 1
  /\ child' = "work"
  /\ UNCHANGED <<status, complaints, err, bb, stdin_open, reader, written>>

ChildEof ==
  /\ child = "in"
  /\ applied = written /\ ~stdin_open
  /\ child' = "eof"
  /\ UNCHANGED <<status, applied, complaints, err, bb, stdin_open, reader, written>>

(* bbkar keeps its end of stderr open until it has failed.                 *)
ChildErr ==
  /\ child = "err"
  /\ ~Ended
  /\ err < ErrCap
  /\ err' = err + 1
  /\ complaints' = complaints + 1
  /\ child' = "work"
  /\ UNCHANGED <<status, applied, bb, stdin_open, reader, written>>

(* It gives up at any time, or is killed by a write to a closed pipe; it   *)
(* reports success only when it has seen the end of its input.             *)
ChildExit(s) ==
  /\ \/ child \in {"work", "eof"}
     \/ child = "err" /\ Ended
  /\ s = "zero" => child = "eof"
  /\ child' = "exited"
  /\ status' = s
  /\ UNCHANGED <<applied, complaints, err, bb, stdin_open, reader, written>>

-----------------------------------------------------------------------------
(* ChunkStreamReader.  bbkar reads when it has written what it has read.   *)

Reading == bb = "copy" /\ written = Len(got)

LoadNextChunkSkipping ==
  /\ Reading
  /\ pos = limit /\ current_idx < Len(Ends)
  /\ current_idx' = IF current_idx + 2 <= Len(Ends) THEN current_idx + 2 ELSE current_idx + 1
  /\ pos' = Start(current_idx')
  /\ limit' = Ends[current_idx']
  /\ UNCHANGED <<process, err, bb, stdin_open, got, written>>

LoadNextChunk ==
  /\ Reading
  /\ pos = limit /\ current_idx < Len(Ends)
  /\ current_idx' = current_idx + 1
  /\ pos' = Start(current_idx + 1)
  /\ limit' = Ends[current_idx + 1]
  /\ UNCHANGED <<process, err, bb, stdin_open, got, written>>

Units(from, n) == [i \in 1 .. n |-> from + i]

ReadChunkUntruncated(n) ==
  /\ Reading
  /\ n <= limit - pos
  /\ pos' = pos + MaxRead
  /\ got' = got \o Units(pos, MaxRead)
  /\ UNCHANGED <<process, err, bb, stdin_open, current_idx, limit, written>>

ReadChunk(n) ==
  /\ Reading
  /\ n <= limit - pos
  /\ pos' = pos + n
  /\ got' = got \o Units(pos, n)
  /\ UNCHANGED <<process, err, bb, stdin_open, current_idx, limit, written>>

-----------------------------------------------------------------------------
(* restore_archive.                                                        *)

WriteIn(n) ==
  /\ bb = "copy"
  /\ child # "exited"
  /\ n <= Len(got) - written
  /\ written + n - applied <= InCap
  /\ written' = written + n
  /\ UNCHANGED <<process, err, bb, stdin_open, reader>>

(* "btrfs receive closed stdin early": copy ends as if all were written.   *)
BrokenPipeRetried ==
  /\ bb = "copy" /\ written < Len(got)
  /\ child = "exited"
  /\ UNCHANGED vars

BrokenPipe ==
  /\ bb = "copy" /\ written < Len(got)
  /\ child = "exited"
  /\ bb' = "stderr"
  /\ stdin_open' = FALSE
  /\ UNCHANGED <<process, err, reader, written>>

(* The reader has no more chunks; stdin is dropped.                        *)
EndCopyKeepingStdin ==
  /\ Reading
  /\ pos = limit /\ current_idx = Len(Ends)
  /\ bb' = "stderr"
  /\ UNCHANGED <<process, err, stdin_open, reader, written>>

EndCopy ==
  /\ Reading
  /\ pos = limit /\ current_idx = Len(Ends)
  /\ bb' = "stderr"
  /\ stdin_open' = FALSE
  /\ UNCHANGED <<process, err, reader, written>>

ReadErr ==
  /\ bb = "stderr"
  /\ err > 0
  /\ err' = 0
  /\ UNCHANGED <<process, bb, stdin_open, reader, written>>

(* stderr has ended, and the status decides.                               *)
WaitChildAnyStatus ==
  /\ bb = "stderr"
  /\ err = 0 /\ child = "exited"
  /\ bb' = "ok"
  /\ UNCHANGED <<process, err, stdin_open, reader, written>>

WaitChild ==
  /\ bb = "stderr"
  /\ err = 0 /\ child = "exited"
  /\ bb' = IF status = "zero" THEN "ok" ELSE "failed"
  /\ UNCHANGED <<process, err, stdin_open, reader, written>>

(* A chunk cannot be read or decoded, or the wait fails: bbkar returns the *)
(* error, which closes both pipes, and does not wait for btrfs receive.    *)
Fail ==
  /\ ~Ended
  /\ bb' = "failed"
  /\ stdin_open' = FALSE
  /\ UNCHANGED <<process, err, reader, written>>

-----------------------------------------------------------------------------
Child ==
  \/ \E c \in {"in", "err"} : ChildWaitsFor(c)
  \/ ChildIn \/ ChildEof \/ ChildErr
  \/ \E s \in {"zero", "other"} : ChildExit(s)

Bbkar ==
  \/ LoadNextChunk
  \/ \E n \in 1 .. MaxRead : ReadChunk(n)
  \/ \E n \in 1 .. MaxRead : WriteIn(n)
  \/ BrokenPipe \/ EndCopy \/ ReadErr \/ WaitChild

Stopped == Ended /\ child = "exited" /\ UNCHANGED vars

Next == Child \/ Bbkar \/ Fail \/ Stopped

Spec == Init /\ [][Next]_vars

(* The kernel lets both processes go on while they can.                    *)
Fairness == WF_vars(Child) /\ WF_vars(Bbkar)
FairSpec == Spec /\ Fairness

-----------------------------------------------------------------------------
(* Properties.                                                             *)

(* Every variable has its type.                                            *)
TypeOK ==
  /\ child \in {"work", "in", "err", "eof", "exited"}
  /\ status \in {"none", "zero", "other"}
  /\ applied \in 0 .. Total
  /\ complaints \in 0 .. ErrOutput
  /\ err \in 0 .. ErrCap
  /\ bb \in {"copy", "stderr", "ok", "failed"}
  /\ stdin_open \in BOOLEAN
  /\ current_idx \in 0 .. Len(Ends)
  /\ {limit, written} \subseteq 0 .. Total
  /\ pos \in 0 .. limit
  /\ got \in Seq(1 .. Total)

(* ChunkStreamReader returns the units of the stream in their order, with  *)
(* none left out or repeated where a chunk ends.                           *)
InOrder == \A i \in 1 .. Len(got) : got[i] = i

(* restore_archive returns Ok only if btrfs receive has taken the whole    *)
(* stream and has not complained, although a broken pipe is swallowed.     *)
OkMeansWhole ==
  bb = "ok" => applied = Total /\ Len(got) = Total /\ status = "zero"

(* bbkar and btrfs receive never wait for each other.                      *)
BbkarWaits ==
  /\ child # "exited"
  /\ \/ bb = "copy" /\ written < Len(got) /\ written - applied = InCap
     \/ bb = "stderr" /\ err = 0
ChildWaits ==
  \/ child = "in" /\ applied = written /\ stdin_open
  \/ child = "err" /\ ~Ended /\ err = ErrCap
NoMutualWait == ~(BbkarWaits /\ ChildWaits)

(* The call returns, and btrfs receive ends, also when one of them gives   *)
(* up half-way.                                                            *)
TransferEnds == <>(Ended /\ child = "exited")

=============================================================================
