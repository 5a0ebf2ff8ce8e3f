----------------------------- MODULE SendStream ------------------------------
(***************************************************************************)
(* One call of write_subvolume: `btrfs send` writes to two pipes, and      *)
(* bbkar, which has one thread, reads them (executor/btrfs_send.rs),       *)
(* compresses what it reads (executor/compress.rs) and cuts the result     *)
(* into chunk files (ChunkedWriter, executor/write_dest.rs).               *)
(*                                                                         *)
(* Amounts are counted in units.  The encoder is taken to emit a unit for  *)
(* a unit, when it likes, and one more at the end of its frame.            *)
(*                                                                         *)
(* A definition that carries the name of the one after it with a suffix is *)
(* a mistake that a property must notice.                                  *)
(***************************************************************************)
EXTENDS Integers, Sequences

CONSTANTS
  Length,        \* the stream, if btrfs send reaches its end
  OutCap,        \* capacity of the stdout pipe
  ErrCap,        \* capacity of the stderr pipe
  ErrOutput,     \* the most btrfs send writes to stderr
  MaxRead,       \* READ_BUF_SIZE
  MaxWrite,      \* the largest buffer the encoder hands on
  MaxChunk       \* max_chunk_bytes

ASSUME SizesAssumption ==
  /\ {Length, ErrOutput} \subseteq Nat
  /\ {OutCap, ErrCap, MaxRead, MaxWrite, MaxChunk} \subseteq Nat \ {0}

(* `btrfs send` without -v prints a line per subvolume, and one per error; *)
(* a pipe holds 64 KiB.                                                    *)
ASSUME StderrAssumption == ErrOutput <= ErrCap

VARIABLES
  child,         \* btrfs send: "work", blocked in "out" or "err", or "exited"
  left,          \* units of the stream it has not written
  complaints,    \* units it has written to stderr
  out, err,      \* what is in the pipes
  bb,            \* what bbkar does next
  held,          \* units the encoder has taken and not emitted
  raw,           \* raw_counter
  raw_at_roll,   \* raw_at_last_roll
  emitted,       \* units ChunkedWriter.write has accepted
  files,         \* the chunk files: the first unit and the number of units
  is_open,       \* current_file.is_some()
  written_chunks \* part, size and raw_size of every recorded chunk

pipes == <<child, left, complaints, out, err>>
writer == <<emitted, files, is_open, written_chunks>>
vars == <<pipes, bb, held, raw, raw_at_roll, writer>>

Init ==
  /\ child = "work" /\ left = Length /\ complaints = 0
  /\ out = 0 /\ err = 0
  /\ bb = "read"
  /\ held = 0 /\ raw = 0 /\ raw_at_roll = 0
  /\ emitted = 0 /\ files = << >> /\ is_open = FALSE /\ written_chunks = << >>

Ended == bb \in {"done", "failed"}

-----------------------------------------------------------------------------
(* btrfs send.  A call of write(2) blocks while the pipe is full, and      *)
(* kills the process once bbkar has closed the other end.                  *)

ChildWrites ==
  /\ child = "work"
  /\ \/ left > 0 /\ child' = "out"
     \/ complaints < ErrOutput /\ child' = "err"
  /\ UNCHANGED <<left, complaints, out, err, bb, held, raw, raw_at_roll, writer>>

ChildOut ==
  /\ child = "out"
  /\ ~Ended
  /\ out < OutCap
  /\ out' = out + 1
  /\ left' = left - 1
  /\ child' = "work"
  /\ UNCHANGED <<complaints, err, bb, held, raw, raw_at_roll, writer>>

ChildErr ==
  /\ child = "err"
  /\ ~Ended
  /\ err < ErrCap
  /\ err' = err + 1
  /\ complaints' = complaints + 1
  /\ child' = "work"
  /\ UNCHANGED <<left, out, bb, held, raw, raw_at_roll, writer>>

(* At the end of the stream, or earlier with a non-zero status.            *)
ChildExit ==
  /\ child # "exited"
  /\ child = "work" \/ Ended
  /\ child' = "exited"
  /\ UNCHANGED <<left, complaints, out, err, bb, held, raw, raw_at_roll, writer>>

-----------------------------------------------------------------------------
(* BtrfsSendIterator.next and CompressSession.process_all                  *)

TakeUntruncated(n) ==
  /\ out' = out - n
  /\ raw' = raw + MaxRead
  /\ held' = held + MaxRead

Take(n) ==
  /\ out' = out - n
  /\ raw' = raw + n
  /\ held' = held + n

ReadOutAfterExit(n) ==
  /\ bb = "read"
  /\ child = "exited"
  /\ n <= out
  /\ Take(n)
  /\ bb' = "compress"
  /\ UNCHANGED <<child, left, complaints, err, raw_at_roll, writer>>

ReadOut(n) ==
  /\ bb = "read"
  /\ n <= out
  /\ Take(n)
  /\ bb' = "compress"
  /\ UNCHANGED <<child, left, complaints, err, raw_at_roll, writer>>

EofWhenEmpty ==
  /\ bb = "read"
  /\ out = 0
  /\ bb' = "stderr"
  /\ UNCHANGED <<pipes, held, raw, raw_at_roll, writer>>

Eof ==
  /\ bb = "read"
  /\ out = 0
  /\ child = "exited"
  /\ bb' = "stderr"
  /\ UNCHANGED <<pipes, held, raw, raw_at_roll, writer>>

(* write_all has handed on what the encoder did not want to keep.          *)
NextChunk ==
  /\ bb = "compress"
  /\ bb' = "read"
  /\ UNCHANGED <<pipes, held, raw, raw_at_roll, writer>>

ReadErr ==
  /\ bb = "stderr"
  /\ err > 0
  /\ err' = 0
  /\ UNCHANGED <<child, left, complaints, out, bb, held, raw, raw_at_roll, writer>>

(* stderr ends, child.wait() returns a status, and encoder.finish() ends   *)
(* the frame whatever the status is.                                       *)
WaitChild ==
  /\ bb = "stderr"
  /\ err = 0
  /\ child = "exited"
  /\ held' = held + 1
  /\ bb' = "finish"
  /\ UNCHANGED <<pipes, raw, raw_at_roll, writer>>

-----------------------------------------------------------------------------
(* ChunkedWriter                                                           *)

Last(s) == s[Len(s)]
Current == IF files = << >> THEN 0 ELSE Last(files).size

(* finalize_current records the chunk that is open, if there is one.       *)
FinalizeKeepingRaw ==
  /\ written_chunks' = IF is_open
       THEN Append(written_chunks,
                   [part |-> Len(files), size |-> Current, raw |-> raw - raw_at_roll])
       ELSE written_chunks
  /\ raw_at_roll' = raw_at_roll

Finalize ==
  /\ written_chunks' = IF is_open
       THEN Append(written_chunks,
                   [part |-> Len(files), size |-> Current, raw |-> raw - raw_at_roll])
       ELSE written_chunks
  /\ raw_at_roll' = IF is_open THEN raw ELSE raw_at_roll

(* The limit is compared before the buffer is written.                     *)
IsFullLate == is_open /\ Current > MaxChunk
IsFull == is_open /\ Current >= MaxChunk

(* roll_next opens the file of the next part number, with n units.         *)
RollNextSamePart(n) ==
  /\ Finalize
  /\ files' = Append(IF files = << >> THEN files ELSE SubSeq(files, 1, Len(files) - 1),
                     [from |-> emitted, size |-> n])
  /\ is_open' = TRUE

RollNext(n) ==
  /\ Finalize
  /\ files' = Append(files, [from |-> emitted, size |-> n])
  /\ is_open' = TRUE

AppendToFile(n) ==
  /\ files' = [files EXCEPT ![Len(files)].size = @ + n]
  /\ UNCHANGED <<is_open, written_chunks, raw_at_roll>>

(* The file takes n units of the encoder's buffer; it need not take all.   *)
Write(n) ==
  /\ bb \in {"compress", "finish"}
  /\ n <= held
  /\ held' = held - n
  /\ IF is_open /\ ~IsFull THEN AppendToFile(n) ELSE RollNext(n)
  /\ emitted' = emitted + n
  /\ UNCHANGED <<pipes, bb, raw>>

Finish ==
  /\ bb = "finish"
  /\ held = 0
  /\ Finalize
  /\ is_open' = FALSE
  /\ bb' = "done"
  /\ UNCHANGED <<pipes, held, raw, emitted, files>>

(* An error of a read, of opening a chunk, of writing or closing it; the   *)
(* pipes are closed when the iterator is dropped.                          *)
Fail ==
  /\ ~Ended
  /\ bb' = "failed"
  /\ UNCHANGED <<pipes, held, raw, raw_at_roll, writer>>

-----------------------------------------------------------------------------
Child == ChildWrites \/ ChildOut \/ ChildErr \/ ChildExit

Bbkar ==
  \/ \E n \in 1 .. MaxRead : ReadOut(n)
  \/ Eof \/ NextChunk \/ ReadErr \/ WaitChild
  \/ \E n \in 1 .. MaxWrite : Write(n)
  \/ Finish

Stopped == Ended /\ child = "exited" /\ UNCHANGED vars

Next == Child \/ Bbkar \/ Fail \/ Stopped

Spec == Init /\ [][Next]_vars

(* The kernel lets both processes go on while they can.                    *)
Fairness == WF_vars(Child) /\ WF_vars(Bbkar)
FairSpec == Spec /\ Fairness

-----------------------------------------------------------------------------
(* Properties.                                                             *)

(* Every variable has its type.                                            *)
TypeOK ==
  /\ child \in {"work", "out", "err", "exited"}
  /\ left \in 0 .. Length
  /\ complaints \in 0 .. ErrOutput
  /\ out \in 0 .. OutCap
  /\ err \in 0 .. ErrCap
  /\ bb \in {"read", "compress", "stderr", "finish", "done", "failed"}
  /\ {raw, raw_at_roll} \subseteq 0 .. Length
  /\ {held, emitted} \subseteq 0 .. Length + 1
  /\ files \in Seq([from : Nat, size : Nat])
  /\ is_open \in BOOLEAN
  /\ written_chunks \in Seq([part : Nat, size : Nat, raw : Nat])

(* The files of the recorded chunks, read one after the other as           *)
(* ChunkStreamReader does (read_dest.rs:11-14), are what the encoder       *)
(* emitted, and that is all that btrfs send wrote: nothing is lost,        *)
(* repeated or out of place at a roll, a partial write or the end.         *)
Covers(n) ==
  /\ Len(written_chunks) = Len(files)
  /\ \A i \in 1 .. Len(files) :
       /\ written_chunks[i].part = i
       /\ written_chunks[i].size = files[i].size
       /\ files[i].from + files[i].size = IF i = Len(files) THEN n ELSE files[i + 1].from
  /\ files # << >> /\ files[1].from = 0
ReadsBack == bb = "done" => Covers(Length - left + 1)

(* A chunk exceeds max_chunk_bytes by less than one write of the encoder.  *)
ChunkBounded == \A i \in 1 .. Len(files) : files[i].size < MaxChunk + MaxWrite

(* The raw sizes of the recorded chunks add up to what was read, although  *)
(* the encoder lags behind (total_raw_size, model/dest.rs:116).            *)
RawTotal[n \in 0 .. Len(written_chunks)] ==
  IF n = 0 THEN 0 ELSE RawTotal[n - 1] + written_chunks[n].raw
RawSizesAddUp == bb = "done" => RawTotal[Len(written_chunks)] = raw

(* bbkar and btrfs send never wait for each other.                         *)
BbkarWaits ==
  /\ child # "exited"
  /\ \/ bb = "read" /\ out = 0
     \/ bb = "stderr" /\ err = 0
ChildWaits ==
  /\ ~Ended
  /\ \/ child = "out" /\ out = OutCap
     \/ child = "err" /\ err = ErrCap
NoMutualWait == ~(BbkarWaits /\ ChildWaits)

(* The transfer ends, and so does btrfs send, also when bbkar gives up.    *)
TransferEnds == <>(Ended /\ child = "exited")

=============================================================================
