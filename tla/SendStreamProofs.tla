-------------------------- MODULE SendStreamProofs ---------------------------
(***************************************************************************)
(* Proofs about SendStream, for every length of the stream, every capacity *)
(* and every chunk limit.                                                  *)
(***************************************************************************)
EXTENDS SendStream, Recursion, SequenceTheorems, TLAPS

Chunk == [from : Nat, size : Nat]
Entry == [part : Nat, size : Nat, raw : Nat]

(* No unit disappears between btrfs send and the files, and who may be     *)
(* blocked where.                                                          *)
Amounts ==
  /\ left + out + raw = Length
  /\ held + emitted <= raw + 1
  /\ bb \in {"read", "compress", "stderr"} => held + emitted = raw
  /\ bb \in {"finish", "done"} => held + emitted = raw + 1
  /\ bb = "done" => held = 0
  /\ raw_at_roll <= raw
  /\ err <= complaints
  /\ child = "err" => complaints < ErrOutput
  /\ child = "out" => left > 0
  /\ bb \in {"stderr", "finish", "done"} => child = "exited" /\ out = 0

(* The files follow each other, and all but the open one are recorded.     *)
Layout ==
  /\ Len(files) = Len(written_chunks) + (IF is_open THEN 1 ELSE 0)
  /\ ~is_open /\ bb # "done" => files = << >>
  /\ bb = "done" => ~is_open
  /\ \A i \in 1 .. Len(written_chunks) :
       written_chunks[i].part = i /\ written_chunks[i].size = files[i].size
  /\ \A i \in 1 .. Len(files) :
       files[i].from + files[i].size = IF i = Len(files) THEN emitted ELSE files[i + 1].from
  /\ IF files = << >> THEN emitted = 0 ELSE files[1].from = 0

Inv == TypeOK /\ Amounts /\ Layout /\ ChunkBounded

-----------------------------------------------------------------------------
(* Sequences.                                                              *)

(* A file grows without moving.                                            *)
LEMMA GrownFile ==
  ASSUME NEW s \in Seq(Chunk), s # << >>, NEW n \in Nat,
         NEW g, g = [s EXCEPT ![Len(s)].size = @ + n]
  PROVE  /\ g \in Seq(Chunk)
         /\ Len(g) = Len(s)
         /\ \A i \in 1 .. Len(s) :
              /\ g[i].from = s[i].from
              /\ g[i].size = IF i = Len(s) THEN s[i].size + n ELSE s[i].size
<1> DEFINE l == s[Len(s)]
<1> DEFINE c == [l EXCEPT !.size = @ + n]
<1>1. Len(s) \in 1 .. Len(s) /\ l \in Chunk
  <2>1. Len(s) \in Nat /\ Len(s) # 0 /\ s \in [1 .. Len(s) -> Chunk]
    BY EmptySeq, LenProperties
  <2> QED
    BY <2>1
<1>2. c \in Chunk /\ c.from = l.from /\ c.size = l.size + n
  <2> HIDE DEF l
  <2>1. l.from \in Nat /\ l.size \in Nat /\ l.size + n \in Nat
    BY <1>1 DEF Chunk
  <2>2. c = [from |-> l.from, size |-> l.size + n]
    BY <1>1 DEF Chunk
  <2> HIDE DEF c
  <2> QED
    BY <2>1, <2>2 DEF Chunk
<1>3. g = [s EXCEPT ![Len(s)] = c]
  OBVIOUS
<1> HIDE DEF c
<1> QED
  BY <1>1, <1>2, <1>3, ExceptSeq

LEMMA CurrentSize ==
  ASSUME TypeOK
  PROVE  /\ Len(files) \in Nat
         /\ Current \in Nat
         /\ files # << >> => Len(files) \in 1 .. Len(files) /\ Current = files[Len(files)].size
<1>1. Len(files) \in Nat
  BY LenProperties DEF TypeOK
<1>2. CASE files = << >>
  BY <1>1, <1>2 DEF Current
<1>3. CASE files # << >>
  <2>1. files \in Seq(Chunk)
    BY DEF TypeOK, Chunk
  <2>2. Len(files) # 0 /\ files \in [1 .. Len(files) -> Chunk]
    BY <1>3, <2>1, EmptySeq, LenProperties
  <2>3. Len(files) \in 1 .. Len(files) /\ files[Len(files)].size \in Nat
    BY <1>1, <2>2 DEF Chunk
  <2> QED
    BY <1>1, <1>3, <2>3 DEF Current, Last
<1> QED
  BY <1>2, <1>3

-----------------------------------------------------------------------------
(* What finalize_current records.                                          *)

LEMMA Finalized ==
  ASSUME TypeOK, Amounts, Finalize
  PROVE  /\ written_chunks' \in Seq(Entry)
         /\ raw_at_roll' \in 0 .. Length
         /\ raw_at_roll' <= raw
         /\ is_open => /\ Len(written_chunks') = Len(written_chunks) + 1
                       /\ \A i \in 1 .. Len(written_chunks) :
                            written_chunks'[i] = written_chunks[i]
                       /\ written_chunks'[Len(written_chunks) + 1].part = Len(files)
                       /\ written_chunks'[Len(written_chunks) + 1].size = Current
         /\ ~is_open => written_chunks' = written_chunks
<1> DEFINE e == [part |-> Len(files), size |-> Current, raw |-> raw - raw_at_roll]
<1>1. raw \in 0 .. Length /\ raw_at_roll \in 0 .. Length /\ raw_at_roll <= raw
  BY SizesAssumption DEF TypeOK, Amounts
<1>2. e \in Entry /\ e.part = Len(files) /\ e.size = Current
  BY <1>1, CurrentSize, SizesAssumption DEF Entry
<1>3. written_chunks' = IF is_open THEN Append(written_chunks, e) ELSE written_chunks
  BY DEF Finalize
<1>4. raw_at_roll' = IF is_open THEN raw ELSE raw_at_roll
  BY DEF Finalize
<1>5. written_chunks \in Seq(Entry) /\ is_open \in BOOLEAN
  BY DEF TypeOK, Entry
<1> HIDE DEF e
<1>6. /\ Append(written_chunks, e) \in Seq(Entry)
      /\ Len(Append(written_chunks, e)) = Len(written_chunks) + 1
      /\ \A i \in 1 .. Len(written_chunks) : Append(written_chunks, e)[i] = written_chunks[i]
      /\ Append(written_chunks, e)[Len(written_chunks) + 1] = e
  BY <1>2, <1>5, AppendProperties
<1>7. raw_at_roll' \in 0 .. Length /\ raw_at_roll' <= raw
  BY <1>1, <1>4, SizesAssumption
<1>8. CASE is_open
  BY <1>2, <1>3, <1>6, <1>7, <1>8
<1>9. CASE ~is_open
  BY <1>3, <1>5, <1>7, <1>9
<1> QED
  BY <1>8, <1>9

-----------------------------------------------------------------------------
(* The amounts.                                                            *)

Numbers ==
  /\ child \in {"work", "out", "err", "exited"}
  /\ left \in 0 .. Length
  /\ complaints \in 0 .. ErrOutput
  /\ out \in 0 .. OutCap
  /\ err \in 0 .. ErrCap
  /\ bb \in {"read", "compress", "stderr", "finish", "done", "failed"}
  /\ raw \in 0 .. Length
  /\ raw_at_roll \in 0 .. Length
  /\ held \in 0 .. Length + 1
  /\ emitted \in 0 .. Length + 1

Records ==
  /\ files \in Seq(Chunk)
  /\ is_open \in BOOLEAN
  /\ written_chunks \in Seq(Entry)

LEMMA TypeSplit == TypeOK <=> Numbers /\ Records
BY DEF TypeOK, Numbers, Records, Chunk, Entry

LEMMA SizesAre ==
  /\ Length \in Nat /\ ErrOutput \in Nat
  /\ OutCap \in Nat /\ ErrCap \in Nat /\ MaxRead \in Nat
  /\ MaxWrite \in Nat /\ MaxChunk \in Nat
  /\ OutCap > 0 /\ ErrCap > 0 /\ MaxRead > 0 /\ MaxWrite > 0 /\ MaxChunk > 0
  /\ ErrOutput <= ErrCap
BY SizesAssumption, StderrAssumption

LEMMA AmountsStep ==
  ASSUME TypeOK, Amounts, [Next]_vars
  PROVE  Numbers' /\ Amounts'
<1>0. Numbers
  BY TypeSplit
<1> USE SizesAre DEF pipes, writer, Ended
<1>1. CASE ChildWrites
  BY <1>0, <1>1 DEF ChildWrites, Numbers, Amounts
<1>2. CASE ChildOut
  BY <1>0, <1>2 DEF ChildOut, Numbers, Amounts
<1>3. CASE ChildErr
  BY <1>0, <1>3 DEF ChildErr, Numbers, Amounts
<1>4. CASE ChildExit
  BY <1>0, <1>4 DEF ChildExit, Numbers, Amounts
<1>5. ASSUME NEW n \in 1 .. MaxRead, ReadOut(n)
      PROVE  Numbers' /\ Amounts'
  BY <1>0, <1>5 DEF ReadOut, Take, Numbers, Amounts
<1>6. CASE Eof
  BY <1>0, <1>6 DEF Eof, Numbers, Amounts
<1>7. CASE NextChunk
  BY <1>0, <1>7 DEF NextChunk, Numbers, Amounts
<1>8. CASE ReadErr
  BY <1>0, <1>8 DEF ReadErr, Numbers, Amounts
<1>9. CASE WaitChild
  BY <1>0, <1>9 DEF WaitChild, Numbers, Amounts
<1>10. ASSUME NEW n \in 1 .. MaxWrite, Write(n)
       PROVE  Numbers' /\ Amounts'
  <2>1. raw_at_roll' \in 0 .. Length /\ raw_at_roll' <= raw
    <3>1. CASE is_open /\ ~IsFull
      BY <1>0, <1>10, <3>1 DEF Write, AppendToFile, Numbers, Amounts
    <3>2. CASE ~(is_open /\ ~IsFull)
      BY <1>10, <3>2, Finalized DEF Write, RollNext
    <3> QED
      BY <3>1, <3>2
  <2> QED
    BY <1>0, <1>10, <2>1 DEF Write, Numbers, Amounts
<1>11. CASE Finish
  <2>1. raw_at_roll' \in 0 .. Length /\ raw_at_roll' <= raw
    BY <1>11, Finalized DEF Finish
  <2> QED
    BY <1>0, <1>11, <2>1 DEF Finish, Numbers, Amounts
<1>12. CASE Fail
  BY <1>0, <1>12 DEF Fail, Numbers, Amounts
<1>13. CASE UNCHANGED vars
  BY <1>0, <1>13 DEF vars, Numbers, Amounts
<1> QED
  BY <1>1, <1>2, <1>3, <1>4, <1>5, <1>6, <1>7, <1>8, <1>9, <1>10, <1>11, <1>12, <1>13
     DEF Next, Child, Bbkar, Stopped

-----------------------------------------------------------------------------
(* The files.                                                              *)

Good == Records /\ Layout /\ ChunkBounded

LEMMA WriteKeepsLayout ==
  ASSUME Inv, NEW n \in 1 .. MaxWrite, Write(n)
  PROVE  Good'
<1> DEFINE m == Len(files)
<1> DEFINE w == Len(written_chunks)
<1>0. /\ Records /\ n \in Nat /\ n > 0 /\ n <= MaxWrite /\ MaxWrite \in Nat
      /\ MaxChunk \in Nat /\ MaxChunk > 0 /\ emitted \in Nat
      /\ m \in Nat /\ w \in Nat
      /\ m = w + (IF is_open THEN 1 ELSE 0)
      /\ Layout /\ ChunkBounded /\ TypeOK /\ Amounts
  BY TypeSplit, SizesAre, LenProperties DEF Inv, Layout, Records, Numbers
<1>1. emitted' = emitted + n /\ bb' = bb /\ bb \in {"compress", "finish"}
  BY DEF Write
<1>2. CASE is_open /\ ~IsFull
  <2>1. /\ files' = [files EXCEPT ![m].size = @ + n]
        /\ is_open' = TRUE /\ written_chunks' = written_chunks
    BY <1>2 DEF Write, AppendToFile
  <2>2. files # << >>
    BY <1>0, <1>2, EmptySeq
  <2>3. /\ files' \in Seq(Chunk) /\ Len(files') = m
        /\ \A i \in 1 .. m :
             /\ files'[i].from = files[i].from
             /\ files'[i].size = IF i = m THEN files[i].size + n ELSE files[i].size
    BY <1>0, <2>1, <2>2, GrownFile DEF Records
  <2>4. files[m].size < MaxChunk /\ m \in 1 .. m
    BY <1>0, <1>2, <2>2, CurrentSize DEF IsFull
  <2>5. files \in [1 .. m -> Chunk]
    BY <1>0, LenProperties DEF Records
  <2>6. \A i \in 1 .. m : files[i].from \in Nat /\ files[i].size \in Nat
    BY <2>5 DEF Chunk
  <2> HIDE DEF m, w
  <2>7. Records'
    BY <1>0, <2>1, <2>3 DEF Records
  <2>8. ChunkBounded'
    BY <1>0, <2>3, <2>4, <2>6 DEF ChunkBounded, m
  <2>9. Layout'
    <3> files' # << >>
      BY <1>0, <2>3, <2>4, EmptySeq
    <3>1. Len(files') = Len(written_chunks') + 1
      BY <1>0, <1>2, <2>1, <2>3 DEF w
    <3>2. \A i \in 1 .. w :
            written_chunks[i].part = i /\ written_chunks[i].size = files'[i].size
      BY <1>0, <1>2, <2>3 DEF Layout, w, m
    <3>3. \A i \in 1 .. m :
            files'[i].from + files'[i].size = IF i = m THEN emitted' ELSE files'[i + 1].from
      <4>1. ASSUME NEW i \in 1 .. m
            PROVE  files[i].from + files[i].size = IF i = m THEN emitted ELSE files[i + 1].from
        BY <1>0, <4>1 DEF Layout, m
      <4>2. files'[m].from + files'[m].size = emitted'
        <5>1. files[m].from \in Nat /\ files[m].size \in Nat
          BY <2>4, <2>6
        <5>2. files[m].from + files[m].size = emitted
          BY <2>4, <4>1
        <5>3. files'[m].from = files[m].from /\ files'[m].size = files[m].size + n
          BY <2>3, <2>4
        <5>4. emitted' = emitted + n /\ n \in Nat
          BY <1>0, <1>1
        <5>5. files[m].from + (files[m].size + n) = (files[m].from + files[m].size) + n
          BY <5>1, <5>4
        <5> QED
          BY <5>2, <5>3, <5>4, <5>5
      <4>3. ASSUME NEW i \in 1 .. m, i # m
            PROVE  files'[i].from + files'[i].size = files'[i + 1].from
        <5>1. i + 1 \in 1 .. m
          BY <1>0, <4>3
        <5>2. files[i].from + files[i].size = files[i + 1].from
          BY <4>1, <4>3
        <5> QED
          BY <2>3, <4>3, <5>1, <5>2
      <4> QED
        BY <4>2, <4>3
    <3>4. files'[1].from = 0
      BY <1>0, <2>2, <2>3, <2>4 DEF Layout
    <3> QED
      BY <1>1, <2>1, <2>3, <3>1, <3>2, <3>3, <3>4 DEF Layout, m, w
  <2> QED
    BY <2>7, <2>8, <2>9 DEF Good
<1>3. CASE ~(is_open /\ ~IsFull)
  <2> DEFINE f == [from |-> emitted, size |-> n]
  <2>1. Finalize /\ files' = Append(files, f) /\ is_open' = TRUE
    BY <1>3 DEF Write, RollNext
  <2>2. f \in Chunk /\ f.from = emitted /\ f.size = n
    BY <1>0 DEF Chunk
  <2> HIDE DEF f
  <2>3. /\ files' \in Seq(Chunk) /\ files' # << >> /\ Len(files') = m + 1
        /\ \A i \in 1 .. m : files'[i] = files[i]
        /\ files'[m + 1] = f
    BY <1>0, <2>1, <2>2, AppendProperties DEF Records
  <2>4. files \in [1 .. m -> Chunk]
    BY <1>0, LenProperties DEF Records
  <2>5. \A i \in 1 .. m : files[i].from \in Nat /\ files[i].size \in Nat
    BY <2>4 DEF Chunk
  <2>6. /\ written_chunks' \in Seq(Entry)
        /\ Len(written_chunks') = m
        /\ \A i \in 1 .. m : written_chunks'[i].part = i
                             /\ written_chunks'[i].size = files[i].size
    <3>1. CASE is_open
      <4>1. m \in 1 .. m /\ Current = files[m].size
        BY <1>0, <3>1, EmptySeq, CurrentSize
      <4>2. /\ written_chunks' \in Seq(Entry) /\ Len(written_chunks') = w + 1
            /\ \A i \in 1 .. w : written_chunks'[i] = written_chunks[i]
            /\ written_chunks'[w + 1].part = m
            /\ written_chunks'[w + 1].size = files[m].size
        BY <1>0, <2>1, <3>1, <4>1, Finalized
      <4>3. \A i \in 1 .. w :
              written_chunks[i].part = i /\ written_chunks[i].size = files[i].size
        BY <1>0 DEF Layout
      <4> HIDE DEF m, w
      <4> QED
        BY <1>0, <3>1, <4>1, <4>2, <4>3
    <3>2. CASE ~is_open
      <4>1. written_chunks' = written_chunks
        BY <1>0, <2>1, <3>2, Finalized
      <4> QED
        BY <1>0, <3>2, <4>1 DEF Layout, Records
    <3> QED
      BY <3>1, <3>2
  <2> HIDE DEF m, w
  <2>7. Records'
    BY <2>1, <2>3, <2>6 DEF Records
  <2>8. ChunkBounded'
    BY <1>0, <2>2, <2>3, <2>5 DEF ChunkBounded, m
  <2>9. Layout'
    <3>1. \A i \in 1 .. m + 1 :
            files'[i].from + files'[i].size
              = IF i = m + 1 THEN emitted + n ELSE files'[i + 1].from
      <4>1. ASSUME NEW i \in 1 .. m
            PROVE  files'[i].from + files'[i].size = files'[i + 1].from
        <5>1. files[i].from + files[i].size = IF i = m THEN emitted ELSE files[i + 1].from
          BY <1>0, <4>1 DEF Layout, m
        <5>2. CASE i = m
          BY <2>2, <2>3, <4>1, <5>1, <5>2
        <5>3. CASE i # m
          <6>1. i + 1 \in 1 .. m
            BY <1>0, <4>1, <5>3
          <6> QED
            BY <2>3, <4>1, <5>1, <5>3, <6>1
        <5> QED
          BY <5>2, <5>3
      <4>2. files'[m + 1].from + files'[m + 1].size = emitted + n
        BY <2>2, <2>3
      <4> QED
        BY <1>0, <4>1, <4>2
    <3>2. files'[1].from = 0
      <4>1. CASE files = << >>
        BY <1>0, <2>2, <2>3, <4>1, EmptySeq DEF Layout, m
      <4>2. CASE files # << >>
        <5>1. m \in Nat \ {0}
          BY <1>0, <4>2, EmptySeq DEF Records, m
        <5> QED
          BY <1>0, <2>3, <4>2, <5>1 DEF Layout
      <4> QED
        BY <4>1, <4>2
    <3>3. \A i \in 1 .. m : written_chunks'[i].part = i
                            /\ written_chunks'[i].size = files'[i].size
      BY <2>3, <2>6
    <3> QED
      BY <1>0, <1>1, <2>1, <2>3, <2>6, <3>1, <3>2, <3>3 DEF Layout
  <2> QED
    BY <2>7, <2>8, <2>9 DEF Good
<1> QED
  BY <1>2, <1>3

LEMMA FinishKeepsLayout ==
  ASSUME Inv, Finish
  PROVE  Good'
<1> DEFINE w == Len(written_chunks)
<1>0. /\ Records /\ TypeOK /\ Amounts /\ Layout /\ ChunkBounded
      /\ w \in Nat /\ Len(files) \in Nat
  BY TypeSplit, LenProperties DEF Inv, Records
<1>1. Finalize /\ is_open' = FALSE /\ bb' = "done" /\ files' = files /\ emitted' = emitted
  BY DEF Finish
<1>2. CASE is_open
  <2>1. Len(files) = w + 1 /\ files # << >>
    BY <1>0, <1>2, EmptySeq DEF Layout
  <2>2. Current = files[w + 1].size
    BY <1>0, <2>1, CurrentSize
  <2>3. /\ written_chunks' \in Seq(Entry) /\ Len(written_chunks') = w + 1
        /\ \A i \in 1 .. w : written_chunks'[i] = written_chunks[i]
        /\ written_chunks'[w + 1].part = w + 1
        /\ written_chunks'[w + 1].size = files[w + 1].size
    BY <1>0, <1>1, <1>2, <2>1, <2>2, Finalized
  <2>4. \A i \in 1 .. w :
          written_chunks[i].part = i /\ written_chunks[i].size = files[i].size
    BY <1>0 DEF Layout
  <2> HIDE DEF w
  <2>5. \A i \in 1 .. w + 1 :
          written_chunks'[i].part = i /\ written_chunks'[i].size = files[i].size
    BY <1>0, <2>3, <2>4
  <2>6. Layout'
    BY <1>0, <1>1, <2>1, <2>3, <2>5 DEF Layout
  <2> QED
    BY <1>0, <1>1, <2>3, <2>6 DEF Good, Records, ChunkBounded
<1>3. CASE ~is_open
  <2>1. written_chunks' = written_chunks
    BY <1>0, <1>1, <1>3, Finalized
  <2> QED
    BY <1>0, <1>1, <1>3, <2>1 DEF Good, Records, Layout, ChunkBounded
<1> QED
  BY <1>2, <1>3

LEMMA LayoutStep ==
  ASSUME Inv, [Next]_vars
  PROVE  Good'
<1>1. ASSUME NEW n \in 1 .. MaxWrite, Write(n)
      PROVE  Good'
  BY <1>1, WriteKeepsLayout
<1>2. CASE Finish
  BY <1>2, FinishKeepsLayout
<1>3. ASSUME UNCHANGED writer, bb' = "done" => bb = "done", bb = "done" => bb' = bb
      PROVE  Good'
  <2>1. Good
    BY TypeSplit DEF Inv, Good
  <2>2. /\ files' = files /\ is_open' = is_open /\ emitted' = emitted
        /\ written_chunks' = written_chunks
    BY <1>3 DEF writer
  <2> QED
    BY <1>3, <2>1, <2>2 DEF Good, Records, Layout, ChunkBounded
<1> QED
  BY <1>1, <1>2, <1>3
     DEF Next, Child, Bbkar, Stopped, vars, pipes, Ended, ChildWrites, ChildOut, ChildErr,
         ChildExit, ReadOut, Eof, NextChunk, ReadErr, WaitChild, Fail

LEMMA InvHolds == Spec => []Inv
<1>1. Init => Inv
  <2> SUFFICES ASSUME Init
               PROVE  Inv
    OBVIOUS
  <2>1. Len(<< >>) = 0 /\ << >> \in Seq(Chunk) /\ << >> \in Seq(Entry)
    BY EmptySeq
  <2>2. Numbers /\ Amounts
    BY SizesAre DEF Init, Numbers, Amounts
  <2>3. /\ files = << >> /\ written_chunks = << >> /\ is_open = FALSE
        /\ emitted = 0 /\ bb = "read" /\ 1 .. Len(files) = {} /\ Len(files) = 0
    BY <2>1 DEF Init
  <2>4. Records
    BY <2>1, <2>3 DEF Records
  <2>5. Layout /\ ChunkBounded
    BY <2>3 DEF Layout, ChunkBounded
  <2> QED
    BY <2>2, <2>4, <2>5, TypeSplit DEF Inv
<1>2. Inv /\ [Next]_vars => Inv'
  <2> SUFFICES ASSUME Inv, [Next]_vars
               PROVE  Inv'
    OBVIOUS
  <2>1. Numbers' /\ Amounts'
    BY AmountsStep DEF Inv
  <2>2. Good'
    BY LayoutStep
  <2>3. TypeOK'
    BY <2>1, <2>2 DEF TypeOK, Numbers, Records, Good, Chunk, Entry
  <2> QED
    BY <2>1, <2>2, <2>3 DEF Inv, Good
<1> QED
  BY <1>1, <1>2, PTL DEF Spec

-----------------------------------------------------------------------------
(* Results.                                                                *)

(* The variables of the transfer keep their types: no unit is read twice   *)
(* from the pipe, and no more is emitted than was taken.                   *)
THEOREM SendTypeCorrect == Spec => []TypeOK
<1>1. Inv => TypeOK
  BY DEF Inv
<1> QED
  BY <1>1, InvHolds, PTL

(* No chunk file outgrows the limit by a whole write of the encoder        *)
(* (ChunkedWriter.write).                                                  *)
THEOREM ChunksAlwaysBounded == Spec => []ChunkBounded
<1>1. Inv => ChunkBounded
  BY DEF Inv
<1> QED
  BY <1>1, InvHolds, PTL

(* btrfs send and bbkar never block each other, as long as stderr fits     *)
(* into its pipe (BtrfsSendIterator.next).                                 *)
THEOREM NeverMutualWait == Spec => []NoMutualWait
<1>1. Inv => NoMutualWait
  <2> SUFFICES ASSUME Inv, BbkarWaits, ChildWaits
               PROVE  FALSE
    BY DEF NoMutualWait
  <2>1. Numbers /\ Amounts
    BY TypeSplit DEF Inv
  <2> QED
    BY <2>1, SizesAre DEF BbkarWaits, ChildWaits, Numbers, Amounts
<1> QED
  BY <1>1, InvHolds, PTL

(* When the transfer ends well, the recorded chunks hold what btrfs send   *)
(* wrote, once and in order (write_subvolume_to_dest).                     *)
THEOREM AlwaysReadsBack == Spec => []ReadsBack
<1>1. Inv => ReadsBack
  <2> SUFFICES ASSUME Inv, bb = "done"
               PROVE  Covers(Length - left + 1)
    BY DEF ReadsBack
  <2>1. emitted = Length - left + 1 /\ emitted > 0
    BY TypeSplit, SizesAre DEF Inv, Numbers, Amounts
  <2>2. files # << >> /\ files[1].from = 0 /\ Len(files) = Len(written_chunks)
    <3>1. Len(files) \in Nat /\ Len(written_chunks) \in Nat
      BY TypeSplit, LenProperties DEF Inv, Records
    <3> QED
      BY <2>1, <3>1 DEF Inv, Layout
  <2> QED
    BY <2>1, <2>2 DEF Inv, Layout, Covers
<1> QED
  BY <1>1, InvHolds, PTL

-----------------------------------------------------------------------------
(* Sums of raw sizes.                                                      *)

Totals(f, w) ==
  /\ f[0] = 0
  /\ \A i \in 1 .. Len(w) : f[i] = f[i - 1] + w[i].raw

LEMMA TotalsExist ==
  ASSUME NEW w \in Seq(Entry)
  PROVE  \E f : f = [i \in 0 .. Len(w) |-> IF i = 0 THEN 0 ELSE f[i - 1] + w[i].raw]
<1> DEFINE n == Len(w)
           Step == [x \in (1 .. n) \X Nat |-> x[2] + w[x[1]].raw]
<1>1. n \in Nat /\ w \in [1 .. n -> Entry]
  BY LenProperties
<1>2. \A i \in 1 .. n : w[i].raw \in Nat
  BY <1>1 DEF Entry
<1>3. Step \in [(1 .. n) \X Nat -> Nat]
  BY <1>2
<1>4. \A i \in 1 .. n : \A k \in Nat : Step[<<i, k>>] = k + w[i].raw
  OBVIOUS
<1> HIDE DEF n, Step
<1>5. PICK f \in [0 .. n -> Nat] : Steps(f, 0, Step, n)
  BY <1>1, <1>3, StepsExist
<1>6. \A i \in 1 .. n : i - 1 \in 0 .. n
  BY <1>1
<1>7. ASSUME NEW i \in 0 .. n
      PROVE  f[i] = IF i = 0 THEN 0 ELSE f[i - 1] + w[i].raw
  <2>1. CASE i = 0
    BY <1>5, <2>1 DEF Steps
  <2>2. CASE i # 0
    <3>1. i \in 1 .. n
      BY <1>1, <2>2
    <3>2. f[i] = Step[<<i, f[i - 1]>>] /\ f[i - 1] \in Nat
      BY <1>5, <1>6, <3>1 DEF Steps
    <3> QED
      BY <1>4, <2>2, <3>1, <3>2
  <2> QED
    BY <2>1, <2>2
<1>8. f = [i \in 0 .. n |-> IF i = 0 THEN 0 ELSE f[i - 1] + w[i].raw]
  BY <1>7
<1> QED
  BY <1>8 DEF n

LEMMA RawTotals == written_chunks \in Seq(Entry) => Totals(RawTotal, written_chunks)
<1> SUFFICES ASSUME written_chunks \in Seq(Entry)
             PROVE  Totals(RawTotal, written_chunks)
  OBVIOUS
<1> DEFINE n == Len(written_chunks)
<1>1. RawTotal = [i \in 0 .. n |-> IF i = 0 THEN 0 ELSE RawTotal[i - 1] + written_chunks[i].raw]
  BY TotalsExist, Zenon DEF RawTotal
<1>2. n \in Nat
  BY LenProperties
<1>3. 0 \in 0 .. n /\ \A i \in 1 .. n : i \in 0 .. n /\ i # 0
  BY <1>2
<1>4. \A i \in 0 .. n : RawTotal[i] = IF i = 0 THEN 0 ELSE RawTotal[i - 1] + written_chunks[i].raw
  BY <1>1, Zenon
<1> QED
  BY <1>3, <1>4, Zenon DEF Totals

(* A longer sequence of chunks adds to the total what was added to it.     *)
LEMMA TotalsAgree ==
  ASSUME NEW f, NEW g, NEW v \in Seq(Entry), NEW w \in Seq(Entry),
         Totals(f, v), Totals(g, w), Len(v) <= Len(w),
         \A i \in 1 .. Len(v) : w[i] = v[i]
  PROVE  \A i \in 0 .. Len(v) : f[i] = g[i]
<1> DEFINE n == Len(v)
           S == {i \in 0 .. n : f[i] = g[i]}
<1>1. n \in Nat /\ Len(w) \in Nat /\ 1 .. n \subseteq 1 .. Len(w)
  BY LenProperties
<1>2. 0 \in S
  BY <1>1 DEF Totals
<1>3. ASSUME NEW i \in 1 .. n, i - 1 \in S
      PROVE  i \in S
  <2>1. f[i - 1] = g[i - 1] /\ i \in 0 .. n
    BY <1>1, <1>3
  <2>2. f[i] = f[i - 1] + v[i].raw /\ g[i] = g[i - 1] + w[i].raw /\ w[i] = v[i]
    BY <1>1 DEF Totals
  <2>3. f[i] = g[i]
    BY <2>1, <2>2, Zenon
  <2> QED
    BY <2>1, <2>3
<1>4. 0 .. n \subseteq S
  <2> HIDE DEF S, n
  <2> QED
    BY <1>1, <1>2, <1>3, IntervalInduction
<1> QED
  BY <1>4

(* What is recorded so far is what was read up to the last roll, and at    *)
(* the end that is everything: the last chunk is open when the encoder has *)
(* emitted the end of its frame.                                           *)
SumInv ==
  /\ RawTotal[Len(written_chunks)] = raw_at_roll
  /\ bb = "done" => raw_at_roll = raw

LEMMA FinalizedSum ==
  ASSUME TypeOK, Amounts, Finalize, RawTotal[Len(written_chunks)] = raw_at_roll
  PROVE  RawTotal'[Len(written_chunks')] = raw_at_roll'
<1> DEFINE n == Len(written_chunks)
           e == [part |-> Len(files), size |-> Current, raw |-> raw - raw_at_roll]
<1>1. /\ written_chunks \in Seq(Entry) /\ written_chunks' \in Seq(Entry) /\ n \in Nat
      /\ is_open \in BOOLEAN
  BY Finalized, LenProperties DEF TypeOK, Entry
<1>2. Totals(RawTotal, written_chunks) /\ Totals(RawTotal', written_chunks')
  <2>1. (written_chunks \in Seq(Entry))' => Totals(RawTotal, written_chunks)'
    BY RawTotals, PTL
  <2> QED
    BY <1>1, <2>1, RawTotals DEF Totals
<1>3. CASE is_open
  <2>1. /\ Len(written_chunks') = n + 1
        /\ \A i \in 1 .. n : written_chunks'[i] = written_chunks[i]
    BY <1>3, Finalized
  <2>2. written_chunks'[n + 1].raw = raw - raw_at_roll /\ raw_at_roll' = raw
    BY <1>1, <1>3, AppendProperties DEF Finalize
  <2>3. RawTotal'[n] = RawTotal[n]
    BY <1>1, <1>2, <2>1, TotalsAgree
  <2>4. RawTotal'[n + 1] = RawTotal'[n] + (raw - raw_at_roll)
    BY <1>1, <1>2, <2>1, <2>2 DEF Totals
  <2>5. raw \in Nat /\ raw_at_roll \in Nat
    BY SizesAre, TypeSplit DEF Numbers
  <2> QED
    BY <2>1, <2>2, <2>3, <2>4, <2>5
<1>4. CASE ~is_open
  <2>1. written_chunks' = written_chunks /\ raw_at_roll' = raw_at_roll
    BY <1>4, Finalized DEF Finalize
  <2>2. RawTotal'[n] = RawTotal[n]
    BY <1>1, <1>2, <2>1, TotalsAgree
  <2> QED
    BY <2>1, <2>2
<1> QED
  BY <1>1, <1>3, <1>4

LEMMA SumStep ==
  ASSUME Inv, SumInv, [Next]_vars
  PROVE  SumInv'
<1>1. TypeOK /\ Amounts /\ Layout
  BY DEF Inv
<1>2. ASSUME NEW n \in 1 .. MaxWrite, Write(n)
      PROVE  SumInv'
  <2>1. bb' = bb /\ bb # "done"
    BY <1>2 DEF Write
  <2>2. CASE is_open /\ ~IsFull
    BY <1>2, <2>1, <2>2 DEF Write, AppendToFile, SumInv, RawTotal
  <2>3. CASE ~(is_open /\ ~IsFull)
    BY <1>1, <1>2, <2>1, <2>3, FinalizedSum DEF Write, RollNext, SumInv
  <2> QED
    BY <2>2, <2>3
<1>3. CASE Finish
  <2>1. raw' = raw /\ is_open
    <3>1. Numbers
      BY <1>1, TypeSplit
    <3>2. emitted # 0
      BY <1>1, <1>3, <3>1, SizesAre DEF Finish, Amounts, Numbers
    <3> QED
      BY <1>1, <1>3, <3>2 DEF Finish, Layout
  <2>2. raw_at_roll' = raw'
    BY <1>3, <2>1 DEF Finish, Finalize
  <2> QED
    BY <1>1, <1>3, <2>2, FinalizedSum DEF Finish, SumInv
<1>4. ASSUME UNCHANGED <<written_chunks, raw_at_roll>>, bb' = "done" => bb = "done" /\ raw' = raw
      PROVE  SumInv'
  BY <1>4 DEF SumInv, RawTotal
<1> QED
  BY <1>2, <1>3, <1>4
     DEF Next, Child, Bbkar, Stopped, vars, pipes, writer, Ended, ChildWrites, ChildOut, ChildErr,
         ChildExit, ReadOut, Eof, NextChunk, ReadErr, WaitChild, Fail

(* The raw sizes of the recorded chunks add up to what was read from       *)
(* btrfs send, although the encoder lags behind what it has taken          *)
(* (raw_at_last_roll, total_raw_size).                                     *)
THEOREM RawSizesAlwaysAddUp == Spec => []RawSizesAddUp
<1>1. Init => SumInv
  <2> SUFFICES ASSUME Init
               PROVE  SumInv
    OBVIOUS
  <2>1. Len(<< >>) = 0 /\ << >> \in Seq(Entry)
    BY EmptySeq
  <2>2. written_chunks = << >> /\ raw_at_roll = 0 /\ bb = "read"
    BY DEF Init
  <2>3. RawTotal[0] = 0
    BY <2>1, <2>2, RawTotals DEF Totals
  <2> QED
    BY <2>1, <2>2, <2>3 DEF SumInv
<1>2. SumInv => RawSizesAddUp
  BY DEF SumInv, RawSizesAddUp
<1>3. Inv /\ SumInv /\ [Next]_vars => SumInv'
  BY SumStep
<1> QED
  BY <1>1, <1>2, <1>3, InvHolds, PTL DEF Spec

=============================================================================
