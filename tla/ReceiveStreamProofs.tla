------------------------ MODULE ReceiveStreamProofs --------------------------
(***************************************************************************)
(* Proofs about ReceiveStream, for every archive and every capacity.       *)
(***************************************************************************)
EXTENDS ReceiveStream, SequenceTheorems, TLAPS

(* What has been read, written and received, in this order; the cursor is  *)
(* in the chunk that was loaded last.                                      *)
Progress ==
  /\ pos = Len(got)
  /\ InOrder
  /\ applied <= written /\ written <= Len(got)
  /\ limit = Start(current_idx + 1)

(* Why bbkar has stopped copying, and what the exit status says.           *)
Closing ==
  /\ bb = "copy" <=> stdin_open
  /\ child = "exited" <=> status # "none"
  /\ child = "eof" \/ status = "zero" => applied = written /\ ~stdin_open
  /\ bb \in {"stderr", "ok"} => \/ written = Len(got) /\ pos = Total
                                \/ status = "other"
  /\ bb = "ok" => status = "zero"
  /\ err <= complaints
  /\ child = "err" => complaints < ErrOutput

Inv == TypeOK /\ Progress /\ Closing

LEMMA SizesAre ==
  /\ InCap \in Nat /\ ErrCap \in Nat /\ MaxRead \in Nat /\ ErrOutput \in Nat
  /\ InCap > 0 /\ ErrCap > 0 /\ MaxRead > 0
  /\ ErrOutput <= ErrCap
BY CapacityAssumption, StderrAssumption

(* Every chunk ends within the stream, and the last one ends it.           *)
LEMMA EndsAre ==
  /\ Len(Ends) \in Nat /\ Len(Ends) > 0 /\ Total \in Nat
  /\ Start(Len(Ends) + 1) = Total
  /\ Start(1) = 0
  /\ \A i \in 1 .. Len(Ends) :
       /\ Ends[i] \in Nat /\ Ends[i] <= Total
       /\ Start(i) \in Nat /\ Start(i) < Ends[i]
       /\ Start(i + 1) = Ends[i]
<1>1. /\ Len(Ends) \in Nat /\ Len(Ends) > 0
      /\ Ends \in [1 .. Len(Ends) -> Nat]
  BY EndsAssumption, EmptySeq, LenProperties
<1>2. Start(Len(Ends) + 1) = Total /\ Start(1) = 0 /\ Total \in Nat
  BY <1>1 DEF Start, Total
<1>3. ASSUME NEW i \in 1 .. Len(Ends)
      PROVE  /\ Ends[i] \in Nat /\ Ends[i] <= Total
             /\ Start(i) \in Nat /\ Start(i) < Ends[i]
             /\ Start(i + 1) = Ends[i]
  <2>1. Ends[i] \in Nat /\ Start(i + 1) = Ends[i] /\ i \in Nat
    BY <1>1, <1>3 DEF Start
  <2>2. Ends[i] <= Total
    <3>1. CASE i = Len(Ends)
      BY <2>1, <3>1 DEF Total
    <3>2. CASE i < Len(Ends)
      <4>1. Ends[i] < Ends[Len(Ends)]
        BY <1>1, <1>3, <3>2, EndsAssumption
      <4> QED
        BY <1>2, <2>1, <4>1 DEF Total
    <3>3. Len(Ends) \in Nat /\ i \in Nat /\ i <= Len(Ends)
      BY <1>1, <1>3
    <3>4. i = Len(Ends) \/ i < Len(Ends)
      BY <3>3
    <3> QED
      BY <3>1, <3>2, <3>4
  <2>3. Start(i) \in Nat /\ Start(i) < Ends[i]
    <3>1. CASE i = 1
      BY <1>2, <1>3, <3>1, EndsAssumption
    <3>2. CASE i # 1
      <4>1. i - 1 \in 1 .. Len(Ends) /\ i - 1 < i
        BY <1>1, <1>3, <3>2
      <4>2. Ends[i - 1] < Ends[i] /\ Ends[i - 1] \in Nat
        BY <1>1, <1>3, <4>1, EndsAssumption
      <4> QED
        BY <3>2, <4>2 DEF Start
    <3> QED
      BY <3>1, <3>2
  <2> QED
    BY <2>1, <2>2, <2>3
<1> QED
  BY <1>1, <1>2, <1>3

(* Units that are read are appended in their place.                        *)
LEMMA ReadInOrder ==
  ASSUME NEW g \in Seq(1 .. Total), \A i \in 1 .. Len(g) : g[i] = i,
         NEW n \in Nat, Len(g) + n <= Total, NEW h, h = g \o Units(Len(g), n)
  PROVE  /\ h \in Seq(1 .. Total)
         /\ Len(h) = Len(g) + n
         /\ \A i \in 1 .. Len(h) : h[i] = i
<1> DEFINE l == Len(g)
<1> DEFINE u == Units(l, n)
<1>1. l \in Nat
  BY LenProperties
<1>2. \A i \in 1 .. n : l + i \in 1 .. Total
  BY <1>1, EndsAre
<1>3. u \in Seq(1 .. Total) /\ Len(u) = n /\ \A i \in 1 .. n : u[i] = l + i
  <2>1. u \in Seq(1 .. Total)
    BY <1>2, IsASeq DEF Units
  <2>2. DOMAIN u = 1 .. n /\ \A i \in 1 .. n : u[i] = l + i
    BY DEF Units
  <2> HIDE DEF u
  <2>3. Len(u) = n
    BY <2>1, <2>2, LenProperties
  <2> QED
    BY <2>1, <2>2, <2>3
<1> HIDE DEF u
<1>4. /\ h \in Seq(1 .. Total) /\ Len(h) = l + n
      /\ \A i \in 1 .. l + n : h[i] = IF i <= l THEN g[i] ELSE u[i - l]
  <2>1. h = g \o u
    BY DEF u
  <2>2. /\ g \o u \in Seq(1 .. Total) /\ Len(g \o u) = Len(g) + Len(u)
        /\ \A i \in 1 .. Len(g) + Len(u) :
             (g \o u)[i] = IF i <= Len(g) THEN g[i] ELSE u[i - Len(g)]
    BY <1>3, ConcatProperties
  <2> QED
    BY <1>3, <2>1, <2>2
<1>5. ASSUME NEW i \in 1 .. l + n
      PROVE  h[i] = i
  <2>1. CASE i <= l
    BY <1>1, <1>4, <1>5, <2>1
  <2>2. CASE i > l
    <3>1. i - l \in 1 .. n
      BY <1>1, <1>5, <2>2
    <3>2. u[i - l] = l + (i - l)
      BY <1>3, <3>1
    <3> QED
      BY <1>1, <1>4, <1>5, <2>2, <3>2
  <2>3. i <= l \/ i > l
    BY <1>1, <1>5
  <2> QED
    BY <2>1, <2>2, <2>3
<1> QED
  BY <1>4, <1>5

-----------------------------------------------------------------------------
(* The invariant.                                                          *)

(* The steps of btrfs receive and those that end the copying read nothing. *)
LEMMA OtherStep ==
  ASSUME Inv, UNCHANGED reader, [Next]_vars
  PROVE  Inv'
<1> /\ TypeOK /\ Progress /\ Closing
  BY DEF Inv
<1> USE SizesAre, EndsAre DEF process, reader, Ended
<1>0. /\ pos \in Nat /\ limit \in Nat /\ written \in Nat /\ applied \in Nat
      /\ pos <= limit /\ limit <= Total /\ Len(got) = pos
  BY DEF TypeOK, Progress
<1>1. ASSUME NEW c \in {"in", "err"}, ChildWaitsFor(c)
      PROVE  Inv'
  BY <1>1 DEF ChildWaitsFor, Inv, TypeOK, Progress, InOrder, Closing
<1>2. CASE ChildIn
  <2>1. applied' \in 0 .. Total /\ applied' <= written
    BY <1>0, <1>2 DEF ChildIn, TypeOK, Progress
  <2> QED
    BY <1>2, <2>1 DEF ChildIn, Inv, TypeOK, Progress, InOrder, Closing
<1>3. CASE ChildEof
  BY <1>3 DEF ChildEof, Inv, TypeOK, Progress, InOrder, Closing
<1>4. CASE ChildErr
  <2>1. /\ err' \in 0 .. ErrCap /\ complaints' \in 0 .. ErrOutput
        /\ err' <= complaints'
    BY <1>4 DEF ChildErr, TypeOK, Closing
  <2> QED
    BY <1>4, <2>1 DEF ChildErr, Inv, TypeOK, Progress, InOrder, Closing
<1>5. ASSUME NEW s \in {"zero", "other"}, ChildExit(s)
      PROVE  Inv'
  BY <1>5 DEF ChildExit, Inv, TypeOK, Progress, InOrder, Closing
<1>6. ASSUME NEW n \in 1 .. MaxRead, WriteIn(n)
      PROVE  Inv'
  <2>1. /\ written' \in 0 .. Total /\ written' <= Len(got) /\ applied <= written'
        /\ status = "none" /\ child # "eof"
    <3>1. status = "none" /\ child # "eof"
      BY <1>6 DEF WriteIn, Closing, TypeOK
    <3> QED
      BY <1>0, <1>6, <3>1 DEF WriteIn, TypeOK, Progress
  <2> QED
    BY <1>6, <2>1 DEF WriteIn, Inv, TypeOK, Progress, InOrder, Closing
<1>7. CASE BrokenPipe
  BY <1>7 DEF BrokenPipe, Inv, TypeOK, Progress, InOrder, Closing
<1>8. CASE EndCopy
  <2>1. pos = Total /\ written = Len(got)
    BY <1>8 DEF EndCopy, Reading, Progress
  <2> QED
    BY <1>8, <2>1 DEF EndCopy, Inv, TypeOK, Progress, InOrder, Closing
<1>9. CASE ReadErr
  BY <1>9 DEF ReadErr, Inv, TypeOK, Progress, InOrder, Closing
<1>10. CASE WaitChild
  BY <1>10 DEF WaitChild, Inv, TypeOK, Progress, InOrder, Closing
<1>11. CASE Fail
  BY <1>11 DEF Fail, Inv, TypeOK, Progress, InOrder, Closing
<1>12. CASE UNCHANGED vars
  BY <1>12 DEF vars, Inv, TypeOK, Progress, InOrder, Closing
<1>13. ASSUME LoadNextChunk
       PROVE  FALSE
  BY <1>13 DEF LoadNextChunk, TypeOK
<1>14. ASSUME NEW n \in 1 .. MaxRead, ReadChunk(n)
       PROVE  FALSE
  BY <1>0, <1>14 DEF ReadChunk
<1> QED
  BY <1>1, <1>2, <1>3, <1>4, <1>5, <1>6, <1>7, <1>8, <1>9, <1>10, <1>11, <1>12, <1>13, <1>14
     DEF Next, Child, Bbkar, Stopped

LEMMA LoadStep ==
  ASSUME Inv, LoadNextChunk
  PROVE  Inv'
<1> DEFINE k == current_idx + 1
<1>1. k \in 1 .. Len(Ends) /\ k \in Nat
  BY EndsAre DEF Inv, TypeOK, LoadNextChunk
<1>2. /\ current_idx' = k /\ pos' = Start(k) /\ limit' = Ends[k]
      /\ pos = limit /\ limit = Start(k)
  BY DEF Inv, Progress, LoadNextChunk
<1>3. /\ Ends[k] \in Nat /\ Ends[k] <= Total /\ Start(k) \in Nat /\ Start(k) < Ends[k]
      /\ Start(k + 1) = Ends[k]
  BY <1>1, EndsAre
<1>4. UNCHANGED <<process, err, bb, stdin_open, got, written>>
  BY DEF LoadNextChunk
<1>5. current_idx' \in 0 .. Len(Ends) /\ pos' = pos /\ limit' \in 0 .. Total /\ pos' \in 0 .. limit'
      /\ limit' = Start(current_idx' + 1)
  BY <1>1, <1>2, <1>3, EndsAre
<1> HIDE DEF k
<1>6. TypeOK'
  BY <1>4, <1>5 DEF Inv, TypeOK, process
<1>7. Progress' /\ Closing'
  BY <1>4, <1>5 DEF Inv, Progress, InOrder, Closing, process
<1> QED
  BY <1>6, <1>7 DEF Inv

LEMMA ReadStep ==
  ASSUME Inv, NEW n \in 1 .. MaxRead, ReadChunk(n)
  PROVE  Inv'
<1>1. /\ pos \in Nat /\ limit \in Nat /\ n \in Nat /\ n > 0 /\ n <= limit - pos
      /\ limit <= Total /\ Total \in Nat /\ Len(got) = pos /\ got \in Seq(1 .. Total)
      /\ written \in Nat /\ written <= pos
  BY SizesAre, EndsAre DEF Inv, TypeOK, Progress, ReadChunk
<1>2. /\ pos' = pos + n /\ got' = got \o Units(pos, n) /\ bb = "copy"
      /\ UNCHANGED <<process, err, bb, stdin_open, current_idx, limit, written>>
  BY DEF ReadChunk, Reading
<1>3. \A i \in 1 .. Len(got) : got[i] = i
  BY DEF Inv, Progress, InOrder
<1>4. Len(got) + n <= Total
  BY <1>1
<1>5. /\ got' \in Seq(1 .. Total) /\ Len(got') = pos + n
      /\ \A i \in 1 .. Len(got') : got'[i] = i
  BY <1>1, <1>2, <1>3, <1>4, ReadInOrder
<1>6. pos' \in 0 .. limit /\ written <= Len(got')
  BY <1>1, <1>2, <1>5
<1>7. TypeOK'
  BY <1>2, <1>5, <1>6 DEF Inv, TypeOK, process
<1>8. Progress'
  BY <1>2, <1>5, <1>6 DEF Inv, Progress, InOrder, process
<1>9. Closing'
  BY <1>2 DEF Inv, Closing, process
<1> QED
  BY <1>7, <1>8, <1>9 DEF Inv

LEMMA InvHolds == Spec => []Inv
<1>1. Init => Inv
  <2> SUFFICES ASSUME Init
               PROVE  Inv
    OBVIOUS
  <2>1. Len(<< >>) = 0 /\ << >> \in Seq(1 .. Total)
    BY EmptySeq
  <2>2. TypeOK
    BY <2>1, SizesAre, EndsAre DEF Init, TypeOK
  <2>3. Progress
    BY <2>1, EndsAre DEF Init, Progress, InOrder
  <2>4. Closing
    BY DEF Init, Closing
  <2> QED
    BY <2>2, <2>3, <2>4 DEF Inv
<1>2. Inv /\ [Next]_vars => Inv'
  <2> SUFFICES ASSUME Inv, [Next]_vars
               PROVE  Inv'
    OBVIOUS
  <2>1. CASE LoadNextChunk
    BY <2>1, LoadStep
  <2>2. ASSUME NEW n \in 1 .. MaxRead, ReadChunk(n)
        PROVE  Inv'
    BY <2>2, ReadStep
  <2>3. CASE UNCHANGED reader
    BY <2>3, OtherStep
  <2> QED
    BY <2>1, <2>2, <2>3
       DEF Next, Child, Bbkar, Stopped, vars, ChildWaitsFor, ChildIn, ChildEof, ChildErr,
           ChildExit, WriteIn, BrokenPipe, EndCopy, ReadErr, WaitChild, Fail
<1> QED
  BY <1>1, <1>2, PTL DEF Spec

-----------------------------------------------------------------------------
(* Results.                                                                *)

(* The variables of a transfer keep their types: the cursor stays in its   *)
(* chunk and nothing is received that was not written.                     *)
THEOREM ReceiveTypeCorrect == Spec => []TypeOK
<1>1. Inv => TypeOK
  BY DEF Inv
<1> QED
  BY <1>1, InvHolds, PTL

(* ChunkStreamReader returns the units of the stream in their order.       *)
THEOREM AlwaysInOrder == Spec => []InOrder
<1>1. Inv => InOrder
  BY DEF Inv, Progress
<1> QED
  BY <1>1, InvHolds, PTL

(* restore_archive returns Ok only for a stream received to its end.       *)
THEOREM OkAlwaysMeansWhole == Spec => []OkMeansWhole
<1>1. Inv => OkMeansWhole
  BY DEF Inv, TypeOK, Progress, Closing, OkMeansWhole
<1> QED
  BY <1>1, InvHolds, PTL

(* bbkar and btrfs receive never block each other, as long as stderr fits  *)
(* into its pipe (restore_archive).                                        *)
THEOREM ReceiveNeverMutualWait == Spec => []NoMutualWait
<1>1. Inv => NoMutualWait
  <2> SUFFICES ASSUME Inv, BbkarWaits, ChildWaits
               PROVE  FALSE
    BY DEF NoMutualWait
  <2>1. /\ err \in Nat /\ complaints \in Nat /\ err <= complaints
        /\ child = "err" => complaints < ErrOutput
    BY SizesAre DEF Inv, TypeOK, Closing
  <2>2. child = "in" /\ applied = written /\ stdin_open
    BY <2>1, SizesAre DEF ChildWaits
  <2>3. bb = "copy" /\ written - applied = InCap
    BY <2>2 DEF Inv, Closing, BbkarWaits
  <2> QED
    BY <2>2, <2>3, SizesAre DEF Inv, TypeOK
<1> QED
  BY <1>1, InvHolds, PTL

=============================================================================
