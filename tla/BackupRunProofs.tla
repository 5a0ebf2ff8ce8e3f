--------------------------- MODULE BackupRunProofs ---------------------------
(***************************************************************************)
(* Proofs about BackupRun for any number of runs, any crashes, failed      *)
(* sends and purges: types, parent chains, and the depth of chains.        *)
(***************************************************************************)
EXTENDS BackupRun, Recursion, TLAPS

-----------------------------------------------------------------------------
(* Types.                                                                  *)

(* The temporary metadata file is complete when it is renamed, and only a  *)
(* local destination has one.                                              *)
TmpWritten ==
  \A r \in Runs :
    /\ pc[r] \in {"tmp", "rename"} => LocalDest
    /\ pc[r] = "rename" => tmp \in Metas

TypeInv == TypeOK /\ MetaReadable /\ TmpWritten

(* A chunk a send in progress may write is a chunk.                        *)
LEMMA ChunkType ==
  ASSUME NEW c \in Sending, NEW i \in Parts, NEW st \in {"open", "closed", "cut"}
  PROVE  Chunk(c, i, st) \in Content
BY DEF Chunk, Sending, Content

(* Opening or closing a chunk leaves a directory of chunk files.           *)
LEMMA ChunkFilesType ==
  ASSUME NEW fs \in [Timestamps -> [Parts -> Content \cup {None}]],
         NEW c \in Sending
  PROVE  /\ \A i \in Parts : OpenChunk(fs, c, i) \in [Timestamps -> [Parts -> Content \cup {None}]]
         /\ \A st \in {"closed", "cut"} :
              CloseChunk(fs, c, st) \in [Timestamps -> [Parts -> Content \cup {None}]]
<1>1. \A i \in Parts : OpenChunk(fs, c, i) \in [Timestamps -> [Parts -> Content \cup {None}]]
  BY ChunkType DEF OpenChunk, Sending
<1>2. ASSUME NEW st \in {"closed", "cut"}, c.part # 0
      PROVE  CloseChunk(fs, c, st) \in [Timestamps -> [Parts -> Content \cup {None}]]
  <2>1. c.part \in Parts
    BY <1>2, BoundsAssumption DEF Sending, Parts
  <2>2. Chunk(c, c.part, st) \in Content
    BY <2>1, ChunkType
  <2> QED
    BY <1>2, <2>1, <2>2 DEF CloseChunk, Sending
<1> QED
  BY <1>1, <1>2 DEF CloseChunk

(* Adding the archive of a send with at least one chunk leaves metadata.   *)
LEMMA AddArchiveType ==
  ASSUME NEW m \in Metas, NEW c \in Sending, c.part # 0, NEW st \in {"closed", "cut"}
  PROVE  /\ AddArchive(m, c, st) \in Metas
         /\ AddArchive(m, c, st)[c.snap] \in Archive
         /\ AddArchive(m, c, st)[c.snap].parent = c.parent
         /\ \A t \in Timestamps \ {c.snap} : AddArchive(m, c, st)[t] = m[t]
<1>1. c.part \in Parts /\ 1 .. c.part \subseteq Parts
  BY BoundsAssumption DEF Sending, Parts
<1>2. WrittenChunks(c, st) \in [1 .. c.part -> Content]
  BY <1>1, ChunkType DEF WrittenChunks
<1>3. [parent |-> c.parent, chunks |-> WrittenChunks(c, st)] \in Archive
  BY <1>1, <1>2 DEF Archive, Sending
<1> QED
  BY <1>3 DEF AddArchive, Metas, Sending

LEMMA TypeInvInit == Init => TypeInv
BY SentinelAssumption, BoundsAssumption
   DEF Init, TypeInv, TypeOK, MetaReadable, TmpWritten, EmptyMeta, Metas, Parents

(* The types of what Exit resets.                                          *)
LEMMA ExitType ==
  ASSUME TypeInv, NEW r \in Runs, Exit(r), UNCHANGED <<snaps, dest>>,
         fails' \in 0 .. MaxFails
  PROVE  TypeInv'
BY DEF Exit, TypeInv, TypeOK, MetaReadable, TmpWritten, EmptyMeta, Metas, Parents, dest

LEMMA TypeInvStep == TypeInv /\ [Next]_vars => TypeInv'
<1> SUFFICES ASSUME TypeInv, [Next]_vars
             PROVE  TypeInv'
  OBVIOUS
<1> USE DEF dest, plan, AddStep, Roll
<1>1. ASSUME NEW t \in Timestamps, SnapCreate(t) \/ SnapDelete(t)
      PROVE  TypeInv'
  BY <1>1 DEF SnapCreate, SnapDelete, TypeInv, TypeOK, MetaReadable, TmpWritten
<1>2. ASSUME NEW r \in Runs, InspectSource(r)
      PROVE  TypeInv'
  BY <1>2 DEF InspectSource, Present, TypeInv, TypeOK, MetaReadable, TmpWritten
<1>3. ASSUME NEW r \in Runs, InspectDest(r)
      PROVE  TypeInv'
  <2>1. PICK f \in Parents : last_full' = [last_full EXCEPT ![r] = f]
    BY <1>3 DEF InspectDest
  <2>2. PICK d \in [Timestamps -> 0 .. Cardinality(Archived(meta))] :
           depth_cache' = [depth_cache EXCEPT ![r] = d]
    BY <1>3 DEF InspectDest
  <2>3. d \in [Timestamps -> Nat]
    OBVIOUS
  <2> QED
    BY <1>3, <2>1, <2>2, <2>3 DEF InspectDest, TypeInv, TypeOK, MetaReadable, TmpWritten
<1>4. ASSUME NEW r \in Runs, Plan(r)
      PROVE  TypeInv'
  <2>1. ASSUME NEW t \in Timestamps, PlanSkip(r, t)
        PROVE  TypeInv'
    BY <2>1 DEF PlanSkip, TypeInv, TypeOK, MetaReadable, TmpWritten
  <2>2. ASSUME NEW t \in Timestamps, PlanFull(r, t)
        PROVE  TypeInv'
    <3>1. [snap |-> t, parent |-> None] \in Step
      BY DEF Step, Parents
    <3> QED
      BY <2>2, <3>1
      DEF PlanFull, StepDepth, TypeInv, TypeOK, MetaReadable, TmpWritten, Parents
  <2>3. ASSUME NEW t \in Timestamps, PlanIncremental(r, t)
        PROVE  TypeInv'
    <3>1. PICK p \in ParentCandidates(r, t) : AddStep(r, t, p)
      BY <2>3 DEF PlanIncremental
    <3>2. p \in Timestamps
      BY DEF ParentCandidates, TypeInv, TypeOK
    <3>3. [snap |-> t, parent |-> p] \in Step
      BY <3>2 DEF Step, Parents
    <3> QED
      BY <2>3, <3>1, <3>2, <3>3
      DEF PlanIncremental, StepDepth, TypeInv, TypeOK, MetaReadable, TmpWritten
  <2> QED
    BY <1>4, <2>1, <2>2, <2>3 DEF Plan
<1>5. ASSUME NEW r \in Runs, UpToDate(r) \/ FinishRun(r) \/ Fail(r)
      PROVE  TypeInv'
  <2>1. Exit(r) /\ UNCHANGED <<snaps, dest>>
    BY <1>5 DEF UpToDate, FinishRun, Fail
  <2>2. fails' \in 0 .. MaxFails
    BY <1>5, BoundsAssumption DEF UpToDate, FinishRun, Fail, TypeInv, TypeOK
  <2> QED
    BY <2>1, <2>2, ExitType
<1>6. ASSUME NEW r \in Runs, ExecutePlan(r)
      PROVE  TypeInv'
  BY <1>6 DEF ExecutePlan, TypeInv, TypeOK, MetaReadable, TmpWritten
<1>7. ASSUME NEW r \in Runs, StartSend(r)
      PROVE  TypeInv'
  <2>1. PICK s \in steps[r], n \in Parts :
           /\ cur' = [cur EXCEPT ![r] = [snap |-> s.snap, parent |-> s.parent,
                                         of |-> n, part |-> 0]]
           /\ steps' = [steps EXCEPT ![r] = @ \ {s}]
    BY <1>7 DEF StartSend
  <2>2. [snap |-> s.snap, parent |-> s.parent, of |-> n, part |-> 0] \in Sending
    BY BoundsAssumption DEF Sending, Step, TypeInv, TypeOK
  <2> QED
    BY <1>7, <2>1, <2>2 DEF StartSend, TypeInv, TypeOK, MetaReadable, TmpWritten
<1>8. ASSUME NEW r \in Runs, RollNext(r)
      PROVE  TypeInv'
  <2>1. cur[r] \in Sending /\ cur[r].part + 1 \in Parts
    BY <1>8, BoundsAssumption DEF RollNext, TypeInv, TypeOK, Sending, Parts
  <2>2. [cur[r] EXCEPT !.part = @ + 1] \in Sending
    BY <2>1, BoundsAssumption DEF Sending, Parts
  <2>3. files' \in [Timestamps -> [Parts -> Content \cup {None}]]
    BY <1>8, <2>1, ChunkFilesType DEF RollNext, TypeInv, TypeOK
  <2> QED
    BY <1>8, <2>2, <2>3 DEF RollNext, TypeInv, TypeOK, MetaReadable, TmpWritten
<1>9. ASSUME NEW r \in Runs, FinishSend(r) \/ FinishFailedSend(r)
      PROVE  TypeInv'
  <2>1. PICK st \in {"closed", "cut"} : Finish(r, st)
    BY <1>9 DEF FinishSend, FinishFailedSend
  <2>2. pc[r] = "send" /\ cur[r] \in Sending /\ cur[r].part # 0
    BY <1>9 DEF FinishSend, FinishFailedSend, TypeInv, TypeOK, Sending, Parts
  <2>3. files' \in [Timestamps -> [Parts -> Content \cup {None}]]
    BY <2>1, <2>2, ChunkFilesType DEF Finish, TypeInv, TypeOK
  <2>4. dest_meta' \in [Runs -> Metas]
    BY <2>1, <2>2, AddArchiveType DEF Finish, TypeInv, TypeOK
  <2> QED
    BY <2>1, <2>2, <2>3, <2>4 DEF Finish, TypeInv, TypeOK, MetaReadable, TmpWritten
<1>10. ASSUME NEW r \in Runs, CreateTmp(r)
       PROVE  TypeInv'
  BY <1>10, LocalRunsAssumption DEF CreateTmp, TypeInv, TypeOK, MetaReadable, TmpWritten
<1>11. ASSUME NEW r \in Runs, WriteTmp(r)
       PROVE  TypeInv'
  BY <1>11, LocalRunsAssumption DEF WriteTmp, TypeInv, TypeOK, MetaReadable, TmpWritten
<1>12. ASSUME NEW r \in Runs, RenameTmp(r)
       PROVE  TypeInv'
  BY <1>12, LocalRunsAssumption, SentinelAssumption
  DEF RenameTmp, TypeInv, TypeOK, MetaReadable, TmpWritten
<1>13. ASSUME NEW r \in Runs, PutMeta(r)
       PROVE  TypeInv'
  BY <1>13, SentinelAssumption DEF PutMeta, TypeInv, TypeOK, MetaReadable, TmpWritten
<1>14. ASSUME UNCHANGED vars
       PROVE  TypeInv'
  BY <1>14 DEF vars, TypeInv, TypeOK, MetaReadable, TmpWritten
<1> QED
  BY <1>1, <1>2, <1>3, <1>4, <1>5, <1>6, <1>7, <1>8, <1>9, <1>10, <1>11, <1>12,
     <1>13, <1>14
  DEF Next, Advance, SkipVolume

(* Types, with the facts they depend on, hold in every behaviour.          *)
THEOREM TypeInvariant == Spec => []TypeInv
BY TypeInvInit, TypeInvStep, PTL DEF Spec

(* Every variable keeps its type.                                          *)
THEOREM TypeCorrect == Spec => []TypeOK
BY TypeInvariant, PTL DEF TypeInv

(* The metadata file can be parsed after every step, whatever the runs and *)
(* wherever they are killed (write_dest.rs:344-355).                       *)
THEOREM MetaAlwaysReadable == Spec => []MetaReadable
BY TypeInvariant, PTL DEF TypeInv

-----------------------------------------------------------------------------
(* Parent chains.                                                          *)

(* The snapshot whose send is in progress is neither planned nor archived. *)
Pending(r) == IF pc[r] = "send" THEN {cur[r].snap} ELSE {}

(* What a run knows is closed under parents: the metadata it will write,   *)
(* and that metadata with what it still has to send.                       *)
RunChain(r) ==
  /\ Closed(dest_meta[r])
  /\ pc[r] \in {"idle", "inspect"} => steps[r] = {}
  /\ \A s \in steps[r] :
       s.parent # None => /\ s.parent < s.snap
                          /\ s.parent \in DestSet(r) \cup Pending(r)
  /\ pc[r] = "send" /\ cur[r].parent # None =>
       /\ cur[r].parent < cur[r].snap
       /\ cur[r].parent \in Archived(dest_meta[r])

ChainInv ==
  /\ Closed(meta)
  /\ tmp \in Metas => Closed(tmp)
  /\ \A r \in Runs : RunChain(r)

LEMMA EmptyClosed == Closed(EmptyMeta) /\ EmptyMeta \in Metas
BY DEF Closed, Archived, EmptyMeta, Metas

(* Archiving a snapshot on top of an archived, older parent keeps the      *)
(* metadata closed.                                                        *)
LEMMA AddClosed ==
  ASSUME NEW m \in Metas, Closed(m), NEW c \in Sending, c.part # 0,
         NEW st \in {"closed", "cut"},
         c.parent # None => c.parent < c.snap /\ c.parent \in Archived(m)
  PROVE  /\ Closed(AddArchive(m, c, st))
         /\ Archived(AddArchive(m, c, st)) = Archived(m) \cup {c.snap}
<1> DEFINE n == AddArchive(m, c, st)
<1>1. /\ n[c.snap] \in Archive
      /\ n[c.snap].parent = c.parent
      /\ \A t \in Timestamps \ {c.snap} : n[t] = m[t]
  BY AddArchiveType
<1> HIDE DEF n
<1>2. c.snap \in Timestamps /\ n[c.snap] # None
  BY <1>1, SentinelAssumption DEF Sending
<1>3. Archived(n) = Archived(m) \cup {c.snap}
  BY <1>1, <1>2 DEF Archived
<1>4. ASSUME NEW t \in Archived(n), IsIncremental(n, t)
      PROVE  n[t].parent \in Archived(n) /\ n[t].parent < t
  <2>1. CASE t = c.snap
    BY <2>1, <1>1, <1>3, <1>4 DEF IsIncremental
  <2>2. CASE t # c.snap
    BY <2>2, <1>1, <1>3, <1>4 DEF IsIncremental, Closed, Archived
  <2> QED
    BY <2>1, <2>2
<1> QED
  BY <1>3, <1>4 DEF Closed, n

(* A run whose own variables do not change keeps RunChain.                 *)
LEMMA RunChainFrame ==
  ASSUME NEW q \in Runs, RunChain(q), dest_meta'[q] = dest_meta[q],
         steps'[q] = steps[q], pc'[q] = pc[q],
         pc[q] = "send" => cur'[q].snap = cur[q].snap /\ cur'[q].parent = cur[q].parent
  PROVE  RunChain(q)'
BY DEF RunChain, DestSet, Planned, Pending

LEMMA ChainInit == Init => ChainInv
BY EmptyClosed, SentinelAssumption DEF Init, ChainInv, RunChain

(* A process that ends has nothing planned.                                *)
LEMMA ChainExit ==
  ASSUME TypeInv, ChainInv, NEW r \in Runs, Exit(r), UNCHANGED dest
  PROVE  ChainInv'
<1>1. RunChain(r)'
  BY EmptyClosed DEF Exit, RunChain, TypeInv, TypeOK
<1>2. \A q \in Runs \ {r} : RunChain(q)'
  BY RunChainFrame DEF Exit, ChainInv, TypeInv, TypeOK
<1> QED
  BY <1>1, <1>2 DEF ChainInv, dest

LEMMA ChainStep == TypeInv /\ TypeInv' /\ ChainInv /\ [Next]_vars => ChainInv'
<1> SUFFICES ASSUME TypeInv, TypeInv', ChainInv, [Next]_vars
             PROVE  ChainInv'
  OBVIOUS
<1> USE DEF dest, plan, AddStep, Roll
<1>1. ASSUME NEW t \in Timestamps, SnapCreate(t) \/ SnapDelete(t)
      PROVE  ChainInv'
  BY <1>1, RunChainFrame DEF SnapCreate, SnapDelete, ChainInv
<1>2. ASSUME NEW r \in Runs, InspectSource(r)
      PROVE  ChainInv'
  <2>1. RunChain(r)'
    BY <1>2 DEF InspectSource, ChainInv, RunChain, TypeInv, TypeOK
  <2>2. \A q \in Runs \ {r} : RunChain(q)'
    BY <1>2, RunChainFrame DEF InspectSource, ChainInv, TypeInv, TypeOK
  <2> QED
    BY <1>2, <2>1, <2>2 DEF InspectSource, ChainInv
<1>3. ASSUME NEW r \in Runs, InspectDest(r)
      PROVE  ChainInv'
  <2>1. RunChain(r)'
    BY <1>3 DEF InspectDest, ChainInv, RunChain, TypeInv, TypeOK
  <2>2. \A q \in Runs \ {r} : RunChain(q)'
    BY <1>3, RunChainFrame DEF InspectDest, ChainInv, TypeInv, TypeOK
  <2> QED
    BY <1>3, <2>1, <2>2 DEF InspectDest, ChainInv
<1>4. ASSUME NEW r \in Runs, Plan(r)
      PROVE  ChainInv'
  <2>1. PICK t \in Timestamps : PlanSkip(r, t) \/ PlanFull(r, t) \/ PlanIncremental(r, t)
    BY <1>4 DEF Plan
  <2>2. \A q \in Runs \ {r} : RunChain(q)'
    BY <2>1, RunChainFrame
    DEF PlanSkip, PlanFull, PlanIncremental, ChainInv, TypeInv, TypeOK
  <2>3. RunChain(r)'
    <3>1. CASE PlanSkip(r, t)
      BY <3>1, RunChainFrame DEF PlanSkip, ChainInv
    <3>2. CASE PlanFull(r, t)
      <4>1. steps'[r] = steps[r] \cup {[snap |-> t, parent |-> None]}
        BY <3>2 DEF PlanFull, TypeInv, TypeOK
      <4>2. DestSet(r) \subseteq DestSet(r)'
        BY <3>2, <4>1 DEF PlanFull, DestSet, Planned
      <4> QED
        BY <3>2, <4>1, <4>2 DEF PlanFull, ChainInv, RunChain, Pending
    <3>3. CASE PlanIncremental(r, t)
      <4>1. PICK p \in ParentCandidates(r, t) :
               steps'[r] = steps[r] \cup {[snap |-> t, parent |-> p]}
        BY <3>3 DEF PlanIncremental, TypeInv, TypeOK
      <4>2. DestSet(r) \subseteq DestSet(r)'
        BY <3>3, <4>1 DEF PlanIncremental, DestSet, Planned
      <4>3. p < t /\ p \in DestSet(r)'
        BY <4>2 DEF ParentCandidates
      <4> QED
        BY <3>3, <4>1, <4>2, <4>3 DEF PlanIncremental, ChainInv, RunChain, Pending
    <3> QED
      BY <2>1, <3>1, <3>2, <3>3
  <2> QED
    BY <2>1, <2>2, <2>3 DEF PlanSkip, PlanFull, PlanIncremental, ChainInv
<1>5. ASSUME NEW r \in Runs, UpToDate(r) \/ FinishRun(r) \/ Fail(r)
      PROVE  ChainInv'
  <2>1. Exit(r) /\ UNCHANGED dest
    BY <1>5 DEF UpToDate, FinishRun, Fail
  <2> QED
    BY <2>1, ChainExit
<1>6. ASSUME NEW r \in Runs, ExecutePlan(r)
      PROVE  ChainInv'
  <2>1. RunChain(r)'
    BY <1>6 DEF ExecutePlan, ChainInv, RunChain, DestSet, Planned, Pending, TypeInv, TypeOK
  <2>2. \A q \in Runs \ {r} : RunChain(q)'
    BY <1>6, RunChainFrame DEF ExecutePlan, ChainInv, TypeInv, TypeOK
  <2> QED
    BY <1>6, <2>1, <2>2 DEF ExecutePlan, ChainInv
<1>7. ASSUME NEW r \in Runs, StartSend(r)
      PROVE  ChainInv'
  <2>1. PICK s \in steps[r], n \in Parts :
           /\ IsOldest(s.snap, Planned(r))
           /\ cur' = [cur EXCEPT ![r] = [snap |-> s.snap, parent |-> s.parent,
                                         of |-> n, part |-> 0]]
           /\ steps' = [steps EXCEPT ![r] = @ \ {s}]
    BY <1>7 DEF StartSend
  <2>2. /\ cur'[r].snap = s.snap
        /\ cur'[r].parent = s.parent
        /\ steps'[r] = steps[r] \ {s}
        /\ pc'[r] = "send"
        /\ dest_meta' = dest_meta
    BY <1>7, <2>1 DEF StartSend, TypeInv, TypeOK
  <2>3. pc[r] = "run" /\ Pending(r) = {} /\ Pending(r)' = {s.snap}
    BY <1>7, <2>2 DEF StartSend, Pending
  <2>4. DestSet(r) \subseteq DestSet(r)' \cup Pending(r)'
    BY <2>2, <2>3 DEF DestSet, Planned
  <2>5. s.parent # None => s.parent < s.snap /\ s.parent \in Archived(dest_meta[r])
    <3>1. s.snap \in Timestamps /\ steps[r] \subseteq Step
      BY DEF TypeInv, TypeOK, Step
    <3>2. s.parent # None => s.parent < s.snap /\ s.parent \in DestSet(r)
      BY <2>3 DEF ChainInv, RunChain
    <3>3. s.parent # None /\ s.parent \in Planned(r) => s.snap <= s.parent
      BY <2>1 DEF IsOldest
    <3>4. s.parent # None => s.parent \in Nat /\ s.snap \in Nat
      BY <3>1, TimestampsAssumption DEF Step, Parents
    <3>5. s.parent # None => s.parent \notin Planned(r)
      BY <3>2, <3>3, <3>4
    <3> QED
      BY <3>2, <3>5 DEF DestSet
  <2>6. RunChain(r)'
    BY <2>2, <2>3, <2>4, <2>5 DEF ChainInv, RunChain
  <2>7. \A q \in Runs \ {r} : RunChain(q)'
    BY <1>7, <2>1, RunChainFrame DEF StartSend, ChainInv, TypeInv, TypeOK
  <2> QED
    BY <1>7, <2>6, <2>7 DEF StartSend, ChainInv
<1>8. ASSUME NEW r \in Runs, RollNext(r)
      PROVE  ChainInv'
  <2>1. cur'[r].snap = cur[r].snap /\ cur'[r].parent = cur[r].parent
    BY <1>8 DEF RollNext, TypeInv, TypeOK, Sending
  <2>2. \A q \in Runs : RunChain(q)'
    BY <1>8, <2>1, RunChainFrame DEF RollNext, ChainInv, TypeInv, TypeOK
  <2> QED
    BY <1>8, <2>2 DEF RollNext, ChainInv
<1>9. ASSUME NEW r \in Runs, FinishSend(r) \/ FinishFailedSend(r)
      PROVE  ChainInv'
  <2>1. PICK st \in {"closed", "cut"} : Finish(r, st)
    BY <1>9 DEF FinishSend, FinishFailedSend
  <2>2. pc[r] = "send" /\ cur[r] \in Sending /\ cur[r].part # 0
    BY <1>9 DEF FinishSend, FinishFailedSend, TypeInv, TypeOK, Sending, Parts
  <2>3. /\ dest_meta'[r] = AddArchive(dest_meta[r], cur[r], st)
        /\ pc'[r] = "commit"
        /\ steps' = steps
    BY <2>1 DEF Finish, TypeInv, TypeOK
  <2>4. /\ Closed(dest_meta'[r])
        /\ Archived(dest_meta'[r]) = Archived(dest_meta[r]) \cup {cur[r].snap}
    <3>1. dest_meta[r] \in Metas
      BY DEF TypeInv, TypeOK
    <3> QED
      BY <2>2, <2>3, <3>1, AddClosed DEF ChainInv, RunChain
  <2>5. DestSet(r) \cup Pending(r) \subseteq DestSet(r)'
    BY <2>2, <2>3, <2>4 DEF DestSet, Planned, Pending
  <2>6. RunChain(r)'
    BY <2>2, <2>3, <2>4, <2>5 DEF ChainInv, RunChain
  <2>7. \A q \in Runs \ {r} : RunChain(q)'
    BY <2>1, RunChainFrame DEF Finish, ChainInv, TypeInv, TypeOK
  <2> QED
    BY <2>1, <2>6, <2>7 DEF Finish, ChainInv
<1>10. ASSUME NEW r \in Runs, CreateTmp(r)
       PROVE  ChainInv'
  <2>1. RunChain(r)'
    BY <1>10 DEF CreateTmp, ChainInv, RunChain, DestSet, Planned, Pending, TypeInv, TypeOK
  <2>2. \A q \in Runs \ {r} : RunChain(q)'
    BY <1>10, RunChainFrame DEF CreateTmp, ChainInv, TypeInv, TypeOK
  <2> QED
    BY <1>10, <2>1, <2>2, SentinelAssumption DEF CreateTmp, ChainInv
<1>11. ASSUME NEW r \in Runs, WriteTmp(r)
       PROVE  ChainInv'
  <2>1. RunChain(r)'
    BY <1>11 DEF WriteTmp, ChainInv, RunChain, DestSet, Planned, Pending, TypeInv, TypeOK
  <2>2. \A q \in Runs \ {r} : RunChain(q)'
    BY <1>11, RunChainFrame DEF WriteTmp, ChainInv, TypeInv, TypeOK
  <2> QED
    BY <1>11, <2>1, <2>2 DEF WriteTmp, ChainInv, RunChain
<1>12. ASSUME NEW r \in Runs, RenameTmp(r)
       PROVE  ChainInv'
  <2>1. RunChain(r)'
    BY <1>12 DEF RenameTmp, ChainInv, RunChain, DestSet, Planned, Pending, TypeInv, TypeOK
  <2>2. \A q \in Runs \ {r} : RunChain(q)'
    BY <1>12, RunChainFrame DEF RenameTmp, ChainInv, TypeInv, TypeOK
  <2> QED
    BY <1>12, <2>1, <2>2, SentinelAssumption
    DEF RenameTmp, ChainInv, TypeInv, TmpWritten
<1>13. ASSUME NEW r \in Runs, PutMeta(r)
       PROVE  ChainInv'
  <2>1. RunChain(r)'
    BY <1>13 DEF PutMeta, ChainInv, RunChain, DestSet, Planned, Pending, TypeInv, TypeOK
  <2>2. \A q \in Runs \ {r} : RunChain(q)'
    BY <1>13, RunChainFrame DEF PutMeta, ChainInv, TypeInv, TypeOK
  <2> QED
    BY <1>13, <2>1, <2>2 DEF PutMeta, ChainInv, RunChain
<1>14. ASSUME UNCHANGED vars
       PROVE  ChainInv'
  BY <1>14, RunChainFrame DEF vars, ChainInv
<1> QED
  BY <1>1, <1>2, <1>3, <1>4, <1>5, <1>6, <1>7, <1>8, <1>9, <1>10, <1>11, <1>12,
     <1>13, <1>14
  DEF Next, Advance, SkipVolume

(* The chain invariant, with the types it needs, in every behaviour.       *)
THEOREM ChainInvariant == Spec => [](TypeInv /\ ChainInv)
<1>1. Init => TypeInv /\ ChainInv
  BY TypeInvInit, ChainInit
<1>2. (TypeInv /\ ChainInv) /\ [Next]_vars => (TypeInv /\ ChainInv)'
  BY TypeInvStep, ChainStep
<1> QED
  BY <1>1, <1>2, PTL DEF Spec

(* For any number of concurrent runs on an object store, any crashes, any  *)
(* failed sends and any purges: no archive without its parent (run.rs:59,  *)
(* planner/mod.rs:212).                                                    *)
THEOREM ChainAlwaysClosed == Spec => []ChainClosed
<1>1. TypeInv /\ ChainInv => ChainClosed
  BY DEF ChainInv, ChainClosed
<1> QED
  BY <1>1, ChainInvariant, PTL

-----------------------------------------------------------------------------
(* Depths.                                                                 *)

(* compute_depth is well defined: on metadata that is closed under older   *)
(* parents, at most one function satisfies its recursion equation.         *)
LEMMA DepthUnique ==
  ASSUME NEW m \in Metas, Closed(m),
         NEW d \in [Timestamps -> Nat], IsDepth(m, d),
         NEW e \in [Timestamps -> Nat], IsDepth(m, e)
  PROVE  \A t \in Timestamps : d[t] = e[t]
<1> DEFINE S == {t \in Timestamps : d[t] # e[t]}
<1>1. SUFFICES ASSUME S # {}
               PROVE  FALSE
  OBVIOUS
<1>2. S \subseteq Nat
  BY TimestampsAssumption
<1>3. PICK x \in S : \A y \in S : x <= y
  <2> HIDE DEF S
  <2> QED
    BY <1>1, <1>2, LeastElement
<1>4. x \in Timestamps /\ x \in Nat /\ d[x] # e[x]
  BY <1>2, <1>3
<1>5. CASE ~IsIncremental(m, x)
  BY <1>4, <1>5 DEF IsDepth, DepthStep
<1>6. CASE IsIncremental(m, x)
  <2>1. m[x].parent \in Timestamps /\ m[x].parent < x
    BY <1>4, <1>6 DEF Closed, Archived, IsIncremental
  <2>2. m[x].parent \in Nat /\ ~(x <= m[x].parent)
    <3>1. m[x].parent \in Nat
      BY <2>1, TimestampsAssumption
    <3> QED
      BY <2>1, <3>1, <1>4
  <2>3. m[x].parent \notin S
    BY <1>3, <2>2
  <2>4. d[m[x].parent] = e[m[x].parent]
    BY <2>1, <2>3
  <2> QED
    BY <1>4, <1>6, <2>4 DEF IsDepth, DepthStep
<1> QED
  BY <1>5, <1>6

-----------------------------------------------------------------------------
(* The invariant.                                                          *)

(* What DepthBounded says of one metadata file.                            *)
Bounded(m) == \E d \in [Timestamps -> 0 .. MaxDepth - 1] : IsDepth(m, d)

(* From planning on, the cache of a run holds the depth of everything it   *)
(* has read, added, planned or is sending, and all of it is in bounds.     *)
RunDepth(r) ==
  pc[r] \notin {"idle", "inspect"} =>
    /\ \A t \in Timestamps : depth_cache[r][t] < MaxDepth
    /\ \A t \in Archived(dest_meta[r]) :
         depth_cache[r][t] = DepthStep(depth_cache[r], dest_meta[r], t)
    /\ \A s \in steps[r] : depth_cache[r][s.snap] = StepDepth(depth_cache[r], s.parent)
    /\ pc[r] = "send" =>
         depth_cache[r][cur[r].snap] = StepDepth(depth_cache[r], cur[r].parent)

DepthInv ==
  /\ Bounded(meta)
  /\ tmp \in Metas => Bounded(tmp)
  /\ \A r \in Runs : RunDepth(r)

(* The metadata in a run's hands is bounded.                               *)
LEMMA RunBounded ==
  ASSUME MaxDepth \in Nat \ {0}, TypeInv, ChainInv, NEW r \in Runs, RunDepth(r),
         pc[r] \notin {"idle", "inspect"}
  PROVE  Bounded(dest_meta[r])
<1> DEFINE m == dest_meta[r]
           c == depth_cache[r]
           d == [t \in Timestamps |-> IF t \in Archived(m) THEN c[t] ELSE 0]
<1>1. c \in [Timestamps -> Nat] /\ m \in Metas
  BY DEF TypeInv, TypeOK
<1>2. Closed(m)
  BY DEF ChainInv, RunChain
<1>3. \A t \in Timestamps : c[t] \in 0 .. MaxDepth - 1
  BY <1>1 DEF RunDepth
<1>4. \A t \in Archived(m) : c[t] = DepthStep(c, m, t)
  BY DEF RunDepth
<1> HIDE DEF m, c
<1>5. d \in [Timestamps -> 0 .. MaxDepth - 1]
  BY <1>3
<1>6. ASSUME NEW t \in Timestamps
      PROVE  d[t] = DepthStep(d, m, t)
  <2>1. CASE IsIncremental(m, t)
    <3>1. t \in Archived(m) /\ m[t].parent \in Archived(m)
      BY <1>2, <2>1 DEF Closed, Archived, IsIncremental
    <3>2. d[t] = c[t] /\ d[m[t].parent] = c[m[t].parent]
      BY <3>1 DEF Archived
    <3> QED
      BY <1>4, <2>1, <3>1, <3>2 DEF DepthStep
  <2>2. CASE ~IsIncremental(m, t)
    BY <1>4, <2>2 DEF DepthStep
  <2> QED
    BY <2>1, <2>2
<1>7. IsDepth(m, d)
  BY <1>6 DEF IsDepth
<1> HIDE DEF d
<1> QED
  BY <1>5, <1>7 DEF Bounded, m

(* A run whose own variables do not change keeps RunDepth.                 *)
LEMMA RunDepthFrame ==
  ASSUME NEW q \in Runs, RunDepth(q), dest_meta'[q] = dest_meta[q],
         steps'[q] = steps[q], pc'[q] = pc[q], depth_cache'[q] = depth_cache[q],
         pc[q] = "send" => cur'[q].snap = cur[q].snap /\ cur'[q].parent = cur[q].parent
  PROVE  RunDepth(q)'
BY DEF RunDepth

(* No archives, no depth.                                                  *)
LEMMA EmptyBounded ==
  ASSUME MaxDepth \in Nat \ {0}
  PROVE  Bounded(EmptyMeta)
<1> DEFINE z == [t \in Timestamps |-> 0]
<1>1. z \in [Timestamps -> 0 .. MaxDepth - 1]
  OBVIOUS
<1>2. IsDepth(EmptyMeta, z)
  BY DEF IsDepth, DepthStep, EmptyMeta, IsIncremental
<1> HIDE DEF z
<1> QED
  BY <1>1, <1>2 DEF Bounded

LEMMA DepthInit ==
  ASSUME MaxDepth \in Nat \ {0}
  PROVE  Init => DepthInv
BY EmptyBounded, SentinelAssumption DEF Init, DepthInv, RunDepth

(* The planner's cache grows only at a snapshot that nothing depends on.   *)
LEMMA DepthPlan ==
  ASSUME MaxDepth \in Nat \ {0}, TypeInv, ChainInv, DepthInv,
         NEW r \in Runs, NEW t \in Timestamps,
         PlanFull(r, t) \/ PlanIncremental(r, t)
  PROVE  RunDepth(r)'
<1> DEFINE c == depth_cache[r]
           m == dest_meta[r]
<1>1. /\ pc[r] = "plan" /\ pc'[r] = "plan"
      /\ t \notin DestSet(r)
      /\ dest_meta' = dest_meta
  BY DEF PlanFull, PlanIncremental
<1>2. /\ c \in [Timestamps -> Nat] /\ m \in Metas /\ steps[r] \subseteq Step
      /\ \A u \in Timestamps : c[u] < MaxDepth
      /\ \A u \in Archived(m) : c[u] = DepthStep(c, m, u)
      /\ \A s \in steps[r] : c[s.snap] = StepDepth(c, s.parent)
  BY <1>1 DEF TypeInv, TypeOK, DepthInv, RunDepth
<1>3. PICK p \in Parents :
        /\ steps'[r] = steps[r] \cup {[snap |-> t, parent |-> p]}
        /\ depth_cache'[r] = [c EXCEPT ![t] = StepDepth(c, p)]
        /\ StepDepth(c, p) \in 0 .. MaxDepth - 1
        /\ p # t
  <2>1. CASE PlanFull(r, t)
    <3>1. /\ steps'[r] = steps[r] \cup {[snap |-> t, parent |-> None]}
          /\ depth_cache'[r] = [c EXCEPT ![t] = 0]
      BY <2>1 DEF PlanFull, AddStep, StepDepth, TypeInv, TypeOK
    <3>2. None # t
      BY SentinelAssumption, TimestampsAssumption
    <3>3. StepDepth(c, None) = 0 /\ 0 \in 0 .. MaxDepth - 1
      BY DEF StepDepth
    <3>4. None \in Parents
      BY DEF Parents
    <3> HIDE DEF c
    <3> QED
      BY <3>1, <3>2, <3>3, <3>4
  <2>2. CASE PlanIncremental(r, t)
    <3>1. PICK p \in ParentCandidates(r, t) :
             /\ ~ForceFull(r, p, t)
             /\ steps'[r] = steps[r] \cup {[snap |-> t, parent |-> p]}
             /\ depth_cache'[r] = [c EXCEPT ![t] = StepDepth(c, p)]
      BY <2>2 DEF PlanIncremental, AddStep, TypeInv, TypeOK
    <3>2. p \in Timestamps /\ p < t
      BY DEF ParentCandidates, TypeInv, TypeOK
    <3>3. p # None /\ p # t
      BY <3>2, SentinelAssumption, TimestampsAssumption
    <3>4. MaxDepth # None
      BY SentinelAssumption
    <3>5. c[p] + 1 < MaxDepth /\ c[p] \in Nat
      BY <1>2, <3>1, <3>2, <3>4 DEF ForceFull, WouldExceedDepth
    <3> QED
      BY <3>1, <3>2, <3>3, <3>5 DEF StepDepth, Parents
  <2> QED
    BY <2>1, <2>2
<1> DEFINE e == depth_cache'[r]
<1>4. /\ e[t] = StepDepth(c, p)
      /\ \A u \in Timestamps \ {t} : e[u] = c[u]
      /\ \A u \in Timestamps : e[u] < MaxDepth
  BY <1>2, <1>3
<1>5. ASSUME NEW u \in Archived(m)
      PROVE  e[u] = DepthStep(e, m, u)
  <2>1. u \in Timestamps /\ u # t
    BY <1>1 DEF DestSet, Archived
  <2>2. IsIncremental(m, u) => m[u].parent \in Timestamps /\ m[u].parent # t
    BY <1>1 DEF ChainInv, RunChain, Closed, DestSet, Archived
  <2> QED
    BY <1>2, <1>4, <2>1, <2>2 DEF DepthStep
<1>6. ASSUME NEW s \in steps'[r]
      PROVE  e[s.snap] = StepDepth(e, s.parent)
  <2>1. CASE s = [snap |-> t, parent |-> p]
    BY <1>3, <1>4, <2>1 DEF StepDepth, Parents
  <2>2. CASE s \in steps[r]
    <3>1. s.snap \in Timestamps /\ s.snap # t
      BY <1>1, <1>2, <2>2 DEF DestSet, Planned, Step
    <3>2. s.parent # None => s.parent \in Timestamps /\ s.parent # t
      BY <1>1, <1>2, <2>2 DEF ChainInv, RunChain, Pending, Step, Parents
    <3> QED
      BY <1>2, <1>4, <2>2, <3>1, <3>2 DEF StepDepth
  <2> QED
    BY <1>3, <2>1, <2>2
<1> QED
  BY <1>1, <1>4, <1>5, <1>6 DEF RunDepth

(* Archiving what was planned keeps the cache in step with the metadata.   *)
LEMMA DepthFinish ==
  ASSUME MaxDepth \in Nat \ {0}, TypeInv, ChainInv, DepthInv, NEW r \in Runs,
         FinishSend(r) \/ FinishFailedSend(r)
  PROVE  RunDepth(r)'
<1>1. PICK st \in {"closed", "cut"} : Finish(r, st)
  BY DEF FinishSend, FinishFailedSend
<1>2. pc[r] = "send" /\ cur[r] \in Sending /\ cur[r].part # 0
  BY DEF FinishSend, FinishFailedSend, TypeInv, TypeOK, Sending, Parts
<1> DEFINE c == depth_cache[r]
           m == dest_meta[r]
           n == AddArchive(m, cur[r], st)
<1>3. /\ dest_meta'[r] = n
      /\ pc'[r] = "commit"
      /\ steps' = steps /\ depth_cache' = depth_cache
  BY <1>1 DEF Finish, plan, TypeInv, TypeOK
<1>4. m \in Metas
  BY DEF TypeInv, TypeOK
<1>5. /\ n[cur[r].snap] \in Archive
      /\ n[cur[r].snap].parent = cur[r].parent
      /\ \A t \in Timestamps \ {cur[r].snap} : n[t] = m[t]
  BY <1>2, <1>4, AddArchiveType
<1>6. Archived(n) = Archived(m) \cup {cur[r].snap}
  BY <1>2, <1>4, AddClosed DEF ChainInv, RunChain
<1>7. /\ \A t \in Archived(m) : c[t] = DepthStep(c, m, t)
      /\ c[cur[r].snap] = StepDepth(c, cur[r].parent)
      /\ \A t \in Timestamps : c[t] < MaxDepth
      /\ \A s \in steps[r] : c[s.snap] = StepDepth(c, s.parent)
  BY <1>2 DEF DepthInv, RunDepth
<1> HIDE DEF n, m, c
<1>8. ASSUME NEW t \in Archived(n)
      PROVE  c[t] = DepthStep(c, n, t)
  <2>1. CASE t = cur[r].snap
    <3>1. n[t] # None
      BY <1>5, <2>1, SentinelAssumption
    <3> QED
      BY <1>5, <1>7, <2>1, <3>1 DEF DepthStep, StepDepth, IsIncremental
  <2>2. CASE t # cur[r].snap
    BY <1>5, <1>6, <1>7, <2>2 DEF DepthStep, IsIncremental, Archived
  <2> QED
    BY <2>1, <2>2
<1> QED
  BY <1>3, <1>7, <1>8 DEF RunDepth, c

LEMMA DepthInvStep ==
  ASSUME MaxDepth \in Nat \ {0}
  PROVE  TypeInv /\ TypeInv' /\ ChainInv /\ DepthInv /\ [Next]_vars => DepthInv'
<1> SUFFICES ASSUME TypeInv, TypeInv', ChainInv, DepthInv, [Next]_vars
             PROVE  DepthInv'
  OBVIOUS
<1> USE DEF dest, plan, AddStep, Roll
<1>1. ASSUME NEW t \in Timestamps, SnapCreate(t) \/ SnapDelete(t)
      PROVE  DepthInv'
  BY <1>1, RunDepthFrame DEF SnapCreate, SnapDelete, DepthInv
<1>2. ASSUME NEW r \in Runs, InspectSource(r)
      PROVE  DepthInv'
  <2>1. RunDepth(r)'
    BY <1>2 DEF InspectSource, RunDepth, TypeInv, TypeOK
  <2>2. \A q \in Runs \ {r} : RunDepth(q)'
    BY <1>2, RunDepthFrame DEF InspectSource, DepthInv, TypeInv, TypeOK
  <2> QED
    BY <1>2, <2>1, <2>2 DEF InspectSource, DepthInv
<1>3. ASSUME NEW r \in Runs, InspectDest(r)
      PROVE  DepthInv'
  <2>1. meta \in Metas /\ Closed(meta)
    BY DEF TypeInv, TypeOK, MetaReadable, ChainInv
  <2>2. PICK d \in [Timestamps -> 0 .. Cardinality(Archived(meta))] :
           IsDepth(meta, d) /\ depth_cache'[r] = d
    BY <1>3 DEF InspectDest, TypeInv, TypeOK
  <2>3. PICK e \in [Timestamps -> 0 .. MaxDepth - 1] : IsDepth(meta, e)
    BY DEF DepthInv, Bounded
  <2>4. d \in [Timestamps -> Nat] /\ e \in [Timestamps -> Nat]
    OBVIOUS
  <2>5. \A t \in Timestamps : d[t] = e[t]
    BY <2>1, <2>2, <2>3, <2>4, DepthUnique
  <2>6. \A t \in Timestamps : d[t] < MaxDepth
    BY <2>3, <2>5
  <2>7. pc[r] = "inspect" /\ dest_meta'[r] = meta /\ steps'[r] = {} /\ pc'[r] = "plan"
    BY <1>3 DEF InspectDest, ChainInv, RunChain, TypeInv, TypeOK
  <2>8. RunDepth(r)'
    BY <2>2, <2>6, <2>7 DEF RunDepth, IsDepth, Archived
  <2>9. \A q \in Runs \ {r} : RunDepth(q)'
    BY <1>3, RunDepthFrame DEF InspectDest, DepthInv, TypeInv, TypeOK
  <2> QED
    BY <1>3, <2>8, <2>9 DEF InspectDest, DepthInv
<1>4. ASSUME NEW r \in Runs, Plan(r)
      PROVE  DepthInv'
  <2>1. PICK t \in Timestamps : PlanSkip(r, t) \/ PlanFull(r, t) \/ PlanIncremental(r, t)
    BY <1>4 DEF Plan
  <2>2. RunDepth(r)'
    <3>1. CASE PlanSkip(r, t)
      BY <3>1, RunDepthFrame DEF PlanSkip, DepthInv
    <3> QED
      BY <2>1, <3>1, DepthPlan
  <2>3. \A q \in Runs \ {r} : RunDepth(q)'
    BY <2>1, RunDepthFrame
    DEF PlanSkip, PlanFull, PlanIncremental, DepthInv, TypeInv, TypeOK
  <2> QED
    BY <2>1, <2>2, <2>3 DEF PlanSkip, PlanFull, PlanIncremental, DepthInv
<1>5. ASSUME NEW r \in Runs, UpToDate(r) \/ FinishRun(r) \/ Fail(r)
      PROVE  DepthInv'
  <2>1. Exit(r) /\ UNCHANGED dest
    BY <1>5 DEF UpToDate, FinishRun, Fail
  <2>2. RunDepth(r)'
    BY <2>1 DEF Exit, RunDepth, TypeInv, TypeOK
  <2>3. \A q \in Runs \ {r} : RunDepth(q)'
    BY <2>1, RunDepthFrame DEF Exit, DepthInv, TypeInv, TypeOK
  <2> QED
    BY <2>1, <2>2, <2>3 DEF DepthInv
<1>6. ASSUME NEW r \in Runs, ExecutePlan(r)
      PROVE  DepthInv'
  <2>1. RunDepth(r)'
    BY <1>6 DEF ExecutePlan, DepthInv, RunDepth, TypeInv, TypeOK
  <2>2. \A q \in Runs \ {r} : RunDepth(q)'
    BY <1>6, RunDepthFrame DEF ExecutePlan, DepthInv, TypeInv, TypeOK
  <2> QED
    BY <1>6, <2>1, <2>2 DEF ExecutePlan, DepthInv
<1>7. ASSUME NEW r \in Runs, StartSend(r)
      PROVE  DepthInv'
  <2>1. PICK s \in steps[r] :
           /\ cur'[r].snap = s.snap
           /\ cur'[r].parent = s.parent
           /\ steps'[r] = steps[r] \ {s}
    BY <1>7 DEF StartSend, TypeInv, TypeOK
  <2>2. RunDepth(r)'
    <3>1. /\ pc[r] = "run"
          /\ dest_meta' = dest_meta
          /\ depth_cache' = depth_cache
      BY <1>7 DEF StartSend
    <3>2. steps'[r] \subseteq steps[r]
      BY <2>1
    <3> QED
      BY <2>1, <3>1, <3>2 DEF DepthInv, RunDepth
  <2>3. \A q \in Runs \ {r} : RunDepth(q)'
    BY <1>7, RunDepthFrame DEF StartSend, DepthInv, TypeInv, TypeOK
  <2> QED
    BY <1>7, <2>2, <2>3 DEF StartSend, DepthInv
<1>8. ASSUME NEW r \in Runs, RollNext(r)
      PROVE  DepthInv'
  <2>1. cur'[r].snap = cur[r].snap /\ cur'[r].parent = cur[r].parent
    BY <1>8 DEF RollNext, TypeInv, TypeOK, Sending
  <2>2. \A q \in Runs : RunDepth(q)'
    BY <1>8, <2>1, RunDepthFrame DEF RollNext, DepthInv, TypeInv, TypeOK
  <2> QED
    BY <1>8, <2>2 DEF RollNext, DepthInv
<1>9. ASSUME NEW r \in Runs, FinishSend(r) \/ FinishFailedSend(r)
      PROVE  DepthInv'
  <2>1. RunDepth(r)'
    BY <1>9, DepthFinish
  <2>2. PICK st \in {"closed", "cut"} : Finish(r, st)
    BY <1>9 DEF FinishSend, FinishFailedSend
  <2>3. \A q \in Runs \ {r} : RunDepth(q)'
    BY <2>2, RunDepthFrame DEF Finish, DepthInv, TypeInv, TypeOK
  <2> QED
    BY <2>1, <2>2, <2>3 DEF Finish, DepthInv
<1>10. ASSUME NEW r \in Runs, CreateTmp(r) \/ WriteTmp(r) \/ RenameTmp(r) \/ PutMeta(r)
       PROVE  DepthInv'
  <2>1. pc[r] \in {"commit", "tmp", "rename"} /\ Bounded(dest_meta[r])
    BY <1>10, RunBounded DEF CreateTmp, WriteTmp, RenameTmp, PutMeta, DepthInv
  <2>2. RunDepth(r)'
    <3>1. /\ pc'[r] # "send"
          /\ dest_meta' = dest_meta
          /\ depth_cache' = depth_cache
          /\ steps' = steps
      BY <1>10 DEF CreateTmp, WriteTmp, RenameTmp, PutMeta, TypeInv, TypeOK
    <3> QED
      BY <2>1, <3>1 DEF DepthInv, RunDepth
  <2>3. \A q \in Runs \ {r} : RunDepth(q)'
    BY <1>10, RunDepthFrame
    DEF CreateTmp, WriteTmp, RenameTmp, PutMeta, DepthInv, TypeInv, TypeOK
  <2>4. RenameTmp(r) => tmp \in Metas
    BY DEF RenameTmp, TypeInv, TmpWritten
  <2> QED
    BY <1>10, <2>1, <2>2, <2>3, <2>4, SentinelAssumption
    DEF CreateTmp, WriteTmp, RenameTmp, PutMeta, DepthInv
<1>11. ASSUME UNCHANGED vars
       PROVE  DepthInv'
  BY <1>11, RunDepthFrame DEF vars, DepthInv
<1> QED
  BY <1>1, <1>2, <1>3, <1>4, <1>5, <1>6, <1>7, <1>8, <1>9, <1>10, <1>11
  DEF Next, Advance, SkipVolume

(* No chain of incrementals in the metadata reaches max_incremental_depth  *)
(* (planner/mod.rs:83-97).                                                 *)
THEOREM DepthAlwaysBounded == Spec => []DepthBounded
<1>1. CASE MaxDepth = None
  <2>1. DepthBounded
    BY <1>1 DEF DepthBounded
  <2> QED
    BY <2>1, PTL
<1>2. CASE MaxDepth \in Nat \ {0}
  <2>1. Init => TypeInv /\ ChainInv /\ DepthInv
    BY <1>2, TypeInvInit, ChainInit, DepthInit
  <2>2. (TypeInv /\ ChainInv /\ DepthInv) /\ [Next]_vars
          => (TypeInv /\ ChainInv /\ DepthInv)'
    BY <1>2, TypeInvStep, ChainStep, DepthInvStep
  <2>3. TypeInv /\ ChainInv /\ DepthInv => DepthBounded
    BY DEF DepthInv, Bounded, DepthBounded
  <2> QED
    BY <2>1, <2>2, <2>3, PTL DEF Spec
<1> QED
  BY <1>1, <1>2, PolicyAssumption

=============================================================================
