------------------------- MODULE BackupArchiveProofs -------------------------
(***************************************************************************)
(* Proofs about what the metadata records: whole streams, the bytes that   *)
(* are on the destination, and nothing that a later step takes back; and   *)
(* that a single run at a time implements ArchiveStore.                    *)
(***************************************************************************)
EXTENDS BackupRefines, BackupRunProofs

-----------------------------------------------------------------------------
(* Archives are complete.                                                  *)

(* `btrfs send` exits with 0 for a snapshot that is there, and btrbk keeps *)
(* its hands off the source directory during a run.                        *)
SendsSucceed == ~SendMayFail /\ ~PurgeInRun

AllComplete(m) == \A t \in Archived(m) : Complete(m[t])

(* Whatever a run still has to send, or builds on, is there to be sent.    *)
Sendable(r, s) == {s.snap, s.parent} \ {None} \subseteq src_state[r]

SourceStays(r) ==
  /\ pc[r] # "idle" =>
       /\ src_state[r] \subseteq Present
       /\ \A s \in steps[r] : Sendable(r, s)
  /\ pc[r] = "plan" => todo[r] \subseteq src_state[r]
  /\ pc[r] = "send" => Sendable(r, cur[r])

CompleteInv ==
  /\ AllComplete(meta)
  /\ tmp \in Metas => AllComplete(tmp)
  /\ \A r \in Runs : AllComplete(dest_meta[r]) /\ SourceStays(r)

LEMMA EmptyComplete == AllComplete(EmptyMeta)
BY DEF AllComplete, Archived, EmptyMeta

(* The archive of a stream that was written to its end is complete.        *)
LEMMA AddComplete ==
  ASSUME NEW m \in Metas, AllComplete(m), NEW c \in Sending, c.part = c.of
  PROVE  AllComplete(AddArchive(m, c, "closed"))
<1> DEFINE n == AddArchive(m, c, "closed")
<1>1. /\ c.part # 0
      /\ c.of \in Parts
      /\ c.snap \in Timestamps
  BY DEF Sending, Parts
<1>2. \A t \in Timestamps \ {c.snap} : n[t] = m[t]
  BY <1>1, AddArchiveType
<1>3. n[c.snap] = [parent |-> c.parent, chunks |-> WrittenChunks(c, "closed")]
  BY <1>1 DEF AddArchive, Metas
<1> HIDE DEF n
<1>4. Complete(n[c.snap])
  <2>1. n[c.snap].parent = c.parent /\ n[c.snap].chunks = WrittenChunks(c, "closed")
    BY <1>3
  <2>2. \A i \in 1 .. c.of :
          Chunk(c, i, "closed") = Chunk([parent |-> c.parent, of |-> c.of], i, "closed")
    BY DEF Chunk
  <2>3. WrittenChunks(c, "closed")
          = [i \in 1 .. c.of |-> Chunk([parent |-> c.parent, of |-> c.of], i, "closed")]
    BY <2>2 DEF WrittenChunks
  <2> QED
    BY <1>1, <2>1, <2>3 DEF Complete
<1>5. ASSUME NEW t \in Archived(n)
      PROVE  Complete(n[t])
  BY <1>2, <1>4 DEF AllComplete, Archived
<1> QED
  BY <1>5 DEF AllComplete, n

(* Only btrbk changes the source directory, and a run whose own variables  *)
(* do not change keeps SourceStays while it does not.                      *)
LEMMA SourceFrame ==
  ASSUME NEW q \in Runs, SourceStays(q), pc'[q] = pc[q],
         src_state'[q] = src_state[q], todo'[q] = todo[q], steps'[q] = steps[q],
         Present \subseteq Present' \/ pc[q] = "idle",
         pc[q] = "send" => cur'[q].snap = cur[q].snap /\ cur'[q].parent = cur[q].parent
  PROVE  SourceStays(q)'
BY DEF SourceStays, Sendable

LEMMA CompleteInit == Init => CompleteInv
BY EmptyComplete, SentinelAssumption
DEF Init, CompleteInv, SourceStays

LEMMA CompleteExit ==
  ASSUME TypeInv, CompleteInv, NEW r \in Runs, Exit(r), UNCHANGED <<snaps, dest>>
  PROVE  CompleteInv'
<1>1. SourceStays(r)' /\ AllComplete(dest_meta'[r])
  BY EmptyComplete DEF Exit, SourceStays, TypeInv, TypeOK
<1>2. \A q \in Runs \ {r} : SourceStays(q)' /\ dest_meta'[q] = dest_meta[q]
  BY SourceFrame DEF Exit, CompleteInv, TypeInv, TypeOK, Present
<1> QED
  BY <1>1, <1>2 DEF CompleteInv, dest

LEMMA CompleteStep ==
  ASSUME SendsSucceed, TypeInv, ChainInv, CompleteInv, [Next]_vars
  PROVE  CompleteInv'
<1> USE DEF dest, plan, AddStep, Roll
<1>1. ASSUME NEW t \in Timestamps, SnapCreate(t)
      PROVE  CompleteInv'
  <2>1. Present \subseteq Present'
    BY <1>1 DEF SnapCreate, Present, TypeInv, TypeOK
  <2> QED
    BY <1>1, <2>1, SourceFrame DEF SnapCreate, CompleteInv
<1>2. ASSUME NEW t \in Timestamps, SnapDelete(t)
      PROVE  CompleteInv'
  BY <1>2, SourceFrame DEF SnapDelete, CompleteInv, SendsSucceed
<1>3. ASSUME NEW r \in Runs, InspectSource(r)
      PROVE  CompleteInv'
  <2>1. SourceStays(r)'
    BY <1>3 DEF InspectSource, CompleteInv, SourceStays, ChainInv, RunChain, TypeInv,
                TypeOK, Present
  <2>2. \A q \in Runs \ {r} : SourceStays(q)'
    BY <1>3, SourceFrame DEF InspectSource, CompleteInv, TypeInv, TypeOK, Present
  <2> QED
    BY <1>3, <2>1, <2>2 DEF InspectSource, CompleteInv
<1>4. ASSUME NEW r \in Runs, InspectDest(r)
      PROVE  CompleteInv'
  <2>1. SourceStays(r)'
    BY <1>4 DEF InspectDest, CompleteInv, SourceStays, Sendable, TypeInv, TypeOK, Present
  <2>2. \A q \in Runs \ {r} : SourceStays(q)' /\ dest_meta'[q] = dest_meta[q]
    BY <1>4, SourceFrame DEF InspectDest, CompleteInv, TypeInv, TypeOK, Present
  <2>3. dest_meta'[r] = meta
    BY <1>4 DEF InspectDest, TypeInv, TypeOK
  <2> QED
    BY <1>4, <2>1, <2>2, <2>3 DEF InspectDest, CompleteInv
<1>5. ASSUME NEW r \in Runs, Plan(r)
      PROVE  CompleteInv'
  <2>1. PICK t \in Timestamps : PlanSkip(r, t) \/ PlanFull(r, t) \/ PlanIncremental(r, t)
    BY <1>5 DEF Plan
  <2>2. /\ pc[r] = "plan"
        /\ t \in todo[r]
        /\ todo'[r] = todo[r] \ {t}
        /\ UNCHANGED <<snaps, dest, pc, src_state, dest_meta, cur>>
    BY <2>1 DEF PlanSkip, PlanFull, PlanIncremental, IsOldest, TypeInv, TypeOK
  <2>3. \A q \in Runs \ {r} : SourceStays(q)'
    BY <2>1, <2>2, SourceFrame
    DEF PlanSkip, PlanFull, PlanIncremental, CompleteInv, TypeInv, TypeOK, Present
  <2>4. \A s \in steps'[r] \ steps[r] :
          s.snap = t /\ (s.parent = None \/ s.parent \in src_state[r])
    <3>1. CASE PlanSkip(r, t)
      BY <3>1 DEF PlanSkip
    <3>2. CASE PlanFull(r, t)
      BY <3>2 DEF PlanFull, TypeInv, TypeOK
    <3>3. CASE PlanIncremental(r, t)
      <4>1. PICK p \in ParentCandidates(r, t) :
               steps'[r] = steps[r] \cup {[snap |-> t, parent |-> p]}
        BY <3>3 DEF PlanIncremental, TypeInv, TypeOK
      <4> QED
        BY <4>1 DEF ParentCandidates
    <3> QED
      BY <2>1, <3>1, <3>2, <3>3
  <2>5. t \in src_state[r] /\ src_state[r] \subseteq Present /\ Present' = Present
    BY <2>2 DEF CompleteInv, SourceStays, Present
  <2>6. \A s \in steps'[r] : Sendable(r, s)'
    BY <2>2, <2>4, <2>5 DEF CompleteInv, SourceStays, Sendable
  <2>7. SourceStays(r)'
    BY <2>2, <2>5, <2>6 DEF CompleteInv, SourceStays
  <2> QED
    BY <2>2, <2>3, <2>7 DEF CompleteInv
<1>6. ASSUME NEW r \in Runs, UpToDate(r) \/ FinishRun(r) \/ Fail(r)
      PROVE  CompleteInv'
  <2>1. Exit(r) /\ UNCHANGED <<snaps, dest>>
    BY <1>6 DEF UpToDate, FinishRun, Fail
  <2> QED
    BY <2>1, CompleteExit
<1>7. ASSUME NEW r \in Runs, ExecutePlan(r)
      PROVE  CompleteInv'
  <2>1. SourceStays(r)'
    BY <1>7 DEF ExecutePlan, CompleteInv, SourceStays, Sendable, TypeInv, TypeOK, Present
  <2>2. \A q \in Runs \ {r} : SourceStays(q)'
    BY <1>7, SourceFrame DEF ExecutePlan, CompleteInv, TypeInv, TypeOK, Present
  <2> QED
    BY <1>7, <2>1, <2>2 DEF ExecutePlan, CompleteInv
<1>8. ASSUME NEW r \in Runs, StartSend(r)
      PROVE  CompleteInv'
  <2>1. PICK s \in steps[r], n \in Parts :
           /\ cur' = [cur EXCEPT ![r] = [snap |-> s.snap, parent |-> s.parent,
                                         of |-> n, part |-> 0]]
           /\ steps' = [steps EXCEPT ![r] = @ \ {s}]
    BY <1>8 DEF StartSend
  <2>2. /\ cur'[r].snap = s.snap
        /\ cur'[r].parent = s.parent
        /\ steps'[r] \subseteq steps[r]
        /\ pc[r] = "run"
        /\ pc'[r] = "send"
        /\ UNCHANGED <<snaps, dest, src_state, dest_meta>>
    BY <1>8, <2>1 DEF StartSend, TypeInv, TypeOK
  <2>3. SourceStays(r)'
    BY <2>2 DEF CompleteInv, SourceStays, Sendable, Present
  <2>4. \A q \in Runs \ {r} : SourceStays(q)'
    BY <1>8, <2>1, SourceFrame DEF StartSend, CompleteInv, TypeInv, TypeOK, Present
  <2> QED
    BY <2>2, <2>3, <2>4 DEF CompleteInv
<1>9. ASSUME NEW r \in Runs, RollNext(r)
      PROVE  CompleteInv'
  <2>1. cur'[r].snap = cur[r].snap /\ cur'[r].parent = cur[r].parent
    BY <1>9 DEF RollNext, TypeInv, TypeOK, Sending
  <2>2. \A q \in Runs : SourceStays(q)'
    BY <1>9, <2>1, SourceFrame DEF RollNext, CompleteInv, TypeInv, TypeOK, Present
  <2> QED
    BY <1>9, <2>2 DEF RollNext, CompleteInv
<1>10. ASSUME NEW r \in Runs, FinishSend(r)
       PROVE  CompleteInv'
  <2>1. /\ Finish(r, "closed")
        /\ cur[r] \in Sending
        /\ cur[r].part = cur[r].of
        /\ dest_meta[r] \in Metas
    BY <1>10 DEF FinishSend, TypeInv, TypeOK
  <2>2. dest_meta'[r] = AddArchive(dest_meta[r], cur[r], "closed")
    BY <2>1 DEF Finish, TypeInv, TypeOK
  <2>3. AllComplete(dest_meta'[r])
    BY <2>1, <2>2, AddComplete DEF CompleteInv
  <2>4. SourceStays(r)'
    BY <1>10, <2>1 DEF FinishSend, Finish, CompleteInv, SourceStays, Sendable, TypeInv,
                       TypeOK, Present
  <2>5. \A q \in Runs \ {r} : SourceStays(q)' /\ dest_meta'[q] = dest_meta[q]
    BY <2>1, SourceFrame DEF Finish, CompleteInv, TypeInv, TypeOK, Present
  <2> QED
    BY <2>1, <2>3, <2>4, <2>5 DEF Finish, CompleteInv
<1>11. ASSUME NEW r \in Runs, FinishFailedSend(r)
       PROVE  FALSE
  BY <1>11 DEF FinishFailedSend, SendsSucceed, CompleteInv, SourceStays, Sendable, Streaming
<1>12. ASSUME NEW r \in Runs, CreateTmp(r) \/ WriteTmp(r) \/ RenameTmp(r) \/ PutMeta(r)
       PROVE  CompleteInv'
  <2>1. /\ pc[r] \in {"commit", "tmp", "rename"}
        /\ pc'[r] \in {"tmp", "rename", "run"}
        /\ UNCHANGED <<snaps, src_state, todo, steps, dest_meta>>
    BY <1>12 DEF CreateTmp, WriteTmp, RenameTmp, PutMeta, TypeInv, TypeOK
  <2>2. SourceStays(r)'
    BY <2>1 DEF CompleteInv, SourceStays, Sendable, Present
  <2>3. \A q \in Runs \ {r} : SourceStays(q)'
    BY <1>12, <2>1, SourceFrame
    DEF CreateTmp, WriteTmp, RenameTmp, PutMeta, CompleteInv, TypeInv, TypeOK, Present
  <2>4. CASE CreateTmp(r)
    BY <2>1, <2>2, <2>3, <2>4, SentinelAssumption DEF CreateTmp, CompleteInv
  <2>5. CASE WriteTmp(r)
    BY <2>1, <2>2, <2>3, <2>5 DEF WriteTmp, CompleteInv
  <2>6. CASE RenameTmp(r)
    BY <2>1, <2>2, <2>3, <2>6, SentinelAssumption
    DEF RenameTmp, CompleteInv, TypeInv, TmpWritten
  <2>7. CASE PutMeta(r)
    BY <2>1, <2>2, <2>3, <2>7 DEF PutMeta, CompleteInv
  <2> QED
    BY <1>12, <2>4, <2>5, <2>6, <2>7
<1>13. ASSUME UNCHANGED vars
       PROVE  CompleteInv'
  BY <1>13, SourceFrame DEF vars, CompleteInv, Present
<1> QED
  BY <1>1, <1>2, <1>3, <1>4, <1>5, <1>6, <1>7, <1>8, <1>9, <1>10, <1>11, <1>12, <1>13
  DEF Next, Advance, SkipVolume

(* With sends that succeed, the invariant holds in every behaviour, of any *)
(* number of runs that overlap or are killed at any point.                 *)
THEOREM CompleteInvariant ==
  ASSUME SendsSucceed
  PROVE  Spec => [](TypeInv /\ ChainInv /\ CompleteInv)
<1> DEFINE Inv == TypeInv /\ ChainInv /\ CompleteInv
<1>1. Init => Inv
  BY TypeInvInit, ChainInit, CompleteInit
<1>2. Inv /\ [Next]_vars => Inv'
  BY TypeInvStep, ChainStep, CompleteStep
<1> QED
  BY <1>1, <1>2, PTL DEF Spec

(* What the metadata records is the whole stream of the snapshot, however  *)
(* many runs overlap and wherever they are killed, as long as `btrfs send` *)
(* does not fail and btrbk deletes nothing during a run.  Without these    *)
(* two hypotheses the run found_cut_archive shows the contrary.            *)
THEOREM ArchivesAlwaysComplete ==
  ASSUME SendsSucceed
  PROVE  Spec => []ArchivesComplete
<1>1. CompleteInv => ArchivesComplete
  BY DEF CompleteInv, AllComplete, ArchivesComplete
<1> QED
  BY <1>1, CompleteInvariant, PTL

-----------------------------------------------------------------------------
(* Archives are intact, and stay.                                          *)

(* One process at a time: a lock, a systemd unit or a user who waits.      *)
OneRun == \A r, s \in Runs : r = s

Intact(m) ==
  \A t \in Archived(m) : \A i \in DOMAIN m[t].chunks : files[t][i] = m[t].chunks[i]

(* n is m, perhaps with an archive of u, which m lacks.                    *)
Extends(n, m, u) == u \notin Archived(m) /\ \A t \in Timestamps \ {u} : n[t] = m[t]

(* The metadata a run holds is what is stored, or that and the archive it  *)
(* has just finished.                                                      *)
RunMeta(r) ==
  /\ pc[r] \in {"plan", "run", "send"} => dest_meta[r] = meta
  /\ pc[r] \in {"commit", "tmp", "rename"} => Extends(dest_meta[r], meta, cur[r].snap)
  /\ pc[r] = "rename" => tmp = dest_meta[r]

(* The chunks before the one being written are closed, and they are not    *)
(* those of an archive that is stored or will be written again.            *)
RunSends(r) ==
  pc[r] = "send" =>
    /\ cur[r].snap \notin Archived(meta) \cup Planned(r)
    /\ \A i \in Parts :
         i < cur[r].part => files[cur[r].snap][i] = Chunk(cur[r], i, "closed")

RunPlans(r) ==
  \A s \in steps[r] :
    /\ s.snap \notin Archived(dest_meta[r])
    /\ \A u \in steps[r] : s.snap = u.snap => s = u

(* Every snapshot the run listed is archived, planned or yet to be seen by *)
(* the planner's loop.                                                     *)
RunCovers(r) ==
  /\ pc[r] # "plan" => todo[r] = {}
  /\ pc[r] \notin {"idle", "inspect"} =>
       src_state[r] \subseteq todo[r] \cup DestSet(r) \cup Pending(r)

IntactInv ==
  /\ Intact(meta)
  /\ \A r \in Runs :
       Intact(dest_meta[r]) /\ RunMeta(r) /\ RunSends(r) /\ RunPlans(r) /\ RunCovers(r)

LEMMA EmptyIntact == Intact(EmptyMeta)
BY DEF Intact, Archived, EmptyMeta

(* Writing the chunks of another snapshot leaves an archive intact.        *)
LEMMA IntactFrame ==
  ASSUME NEW m, Intact(m),
         \A t \in Archived(m) : files'[t] = files[t]
  PROVE  Intact(m)'
BY DEF Intact, Archived

LEMMA IntactInit == Init => IntactInv
BY EmptyIntact, SentinelAssumption
DEF Init, IntactInv, RunMeta, RunSends, RunPlans, RunCovers

(* What a chunk writer leaves in the directory of its snapshot.            *)
LEMMA ChunkWritten ==
  ASSUME NEW fs \in [Timestamps -> [Parts -> Content \cup {None}]],
         NEW c \in Sending, NEW st \in {"closed", "cut"}
  PROVE  /\ \A t \in Timestamps \ {c.snap} : CloseChunk(fs, c, st)[t] = fs[t]
         /\ \A i \in Parts : i < c.part => CloseChunk(fs, c, st)[c.snap][i] = fs[c.snap][i]
         /\ c.part # 0 => CloseChunk(fs, c, st)[c.snap][c.part] = Chunk(c, c.part, st)
BY BoundsAssumption DEF CloseChunk, Sending, Parts

LEMMA ChunkOpened ==
  ASSUME NEW fs \in [Timestamps -> [Parts -> Content \cup {None}]],
         NEW c \in Sending, NEW i \in Parts
  PROVE  /\ \A t \in Timestamps \ {c.snap} : OpenChunk(fs, c, i)[t] = fs[t]
         /\ \A j \in Parts : j < i => OpenChunk(fs, c, i)[c.snap][j] = fs[c.snap][j]
BY BoundsAssumption DEF OpenChunk, Sending, Parts

(* The files and the metadata after a run has written its last chunk.      *)
LEMMA FinishIntact ==
  ASSUME TypeInv, IntactInv, NEW r \in Runs, NEW st \in {"closed", "cut"},
         pc[r] = "send", cur[r].part # 0, Finish(r, st)
  PROVE  /\ \A t \in Timestamps \ {cur[r].snap} : files'[t] = files[t]
         /\ Intact(meta)'
         /\ Intact(dest_meta[r])'
<1> DEFINE c == cur[r]
           m == dest_meta[r]
           n == AddArchive(m, c, st)
<1>1. /\ c \in Sending
      /\ c.part \in Parts
      /\ c.snap \in Timestamps
      /\ m \in Metas
      /\ m = meta
      /\ files \in [Timestamps -> [Parts -> Content \cup {None}]]
  BY DEF TypeInv, TypeOK, Sending, Parts, IntactInv, RunMeta
<1>2. /\ files' = CloseChunk(files, c, st)
      /\ meta' = meta
      /\ dest_meta'[r] = n
  BY <1>1 DEF Finish, TypeInv, TypeOK
<1>3. /\ c.snap \notin Archived(meta)
      /\ \A i \in Parts : i < c.part => files[c.snap][i] = Chunk(c, i, "closed")
  BY DEF IntactInv, RunSends
<1>4. /\ \A t \in Timestamps \ {c.snap} : n[t] = m[t]
      /\ n[c.snap].chunks = WrittenChunks(c, st)
  BY <1>1, AddArchiveType DEF AddArchive, Metas
<1> HIDE DEF n, c
<1>5. \A t \in Timestamps \ {c.snap} : files'[t] = files[t]
  BY <1>1, <1>2, ChunkWritten
<1>6. \A i \in Parts : i < c.part => files'[c.snap][i] = Chunk(c, i, "closed")
  BY <1>1, <1>2, <1>3, ChunkWritten
<1>7. files'[c.snap][c.part] = Chunk(c, c.part, st)
  BY <1>1, <1>2, ChunkWritten DEF c
<1>8. Intact(meta)'
  BY <1>2, <1>3, <1>5, IntactFrame DEF IntactInv, Archived
<1>9. ASSUME NEW i \in 1 .. c.part
      PROVE  files'[c.snap][i] = WrittenChunks(c, st)[i]
  <2>1. CASE i = c.part
    BY <1>7, <2>1 DEF WrittenChunks
  <2>2. CASE i # c.part
    <3>1. i \in Parts /\ i < c.part
      BY <1>1, <2>2, BoundsAssumption DEF Parts
    <3> QED
      BY <1>6, <2>2, <3>1 DEF WrittenChunks
  <2> QED
    BY <2>1, <2>2
<1>10. DOMAIN WrittenChunks(c, st) = 1 .. c.part
  BY DEF WrittenChunks
<1>11. ASSUME NEW t \in Archived(n), NEW i \in DOMAIN n[t].chunks
       PROVE  files'[t][i] = n[t].chunks[i]
  <2>1. CASE t = c.snap
    BY <1>4, <1>9, <1>10, <1>11, <2>1
  <2>2. CASE t # c.snap
    <3>1. t \in Timestamps \ {c.snap} /\ n[t] = m[t] /\ t \in Archived(m)
      BY <1>4, <2>2 DEF Archived
    <3> QED
      BY <1>1, <1>5, <1>11, <3>1 DEF IntactInv, Intact
  <2> QED
    BY <2>1, <2>2
<1>12. Intact(dest_meta[r])'
  BY <1>2, <1>11 DEF Intact
<1> QED
  BY <1>5, <1>8, <1>12 DEF c

(* A process that ends forgets; what is stored stays as it is.             *)
LEMMA IntactExit ==
  ASSUME OneRun, TypeInv, IntactInv, NEW r \in Runs, Exit(r), UNCHANGED dest
  PROVE  IntactInv'
<1>1. /\ pc'[r] = "idle"
      /\ dest_meta'[r] = EmptyMeta
      /\ steps'[r] = {}
      /\ todo'[r] = {}
      /\ UNCHANGED <<files, meta>>
  BY DEF Exit, dest, TypeInv, TypeOK
<1>2. Intact(EmptyMeta)'
  BY EmptyIntact DEF Intact, Archived, EmptyMeta
<1>3. Intact(meta)'
  BY <1>1 DEF IntactInv, Intact
<1>4. Intact(dest_meta[r])' /\ RunMeta(r)' /\ RunSends(r)' /\ RunPlans(r)' /\ RunCovers(r)'
  BY <1>1, <1>2 DEF RunMeta, RunSends, RunPlans, RunCovers, Intact
<1> QED
  BY <1>3, <1>4 DEF IntactInv, OneRun

LEMMA IntactStep ==
  ASSUME OneRun, TypeInv, ChainInv, IntactInv, [Next]_vars
  PROVE  IntactInv'
<1> USE DEF dest, plan, AddStep, Roll
<1>1. ASSUME NEW t \in Timestamps, SnapCreate(t) \/ SnapDelete(t)
      PROVE  IntactInv'
  BY <1>1 DEF SnapCreate, SnapDelete, IntactInv, Intact, RunMeta, RunSends, RunPlans,
              RunCovers, DestSet, Planned, Pending
<1>2. ASSUME NEW r \in Runs, InspectSource(r)
      PROVE  IntactInv'
  <2>1. pc[r] = "idle" /\ pc'[r] = "inspect" /\ UNCHANGED <<dest, plan, dest_meta, cur>>
    BY <1>2 DEF InspectSource, TypeInv, TypeOK
  <2>2. RunMeta(r)' /\ RunSends(r)' /\ RunPlans(r)' /\ RunCovers(r)'
    BY <2>1 DEF IntactInv, RunMeta, RunSends, RunPlans, RunCovers
  <2> QED
    BY <2>1, <2>2 DEF IntactInv, Intact, OneRun
<1>3. ASSUME NEW r \in Runs, InspectDest(r)
      PROVE  IntactInv'
  <2>1. /\ pc[r] = "inspect"
        /\ pc'[r] = "plan"
        /\ dest_meta'[r] = meta
        /\ todo'[r] = src_state[r]
        /\ steps'[r] = {}
        /\ UNCHANGED <<dest, src_state>>
    BY <1>3 DEF InspectDest, ChainInv, RunChain, TypeInv, TypeOK
  <2>2. RunMeta(r)' /\ RunSends(r)' /\ RunPlans(r)' /\ RunCovers(r)'
    BY <2>1 DEF RunMeta, RunSends, RunPlans, RunCovers
  <2>3. Intact(meta)' /\ Intact(dest_meta[r])'
    BY <2>1 DEF IntactInv, Intact
  <2> QED
    BY <2>2, <2>3 DEF IntactInv, OneRun
<1>4. ASSUME NEW r \in Runs, Plan(r)
      PROVE  IntactInv'
  <2>1. PICK t \in Timestamps : PlanSkip(r, t) \/ PlanFull(r, t) \/ PlanIncremental(r, t)
    BY <1>4 DEF Plan
  <2>2. /\ pc[r] = "plan"
        /\ todo'[r] = todo[r] \ {t}
        /\ UNCHANGED <<dest, pc, src_state, dest_meta, cur>>
    BY <2>1 DEF PlanSkip, PlanFull, PlanIncremental, TypeInv, TypeOK
  <2>3. \/ t \in DestSet(r) /\ steps'[r] = steps[r]
        \/ /\ t \notin DestSet(r)
           /\ \E p \in Parents : steps'[r] = steps[r] \cup {[snap |-> t, parent |-> p]}
    <3>1. CASE PlanSkip(r, t)
      BY <3>1 DEF PlanSkip
    <3>2. CASE PlanFull(r, t)
      BY <3>2 DEF PlanFull, Parents, TypeInv, TypeOK
    <3>3. CASE PlanIncremental(r, t)
      <4>1. PICK p \in ParentCandidates(r, t) :
               steps'[r] = steps[r] \cup {[snap |-> t, parent |-> p]}
        BY <3>3 DEF PlanIncremental, TypeInv, TypeOK
      <4>2. p \in Parents
        BY DEF ParentCandidates, Parents, TypeInv, TypeOK
      <4> QED
        BY <3>3, <4>1, <4>2 DEF PlanIncremental
    <3> QED
      BY <2>1, <3>1, <3>2, <3>3
  <2>4. t \in DestSet(r)' /\ DestSet(r) \subseteq DestSet(r)'
    <3>1. CASE t \in DestSet(r) /\ steps'[r] = steps[r]
      BY <2>2, <3>1 DEF DestSet, Planned
    <3>2. ASSUME NEW p \in Parents,
                 steps'[r] = steps[r] \cup {[snap |-> t, parent |-> p]}
          PROVE  t \in Planned(r)' /\ Planned(r) \subseteq Planned(r)'
      BY <3>2 DEF Planned
    <3> QED
      BY <2>2, <2>3, <3>1, <3>2 DEF DestSet
  <2>5. RunCovers(r)'
    BY <2>2, <2>4 DEF IntactInv, RunCovers, Pending
  <2>6. RunPlans(r)'
    BY <2>2, <2>3 DEF IntactInv, RunPlans, DestSet, Planned
  <2>7. RunMeta(r)' /\ RunSends(r)'
    BY <2>2 DEF IntactInv, RunMeta, RunSends
  <2> QED
    BY <2>2, <2>5, <2>6, <2>7 DEF IntactInv, Intact, OneRun
<1>5. ASSUME NEW r \in Runs, UpToDate(r) \/ FinishRun(r) \/ Fail(r)
      PROVE  IntactInv'
  <2>1. Exit(r) /\ UNCHANGED dest
    BY <1>5 DEF UpToDate, FinishRun, Fail
  <2> QED
    BY <2>1, IntactExit
<1>6. ASSUME NEW r \in Runs, ExecutePlan(r)
      PROVE  IntactInv'
  <2>1. /\ pc[r] = "plan"
        /\ pc'[r] = "run"
        /\ todo[r] = {}
        /\ UNCHANGED <<dest, src_state, plan, dest_meta, cur>>
    BY <1>6 DEF ExecutePlan, TypeInv, TypeOK
  <2>2. RunMeta(r)' /\ RunSends(r)' /\ RunPlans(r)' /\ RunCovers(r)'
    BY <2>1 DEF IntactInv, RunMeta, RunSends, RunPlans, RunCovers, DestSet, Planned, Pending
  <2> QED
    BY <2>1, <2>2 DEF IntactInv, Intact, OneRun
<1>7. ASSUME NEW r \in Runs, StartSend(r)
      PROVE  IntactInv'
  <2>1. PICK s \in steps[r], n \in Parts :
           /\ cur' = [cur EXCEPT ![r] = [snap |-> s.snap, parent |-> s.parent,
                                         of |-> n, part |-> 0]]
           /\ steps' = [steps EXCEPT ![r] = @ \ {s}]
    BY <1>7 DEF StartSend
  <2>2. /\ cur'[r].snap = s.snap
        /\ cur'[r].part = 0
        /\ steps'[r] = steps[r] \ {s}
        /\ pc[r] = "run"
        /\ pc'[r] = "send"
        /\ UNCHANGED <<dest, src_state, todo, dest_meta>>
    BY <1>7, <2>1 DEF StartSend, TypeInv, TypeOK
  <2>3. dest_meta[r] = meta /\ s.snap \notin Archived(meta)
    BY <2>2 DEF IntactInv, RunMeta, RunPlans
  <2>4. s.snap \notin Planned(r)'
    BY <2>2 DEF IntactInv, RunPlans, Planned
  <2>5. RunSends(r)'
    <3>1. \A i \in Parts : ~(i < 0)
      BY BoundsAssumption DEF Parts
    <3> QED
      BY <2>2, <2>3, <2>4, <3>1 DEF RunSends
  <2>6. DestSet(r) \subseteq DestSet(r)' \cup Pending(r)'
    BY <2>2 DEF DestSet, Planned, Pending
  <2>7. RunCovers(r)'
    BY <2>2, <2>6 DEF IntactInv, RunCovers, Pending
  <2>8. RunMeta(r)' /\ RunPlans(r)'
    BY <2>2, <2>3 DEF IntactInv, RunMeta, RunPlans
  <2> QED
    BY <2>2, <2>5, <2>7, <2>8 DEF IntactInv, Intact, OneRun
<1>8. ASSUME NEW r \in Runs, RollNext(r)
      PROVE  IntactInv'
  <2> DEFINE c == cur[r]
             cl == CloseChunk(files, c, "closed")
  <2>1. /\ c \in Sending
        /\ c.snap \in Timestamps
        /\ c.part \in 0 .. MaxChunks
        /\ c.part + 1 \in Parts
        /\ pc[r] = "send"
        /\ files \in [Timestamps -> [Parts -> Content \cup {None}]]
    BY <1>8, BoundsAssumption DEF RollNext, TypeInv, TypeOK, Sending, Parts
  <2>2. /\ files' = OpenChunk(cl, c, c.part + 1)
        /\ UNCHANGED <<meta, tmp, pc, src_state, plan, dest_meta>>
    BY <1>8 DEF RollNext
  <2>3. /\ cur'[r].snap = c.snap
        /\ cur'[r].parent = c.parent
        /\ cur'[r].of = c.of
        /\ cur'[r].part = c.part + 1
    BY <1>8, <2>1 DEF RollNext, TypeInv, TypeOK, Sending
  <2>4. /\ cl \in [Timestamps -> [Parts -> Content \cup {None}]]
        /\ \A t \in Timestamps \ {c.snap} : cl[t] = files[t]
        /\ \A i \in Parts : i < c.part => cl[c.snap][i] = files[c.snap][i]
        /\ c.part # 0 => cl[c.snap][c.part] = Chunk(c, c.part, "closed")
    BY <2>1, ChunkFilesType, ChunkWritten
  <2> HIDE DEF cl, c
  <2>5. /\ \A t \in Timestamps \ {c.snap} : files'[t] = cl[t]
        /\ \A i \in Parts : i < c.part + 1 => files'[c.snap][i] = cl[c.snap][i]
    BY <2>1, <2>2, <2>4, ChunkOpened
  <2>6. /\ c.snap \notin Archived(meta) \cup Planned(r)
        /\ \A i \in Parts : i < c.part => files[c.snap][i] = Chunk(c, i, "closed")
        /\ dest_meta[r] = meta
    BY <2>1 DEF IntactInv, RunSends, RunMeta, c
  <2>7. ASSUME NEW i \in Parts, i < c.part + 1
        PROVE  files'[c.snap][i] = Chunk(c, i, "closed")
    <3>1. CASE i = c.part
      <4>1. c.part # 0
        BY <3>1, BoundsAssumption DEF Parts
      <4> QED
        BY <2>4, <2>5, <2>7, <3>1, <4>1
    <3>2. CASE i # c.part
      <4>1. i < c.part
        BY <2>1, <2>7, <3>2, BoundsAssumption DEF Parts
      <4> QED
        BY <2>4, <2>5, <2>6, <2>7, <4>1
    <3> QED
      BY <3>1, <3>2
  <2>8. \A i \in Parts : Chunk(cur'[r], i, "closed") = Chunk(c, i, "closed")
    BY <2>3 DEF Chunk
  <2>9. RunSends(r)'
    BY <2>2, <2>3, <2>6, <2>7, <2>8 DEF RunSends, Planned
  <2>10. Intact(meta)'
    BY <2>2, <2>4, <2>5, <2>6, IntactFrame DEF IntactInv, Archived
  <2>11. Intact(dest_meta[r])'
    BY <2>2, <2>6, <2>10 DEF Intact
  <2>12. RunMeta(r)' /\ RunPlans(r)' /\ RunCovers(r)'
    BY <2>1, <2>2, <2>3
    DEF IntactInv, RunMeta, RunPlans, RunCovers, DestSet, Planned, Pending, c
  <2> QED
    BY <2>9, <2>10, <2>11, <2>12 DEF IntactInv, OneRun
<1>9. ASSUME NEW r \in Runs, FinishSend(r) \/ FinishFailedSend(r)
      PROVE  IntactInv'
  <2>1. PICK st \in {"closed", "cut"} : Finish(r, st)
    BY <1>9 DEF FinishSend, FinishFailedSend
  <2>2. pc[r] = "send" /\ cur[r] \in Sending /\ cur[r].part # 0 /\ dest_meta[r] \in Metas
    BY <1>9 DEF FinishSend, FinishFailedSend, TypeInv, TypeOK, Sending, Parts
  <2>3. /\ dest_meta'[r] = AddArchive(dest_meta[r], cur[r], st)
        /\ pc'[r] = "commit"
        /\ UNCHANGED <<meta, tmp, src_state, plan, cur>>
    BY <2>1 DEF Finish, TypeInv, TypeOK
  <2>4. dest_meta[r] = meta /\ cur[r].snap \notin Archived(meta) \cup Planned(r)
    BY <2>2 DEF IntactInv, RunMeta, RunSends
  <2>5. \A t \in Timestamps \ {cur[r].snap} : dest_meta'[r][t] = dest_meta[r][t]
    BY <2>2, <2>3, AddArchiveType
  <2>6. Archived(dest_meta'[r]) = Archived(dest_meta[r]) \cup {cur[r].snap}
    BY <2>2, <2>3, AddClosed DEF ChainInv, RunChain
  <2>7. RunMeta(r)' /\ RunSends(r)'
    BY <2>3, <2>4, <2>5 DEF RunMeta, RunSends, Extends
  <2>8. RunPlans(r)'
    BY <2>3, <2>4, <2>6 DEF IntactInv, RunPlans, Planned
  <2>9. RunCovers(r)'
    BY <2>2, <2>3, <2>6 DEF IntactInv, RunCovers, DestSet, Planned, Pending
  <2>10. Intact(meta)' /\ Intact(dest_meta[r])'
    BY <2>1, <2>2, FinishIntact
  <2> QED
    BY <2>7, <2>8, <2>9, <2>10 DEF IntactInv, OneRun
<1>10. ASSUME NEW r \in Runs, CreateTmp(r) \/ WriteTmp(r)
       PROVE  IntactInv'
  <2>1. /\ pc[r] \in {"commit", "tmp"}
        /\ pc'[r] \in {"tmp", "rename"}
        /\ pc'[r] = "rename" => tmp' = dest_meta[r]
        /\ UNCHANGED <<files, meta, src_state, plan, dest_meta, cur>>
    BY <1>10 DEF CreateTmp, WriteTmp, TypeInv, TypeOK
  <2>2. RunMeta(r)' /\ RunSends(r)' /\ RunPlans(r)' /\ RunCovers(r)'
    BY <2>1 DEF IntactInv, RunMeta, RunSends, RunPlans, RunCovers, DestSet, Planned, Pending
  <2> QED
    BY <2>1, <2>2 DEF IntactInv, Intact, OneRun
<1>11. ASSUME NEW r \in Runs, RenameTmp(r) \/ PutMeta(r)
       PROVE  IntactInv'
  <2>1. /\ pc[r] \in {"commit", "rename"}
        /\ pc'[r] = "run"
        /\ meta' = dest_meta[r]
        /\ UNCHANGED <<files, src_state, plan, dest_meta>>
    BY <1>11 DEF RenameTmp, PutMeta, IntactInv, RunMeta, TypeInv, TypeOK
  <2>2. RunMeta(r)' /\ RunSends(r)' /\ RunPlans(r)' /\ RunCovers(r)'
    BY <2>1 DEF IntactInv, RunMeta, RunSends, RunPlans, RunCovers, DestSet, Planned, Pending
  <2> QED
    BY <2>1, <2>2 DEF IntactInv, Intact, OneRun
<1>12. ASSUME UNCHANGED vars
       PROVE  IntactInv'
  BY <1>12 DEF vars, IntactInv, Intact, RunMeta, RunSends, RunPlans, RunCovers, DestSet,
               Planned, Pending
<1> QED
  BY <1>1, <1>2, <1>3, <1>4, <1>5, <1>6, <1>7, <1>8, <1>9, <1>10, <1>11, <1>12
  DEF Next, Advance, SkipVolume

(* What a step can do to the stored metadata: nothing, while the chunks of *)
(* its archives stay; or it puts a run's metadata in its place, while no   *)
(* chunk changes.                                                          *)
Commits(r) ==
  /\ meta' = dest_meta[r]
  /\ files' = files
  /\ pc[r] \in {"commit", "tmp", "rename"}

LEMMA StoredChange ==
  ASSUME OneRun, TypeInv, IntactInv, [Next]_vars
  PROVE  \/ /\ meta' = meta
            /\ \A t \in Archived(meta) : files'[t] = files[t]
         \/ \E r \in Runs : Commits(r)
<1> USE DEF dest
<1>1. CASE \E r \in Runs : RenameTmp(r) \/ PutMeta(r)
  BY <1>1 DEF RenameTmp, PutMeta, Commits, IntactInv, RunMeta
<1>2. CASE \E r \in Runs : RollNext(r)
  <2>1. PICK r \in Runs : RollNext(r)
    BY <1>2
  <2>2. /\ cur[r] \in Sending
        /\ cur[r].part + 1 \in Parts
        /\ files \in [Timestamps -> [Parts -> Content \cup {None}]]
        /\ cur[r].snap \notin Archived(meta)
    BY <2>1, BoundsAssumption
    DEF RollNext, Roll, TypeInv, TypeOK, Sending, Parts, IntactInv, RunSends
  <2>3. /\ meta' = meta
        /\ files' = OpenChunk(CloseChunk(files, cur[r], "closed"), cur[r], cur[r].part + 1)
    BY <2>1 DEF RollNext, Roll
  <2>4. CloseChunk(files, cur[r], "closed") \in [Timestamps -> [Parts -> Content \cup {None}]]
    BY <2>2, ChunkFilesType
  <2>5. \A t \in Timestamps \ {cur[r].snap} : files'[t] = files[t]
    BY <2>2, <2>3, <2>4, ChunkWritten, ChunkOpened
  <2> QED
    BY <2>2, <2>3, <2>5 DEF Archived
<1>3. CASE \E r \in Runs : FinishSend(r) \/ FinishFailedSend(r)
  <2>1. PICK r \in Runs, st \in {"closed", "cut"} : Finish(r, st) /\ pc[r] = "send" /\ cur[r].part # 0
    BY <1>3 DEF FinishSend, FinishFailedSend, TypeInv, TypeOK, Sending, Parts
  <2>2. \A t \in Timestamps \ {cur[r].snap} : files'[t] = files[t]
    BY <2>1, FinishIntact
  <2> QED
    BY <2>1, <2>2 DEF Finish, IntactInv, RunSends, Archived
<1>4. CASE UNCHANGED dest
  BY <1>4
<1> QED
  BY <1>1, <1>2, <1>3, <1>4
  DEF Next, Advance, vars, SnapCreate, SnapDelete, InspectSource, SkipVolume, InspectDest,
      Plan, PlanSkip, PlanFull, PlanIncremental, UpToDate, ExecutePlan, StartSend,
      CreateTmp, WriteTmp, FinishRun, Fail

(* One run at a time: the invariant holds in every behaviour, whatever is  *)
(* killed, whatever send fails and whatever btrbk deletes.                 *)
THEOREM IntactInvariant ==
  ASSUME OneRun
  PROVE  Spec => [](TypeInv /\ ChainInv /\ IntactInv)
<1> DEFINE Inv == TypeInv /\ ChainInv /\ IntactInv
<1>1. Init => Inv
  BY TypeInvInit, ChainInit, IntactInit
<1>2. Inv /\ [Next]_vars => Inv'
  BY TypeInvStep, ChainStep, IntactStep
<1> QED
  BY <1>1, <1>2, PTL DEF Spec

(* Every chunk the metadata records is on the destination with the bytes   *)
(* its digest was computed from, in every state: also while a run rewrites *)
(* what a killed one left (write_dest.rs:262-335), and after any crash.    *)
THEOREM ArchivesAlwaysIntact ==
  ASSUME OneRun
  PROVE  Spec => []ArchivesIntact
<1>1. IntactInv => ArchivesIntact
  BY DEF IntactInv, Intact, ArchivesIntact
<1> QED
  BY <1>1, IntactInvariant, PTL

LEMMA KeptStep ==
  ASSUME OneRun, TypeInv, TypeInv', IntactInv, [Next]_vars
  PROVE  CommittedKept
<1>1. MetaReadable'
  BY DEF TypeInv
<1>2. CASE meta' = meta /\ \A t \in Archived(meta) : files'[t] = files[t]
  BY <1>1, <1>2 DEF CommittedKept
<1>3. CASE \E r \in Runs : Commits(r)
  BY <1>1, <1>3 DEF CommittedKept, Commits, IntactInv, RunMeta, Extends, Archived
<1> QED
  BY <1>2, <1>3, StoredChange

(* No step drops or alters a recorded archive or touches one of its chunk  *)
(* files (planner/mod.rs:196, write_dest.rs:344-355).                      *)
THEOREM CommittedNeverChanges ==
  ASSUME OneRun
  PROVE  Spec => CommittedImmutable
<1>1. TypeInv /\ TypeInv' /\ IntactInv /\ [Next]_vars => [CommittedKept]_vars
  BY KeptStep
<1> QED
  BY <1>1, IntactInvariant, PTL DEF Spec, CommittedImmutable

LEMMA CoverStep ==
  ASSUME OneRun, TypeInv, IntactInv, [Next]_vars, NEW r \in Runs, EndsWell(r)
  PROVE  MetaReadable /\ src_state[r] \subseteq Archived(meta)
<1>1. pc[r] \in {"plan", "run"} /\ pc'[r] = "idle" /\ fails' = fails
  BY DEF EndsWell
<1>2. \A q \in Runs : ~Fail(q)
  BY <1>1 DEF Fail, TypeInv, TypeOK
<1>3. UpToDate(r) \/ FinishRun(r)
  BY <1>1, <1>2
  DEF Next, Advance, vars, OneRun, SnapCreate, SnapDelete, InspectSource, SkipVolume,
      InspectDest, Plan, PlanSkip, PlanFull, PlanIncremental, ExecutePlan, StartSend,
      RollNext, Roll, FinishSend, FinishFailedSend, Finish, CreateTmp, WriteTmp,
      RenameTmp, PutMeta, TypeInv, TypeOK
<1>4. todo[r] = {} /\ steps[r] = {}
  BY <1>1, <1>3 DEF UpToDate, FinishRun, IntactInv, RunCovers
<1>5. dest_meta[r] = meta
  BY <1>1 DEF IntactInv, RunMeta
<1>6. src_state[r] \subseteq todo[r] \cup DestSet(r) \cup Pending(r)
  BY <1>1 DEF IntactInv, RunCovers
<1> QED
  BY <1>1, <1>4, <1>5, <1>6 DEF DestSet, Planned, Pending, TypeInv

(* A run that ends without an error has archived every snapshot that its   *)
(* inspection listed (run.rs:59-161): none falls between the plan's loop,  *)
(* the execution of the steps and the metadata that is written.            *)
THEOREM RunsCoverTheirSource ==
  ASSUME OneRun
  PROVE  Spec => RunCoversSource
<1> DEFINE Covered ==
      \A r \in Runs : EndsWell(r) => MetaReadable /\ src_state[r] \subseteq Archived(meta)
<1>1. TypeInv /\ IntactInv /\ [Next]_vars => [Covered]_vars
  BY CoverStep
<1>2. Spec => [][Covered]_vars
  BY <1>1, IntactInvariant, PTL DEF Spec
<1> QED
  BY <1>2 DEF RunCoversSource

-----------------------------------------------------------------------------
(* The destination as its users see it.                                    *)

StoreInv == TypeInv /\ ChainInv /\ IntactInv /\ CompleteInv

(* A reader finds the recorded archives, each of them whole.               *)
LEMMA WholeView ==
  ASSUME StoreInv
  PROVE  StoreView = [t \in Timestamps |->
                        IF meta[t] = None THEN None
                        ELSE [parent |-> meta[t].parent, stream |-> "whole"]]
<1>1. ASSUME NEW t \in Timestamps, meta[t] # None
      PROVE  Readable(t)
  <2>1. meta[t] \in Archive
    BY <1>1 DEF StoreInv, TypeInv, TypeOK, MetaReadable, Metas
  <2>2. meta[t].chunks = [i \in DOMAIN meta[t].chunks |-> meta[t].chunks[i]]
    BY <2>1 DEF Archive
  <2>3. ReadBack(t) = meta[t].chunks
    BY <1>1, <2>2 DEF ReadBack, StoreInv, IntactInv, Intact, Archived
  <2>4. Complete(meta[t])
    BY <1>1 DEF StoreInv, CompleteInv, AllComplete, Archived
  <2> QED
    BY <2>3, <2>4 DEF Readable, Complete
<1> QED
  BY <1>1 DEF StoreView

(* A step that stores a run's metadata adds its archive, or nothing.       *)
LEMMA StoreCommit ==
  ASSUME StoreInv, NEW r \in Runs, Commits(r),
         StoreView' = [t \in Timestamps |->
                         IF meta'[t] = None THEN None
                         ELSE [parent |-> meta'[t].parent, stream |-> "whole"]]
  PROVE  Store!StoreNext \/ StoreView' = StoreView
<1> DEFINE u == cur[r].snap
           n == dest_meta[r]
           view(m, t) == IF m[t] = None THEN None
                         ELSE [parent |-> m[t].parent, stream |-> "whole"]
<1>1. /\ u \in Timestamps
      /\ u \notin Archived(meta)
      /\ \A t \in Timestamps \ {u} : n[t] = meta[t]
      /\ meta' = n
      /\ n \in Metas
      /\ Closed(n)
  BY DEF Commits, StoreInv, TypeInv, TypeOK, Sending, IntactInv, RunMeta, Extends,
         ChainInv, RunChain
<1>2. /\ StoreView = [t \in Timestamps |-> view(meta, t)]
      /\ StoreView' = [t \in Timestamps |-> view(n, t)]
  BY <1>1, WholeView
<1> HIDE DEF n, u
<1>3. \A t \in Timestamps \ {u} : view(n, t) = view(meta, t)
  BY <1>1
<1>4. view(meta, u) = None
  BY <1>1 DEF Archived
<1> HIDE DEF view
<1>5. \A t \in Timestamps : StoreView[t] = view(meta, t)
  BY <1>2
<1>6. StoreView' = [StoreView EXCEPT ![u] = view(n, u)]
  BY <1>1, <1>2, <1>3
<1>7. u \notin Store!Stored
  BY <1>4, <1>5 DEF Store!Stored
<1>8. CASE n[u] = None
  <2>1. view(n, u) = None
    BY <1>8 DEF view
  <2>2. \A t \in Timestamps : view(n, t) = view(meta, t)
    BY <2>1, <1>3, <1>4
  <2> QED
    BY <1>2, <2>2
<1>9. CASE n[u] # None /\ n[u].parent = None
  <2>1. view(n, u) = [parent |-> None, stream |-> "whole"]
    BY <1>9 DEF view
  <2>2. Store!AddFull(u)
    BY <1>6, <1>7, <2>1 DEF Store!AddFull
  <2> QED
    BY <1>1, <2>2 DEF Store!StoreNext
<1>10. CASE n[u] # None /\ n[u].parent # None
  <2> DEFINE p == n[u].parent
  <2>1. view(n, u) = [parent |-> p, stream |-> "whole"]
    BY <1>10 DEF view
  <2>2. p \in Archived(n) /\ p < u
    BY <1>1, <1>10 DEF Closed, Archived, IsIncremental
  <2>3. p \in Timestamps /\ p # u
    BY <1>1, <2>2, TimestampsAssumption DEF Archived
  <2>4. n[p] # None /\ meta[p] # None
    BY <1>1, <2>2, <2>3 DEF Archived
  <2>5. view(meta, p) # None
    <3>1. view(meta, p) = [parent |-> meta[p].parent, stream |-> "whole"]
      BY <2>4 DEF view
    <3>2. meta[p].parent \in Timestamps \cup {None}
      BY <2>3, <2>4 DEF StoreInv, TypeInv, TypeOK, MetaReadable, Metas, Archive, Parents
    <3> QED
      BY <3>1, <3>2, RecordAssumption DEF Store!Record
  <2>6. p \in Store!Stored
    BY <1>5, <2>3, <2>5 DEF Store!Stored
  <2> HIDE DEF p
  <2>7. Store!AddIncremental(u, p)
    BY <1>6, <1>7, <2>1, <2>2, <2>6 DEF Store!AddIncremental
  <2> QED
    BY <1>1, <2>3, <2>7 DEF Store!StoreNext
<1> QED
  BY <1>8, <1>9, <1>10

LEMMA StoreStep ==
  ASSUME OneRun, StoreInv, StoreInv', [Next]_vars
  PROVE  [Store!StoreNext]_StoreView
<1> DEFINE view(m, t) == IF m[t] = None THEN None
                         ELSE [parent |-> m[t].parent, stream |-> "whole"]
<1>1. StoreView = [t \in Timestamps |-> view(meta, t)]
  BY WholeView
<1>2. StoreView' = [t \in Timestamps |-> view(meta', t)]
  <2>1. (StoreInv => StoreView = [t \in Timestamps |-> view(meta, t)])'
    BY WholeView, PTL
  <2> QED
    BY <2>1
<1>3. CASE meta' = meta
  BY <1>1, <1>2, <1>3
<1>4. CASE \E r \in Runs : Commits(r)
  BY <1>2, <1>4, StoreCommit
<1> QED
  BY <1>3, <1>4, StoredChange DEF StoreInv

LEMMA StoreStart == Init => Store!StoreInit
<1> SUFFICES ASSUME Init
             PROVE  Store!StoreInit
  OBVIOUS
<1>1. \A t \in Timestamps : meta[t] = None
  BY DEF Init, EmptyMeta
<1> QED
  BY <1>1 DEF Store!StoreInit, StoreView

(* One run at a time, with sends that succeed, implements ArchiveStore:    *)
(* inspecting, planning, sending, crashing and writing the metadata either *)
(* leave what a reader finds as it was or add one whole archive whose      *)
(* parent is there (cli/run.rs:59-161).                                    *)
THEOREM RunImplementsStore ==
  ASSUME OneRun, SendsSucceed
  PROVE  Spec => StoreRefined
<1>1. Spec => []StoreInv
  BY IntactInvariant, CompleteInvariant, PTL DEF StoreInv
<1>2. Init => Store!StoreInit
  BY StoreStart
<1>3. StoreInv /\ StoreInv' /\ [Next]_vars => [Store!StoreNext]_StoreView
  BY StoreStep
<1> QED
  BY <1>1, <1>2, <1>3, PTL DEF Spec, StoreRefined, Store!StoreSpec

=============================================================================
