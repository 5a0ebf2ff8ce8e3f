-------------------------- MODULE RestoreRunProofs ---------------------------
(***************************************************************************)
(* Proofs about RestoreRun, for every value of its constants.              *)
(***************************************************************************)
EXTENDS RestoreRun, TLAPS

-----------------------------------------------------------------------------
(* Types.                                                                  *)

LEMMA TypeInit == Init => TypeOK
BY BoundsAssumption DEF Init, StoreInit, TypeOK

LEMMA ExitType ==
  ASSUME TypeOK, NEW r \in Restores, Exit(r), UNCHANGED <<store, root>>,
         fails' \in 0 .. MaxFails
  PROVE  TypeOK'
BY DEF Exit, TypeOK

(* The newest archive, the named ones and those of a range are snapshots.  *)
LEMMA TargetsType ==
  ASSUME NEW q \in Requests, NEW m
  PROVE  Targets(q, m) \subseteq Timestamps
BY RequestsAssumption DEF Targets, Archives, Request

LEMMA TypeStep == TypeOK /\ [Next]_vars => TypeOK'
<1> SUFFICES ASSUME TypeOK, [Next]_vars
             PROVE  TypeOK'
  OBVIOUS
<1> USE DEF process
<1>1. CASE Backup
  <2>1. PICK t \in Timestamps, p \in Timestamps \cup {None} :
          store' = [store EXCEPT ![t] = [parent |-> p, stream |-> "whole"]]
    BY <1>1 DEF Backup, StoreNext, AddFull, AddIncremental
  <2>2. [parent |-> p, stream |-> "whole"] \in Record
    BY DEF Record
  <2> QED
    BY <1>1, <2>1, <2>2 DEF Backup, TypeOK
<1>2. ASSUME NEW t \in Timestamps, Damage(t)
      PROVE  TypeOK'
  <2>1. store[t] \in Record
    BY <1>2 DEF Damage, Stored, TypeOK
  <2>2. [store[t] EXCEPT !.stream = "damaged"] \in Record
    BY <2>1 DEF Record
  <2>3. store' = [store EXCEPT ![t] = [store[t] EXCEPT !.stream = "damaged"]]
    BY <1>2 DEF Damage, TypeOK
  <2> QED
    BY <1>2, <2>2, <2>3 DEF Damage, TypeOK
<1>3. ASSUME NEW t \in Timestamps, Remove(t)
      PROVE  TypeOK'
  BY <1>3 DEF Remove, TypeOK
<1>4. ASSUME NEW r \in Restores, NEW q \in Requests, ResolveTargets(r, q)
      PROVE  TypeOK'
  BY <1>4, TargetsType DEF ResolveTargets, TypeOK
<1>5. ASSUME NEW r \in Restores, StartChain(r)
      PROVE  TypeOK'
  BY <1>5 DEF StartChain, TypeOK
<1>6. ASSUME NEW r \in Restores, Walk(r)
      PROVE  TypeOK'
  <2>1. at[r] \in Timestamps /\ meta[r][at[r]] \in Record
    BY <1>6 DEF Walk, Collect, Archives, TypeOK
  <2>2. Parent(r) \in Timestamps \cup {None}
    BY <2>1 DEF Parent, Record
  <2> QED
    BY <1>6, <2>1, <2>2 DEF Walk, Collect, TypeOK
<1>7. ASSUME NEW r \in Restores, ScanRoot(r) \/ Skip(r) \/ StartReceive(r)
      PROVE  TypeOK'
  <2>1. CASE ScanRoot(r)
    BY <2>1 DEF ScanRoot, TypeOK
  <2>2. CASE Skip(r)
    BY <2>2 DEF Skip, TypeOK
  <2>3. CASE StartReceive(r)
    <3>1. PICK t \in steps[r] : /\ at' = [at EXCEPT ![r] = t]
                               /\ steps' = [steps EXCEPT ![r] = @ \ {t}]
      BY <2>3 DEF StartReceive
    <3>2. t \in Timestamps
      BY <3>1 DEF TypeOK
    <3> QED
      BY <2>3, <3>1, <3>2 DEF StartReceive, TypeOK
  <2> QED
    BY <1>7, <2>1, <2>2, <2>3
<1>8. ASSUME NEW r \in Restores, CreateSubvolume(r)
      PROVE  TypeOK'
  BY <1>8 DEF CreateSubvolume, TypeOK
<1>9. ASSUME NEW r \in Restores, FinishReceive(r)
      PROVE  TypeOK'
  <2>1. at[r] \in Timestamps
    BY <1>9 DEF FinishReceive, TypeOK
  <2>2. Result(meta[r], at[r]) \in {"whole", "wrong"}
    BY DEF Result
  <2> QED
    BY <1>9, <2>1, <2>2 DEF FinishReceive, TypeOK
<1>10. ASSUME NEW r \in Restores, FinishRestore(r)
       PROVE  TypeOK'
  BY <1>10 DEF FinishRestore, TypeOK
<1>11. ASSUME NEW r \in Restores, Leave(r) \/ Refuse(r) \/ Fail(r)
       PROVE  TypeOK'
  <2>1. Exit(r) /\ UNCHANGED <<store, root>>
    BY <1>11 DEF Leave, Refuse, Fail
  <2>2. fails' \in 0 .. MaxFails
    BY <1>11, BoundsAssumption DEF Leave, Refuse, Fail, TypeOK
  <2> QED
    BY <2>1, <2>2, ExitType
<1>12. CASE UNCHANGED vars
  BY <1>12 DEF vars, TypeOK
<1> QED
  BY <1>1, <1>2, <1>3, <1>4, <1>5, <1>6, <1>7, <1>8, <1>9, <1>10, <1>11, <1>12
  DEF Next, Advance

(* Every variable keeps its type.                                          *)
THEOREM RestoreTypeCorrect == Spec => []TypeOK
BY TypeInit, TypeStep, PTL DEF Spec

-----------------------------------------------------------------------------
(* The apply order.  Three facts support each other: the metadata a        *)
(* restore read is closed under parents, and a parent is older than its    *)
(* child; the parent of a step is itself a step, or held already, or the   *)
(* archive the walk is at; and what a restore holds is in --root.  The     *)
(* oldest step can then only have a parent that is held.                   *)

ClosedUnderParents(m) ==
  \A t \in Archives(m) :
    IsIncremental(m, t) => m[t].parent \in Archives(m) /\ m[t].parent < t

Held(r) == pre_existing[r] \cup received[r]

ReadClosed(r) ==
  /\ ClosedUnderParents(meta[r])
  /\ unwalked[r] \cup steps[r] \cup ({at[r]} \ {None}) \subseteq Archives(meta[r])

StepsSupported(r) ==
  \A t \in steps[r] :
    IsIncremental(meta[r], t) => meta[r][t].parent \in steps[r] \cup Held(r) \cup {at[r]}

AtSupported(r) ==
  pc[r] \in {"receive", "stream"} /\ IsIncremental(meta[r], at[r]) =>
    meta[r][at[r]].parent \in Held(r)

HeldInRoot(r) == \A t \in Held(r) : root[t] # "absent"

AtRest(r) ==
  /\ pc[r] \in {"apply", "complete", "idle"} => at[r] = None
  /\ pc[r] = "idle" => Held(r) = {} /\ steps[r] = {}

RestoreSupported(r) ==
  ReadClosed(r) /\ StepsSupported(r) /\ AtSupported(r) /\ HeldInRoot(r) /\ AtRest(r)

OrderInvariant ==
  /\ ClosedUnderParents(store)
  /\ \A r \in Restores : RestoreSupported(r)

LEMMA NoneIsNoTimestamp == None \notin Timestamps
<1>1. None \notin Int
  BY SentinelAssumption, Zenon
<1>2. Timestamps \subseteq Int
  BY TimestampsAssumption
<1> QED
  BY <1>1, <1>2

LEMMA OrderInit == Init => OrderInvariant
BY NoneIsNoTimestamp DEF Init, StoreInit, OrderInvariant, RestoreSupported, ReadClosed, StepsSupported,
   AtSupported, HeldInRoot, AtRest, Held, ClosedUnderParents, Archives

(* A step of another process, and one of the world that empties nothing in *)
(* --root, leaves a restore supported.                                     *)
LEMMA OtherRestore ==
  ASSUME NEW r \in Restores, RestoreSupported(r),
         pc'[r] = pc[r], meta'[r] = meta[r], unwalked'[r] = unwalked[r],
         at'[r] = at[r], steps'[r] = steps[r],
         pre_existing'[r] = pre_existing[r], received'[r] = received[r],
         \A t \in Held(r) : root[t] # "absent" => root'[t] # "absent"
  PROVE  RestoreSupported(r)'
BY DEF RestoreSupported, ReadClosed, StepsSupported, AtSupported, HeldInRoot, AtRest,
   Held, ClosedUnderParents, Archives, IsIncremental

LEMMA OrderFrame ==
  ASSUME TypeOK, OrderInvariant, NEW r \in Restores, RestoreSupported(r)',
         UNCHANGED store,
         \A s \in Restores \ {r} :
           /\ pc'[s] = pc[s] /\ meta'[s] = meta[s] /\ unwalked'[s] = unwalked[s]
           /\ at'[s] = at[s] /\ steps'[s] = steps[s]
           /\ pre_existing'[s] = pre_existing[s] /\ received'[s] = received[s],
         \A t \in Timestamps : root[t] # "absent" => root'[t] # "absent"
  PROVE  OrderInvariant'
<1>1. ASSUME NEW s \in Restores \ {r}
      PROVE  RestoreSupported(s)'
  <2>1. RestoreSupported(s)
    BY DEF OrderInvariant
  <2>2. Held(s) \subseteq Timestamps
    BY DEF Held, TypeOK
  <2> QED
    BY <2>1, <2>2, OtherRestore
<1>2. ClosedUnderParents(store)'
  BY DEF OrderInvariant, ClosedUnderParents, Archives, IsIncremental
<1> QED
  BY <1>1, <1>2 DEF OrderInvariant

LEMMA ExitSupported ==
  ASSUME TypeOK, OrderInvariant, NEW r \in Restores, Exit(r), UNCHANGED <<store, root>>
  PROVE  OrderInvariant'
<1>1. /\ pc'[r] = "idle" /\ meta'[r] = [t \in Timestamps |-> None] /\ unwalked'[r] = {}
      /\ at'[r] = None /\ steps'[r] = {} /\ pre_existing'[r] = {} /\ received'[r] = {}
  BY DEF Exit, TypeOK
<1>2. RestoreSupported(r)'
  BY <1>1 DEF RestoreSupported, ReadClosed, StepsSupported, AtSupported, HeldInRoot, AtRest,
     Held, ClosedUnderParents, Archives
<1> QED
  BY <1>2, OrderFrame DEF Exit, TypeOK

(* An archive is added with a parent that is stored and older, and damage  *)
(* leaves the parent as it was.                                            *)
LEMMA StoreStaysClosed ==
  ASSUME TypeOK, ClosedUnderParents(store), Backup \/ \E t \in Timestamps : Damage(t)
  PROVE  ClosedUnderParents(store)'
<1>1. CASE \E t \in Timestamps : AddFull(t)
  BY <1>1, SentinelAssumption DEF AddFull, ClosedUnderParents, Archives, IsIncremental, Stored, TypeOK, Record
<1>2. CASE \E t, p \in Timestamps : AddIncremental(t, p)
  BY <1>2, SentinelAssumption DEF AddIncremental, ClosedUnderParents, Archives, IsIncremental, Stored, TypeOK, Record
<1>3. ASSUME NEW t \in Timestamps, Damage(t)
      PROVE  ClosedUnderParents(store)'
  <2>1. store[t] \in Record
    BY <1>3 DEF Damage, Stored, TypeOK
  <2>2. \A u \in Timestamps : (store'[u] = None <=> store[u] = None)
                          /\ store'[u].parent = store[u].parent
    BY <1>3, <2>1, SentinelAssumption DEF Damage, TypeOK, Record
  <2> QED
    BY <2>2 DEF ClosedUnderParents, Archives, IsIncremental
<1> QED
  BY <1>1, <1>2, <1>3 DEF Backup, StoreNext

LEMMA OrderStep == TypeOK /\ OrderInvariant /\ [Next]_vars => OrderInvariant'
<1> SUFFICES ASSUME TypeOK, OrderInvariant, [Next]_vars
             PROVE  OrderInvariant'
  OBVIOUS
<1> USE DEF process
<1>1. ASSUME Backup \/ \E t \in Timestamps : Damage(t)
      PROVE  OrderInvariant'
  <2>1. UNCHANGED <<root, process>>
    BY <1>1 DEF Backup, Damage
  <2>2. ASSUME NEW r \in Restores PROVE RestoreSupported(r)'
    BY <2>1, OtherRestore DEF OrderInvariant
  <2> QED
    BY <1>1, <2>2, StoreStaysClosed DEF OrderInvariant
<1>2. ASSUME NEW t \in Timestamps, Remove(t)
      PROVE  OrderInvariant'
  <2>1. ASSUME NEW r \in Restores PROVE RestoreSupported(r)'
    <3>1. RestoreSupported(r) /\ Held(r) = {}
      BY <1>2 DEF Remove, OrderInvariant, RestoreSupported, AtRest
    <3> QED
      BY <1>2, <3>1, OtherRestore DEF Remove
  <2>2. ClosedUnderParents(store)'
    BY <1>2 DEF Remove, OrderInvariant, ClosedUnderParents, Archives, IsIncremental
  <2> QED
    BY <2>1, <2>2 DEF OrderInvariant
<1>3. ASSUME NEW r \in Restores, NEW q \in Requests, ResolveTargets(r, q)
      PROVE  OrderInvariant'
  <2>1. /\ pc'[r] = "walk" /\ meta'[r] = store /\ unwalked'[r] = Targets(q, store)
        /\ at'[r] = at[r] /\ steps'[r] = steps[r] /\ pre_existing'[r] = pre_existing[r]
        /\ received'[r] = received[r] /\ UNCHANGED <<store, root>>
    BY <1>3 DEF ResolveTargets, TypeOK
  <2>2. Targets(q, store) \subseteq Archives(store)
    BY <1>3 DEF ResolveTargets, Targets, Archives, Stored
  <2>3. at[r] = None /\ Held(r) = {} /\ RestoreSupported(r) /\ ClosedUnderParents(store)
    BY <1>3 DEF ResolveTargets, OrderInvariant, RestoreSupported, AtRest
  <2>4. ReadClosed(r)'
    <3>1. ClosedUnderParents(meta[r])'
      BY <2>1, <2>3 DEF ClosedUnderParents, Archives, IsIncremental
    <3>2. steps[r] = {}
      BY <1>3, <2>3 DEF ResolveTargets, RestoreSupported, AtRest
    <3> QED
      BY <2>1, <2>2, <2>3, <3>1, <3>2 DEF ReadClosed, Archives
  <2>5. RestoreSupported(r)'
    BY <1>3, <2>1, <2>3, <2>4 DEF ResolveTargets, RestoreSupported, StepsSupported, AtSupported,
       HeldInRoot, AtRest, Held
  <2> QED
    BY <1>3, <2>5, OrderFrame DEF ResolveTargets, TypeOK
<1>4. ASSUME NEW r \in Restores, StartChain(r)
      PROVE  OrderInvariant'
  <2>1. PICK t \in unwalked[r] : at' = [at EXCEPT ![r] = t] /\ unwalked' = [unwalked EXCEPT ![r] = @ \ {t}]
    BY <1>4 DEF StartChain
  <2>2. RestoreSupported(r)
    BY DEF OrderInvariant
  <2>3. RestoreSupported(r)'
    BY <1>4, <2>1, <2>2 DEF StartChain, TypeOK, RestoreSupported, ReadClosed, StepsSupported,
       AtSupported, HeldInRoot, AtRest, Held, ClosedUnderParents, Archives, IsIncremental
  <2> QED
    BY <1>4, <2>3, OrderFrame DEF StartChain, TypeOK
<1>5. ASSUME NEW r \in Restores, Walk(r)
      PROVE  OrderInvariant'
  <2>1. /\ pc[r] = "walk" /\ at[r] \in Archives(meta[r])
        /\ steps'[r] = steps[r] \cup {at[r]} /\ at'[r] = meta[r][at[r]].parent
        /\ UNCHANGED <<store, root, pc, meta, unwalked, pre_existing, received>>
    BY <1>5 DEF Walk, Collect, Parent, TypeOK
  <2>2. RestoreSupported(r)
    BY DEF OrderInvariant
  <2>3. at'[r] # None => at'[r] \in Archives(meta[r])
    BY <2>1, <2>2 DEF RestoreSupported, ReadClosed, ClosedUnderParents, IsIncremental
  <2>4. StepsSupported(r)'
    BY <2>1, <2>2 DEF RestoreSupported, StepsSupported, Held, IsIncremental
  <2>5. ReadClosed(r)'
    BY <2>1, <2>2, <2>3 DEF RestoreSupported, ReadClosed, ClosedUnderParents, Archives, IsIncremental
  <2>6. RestoreSupported(r)'
    BY <2>1, <2>2, <2>4, <2>5 DEF RestoreSupported, AtSupported, HeldInRoot, AtRest, Held, IsIncremental
  <2> QED
    BY <1>5, <2>6, OrderFrame DEF Walk, Collect, TypeOK
<1>6. ASSUME NEW r \in Restores, ScanRoot(r)
      PROVE  OrderInvariant'
  <2>1. /\ pre_existing'[r] = {t \in Timestamps : root[t] # "absent"} /\ pc'[r] = "apply"
        /\ at[r] = None /\ pc[r] = "walk"
        /\ UNCHANGED <<store, root, meta, unwalked, at, steps, received>>
    BY <1>6 DEF ScanRoot, TypeOK
  <2>2. RestoreSupported(r) /\ Held(r) \subseteq Timestamps
    BY DEF OrderInvariant, Held, TypeOK
  <2>3. Held(r) \subseteq Held(r)' /\ HeldInRoot(r)'
    BY <2>1, <2>2 DEF RestoreSupported, HeldInRoot, Held
  <2>4. ReadClosed(r)' /\ StepsSupported(r)'
    BY <2>1, <2>2, <2>3 DEF RestoreSupported, ReadClosed, StepsSupported, ClosedUnderParents,
       Archives, IsIncremental
  <2>5. RestoreSupported(r)'
    BY <2>1, <2>3, <2>4 DEF RestoreSupported, AtSupported, AtRest
  <2> QED
    BY <1>6, <2>5, OrderFrame DEF ScanRoot, TypeOK
<1>7. ASSUME NEW r \in Restores, Skip(r)
      PROVE  OrderInvariant'
  <2>1. PICK t \in Held(r) : steps' = [steps EXCEPT ![r] = @ \ {t}]
    BY <1>7 DEF Skip, Held
  <2>2. RestoreSupported(r)
    BY DEF OrderInvariant
  <2>3. RestoreSupported(r)'
    BY <1>7, <2>1, <2>2 DEF Skip, TypeOK, RestoreSupported, ReadClosed, StepsSupported,
       AtSupported, HeldInRoot, AtRest, Held, ClosedUnderParents, Archives, IsIncremental
  <2> QED
    BY <1>7, <2>3, OrderFrame DEF Skip, TypeOK
<1>8. ASSUME NEW r \in Restores, StartReceive(r)
      PROVE  OrderInvariant'
  <2>1. PICK t \in steps[r] : /\ IsOldest(t, steps[r])
                             /\ at' = [at EXCEPT ![r] = t]
                             /\ steps' = [steps EXCEPT ![r] = @ \ {t}]
    BY <1>8 DEF StartReceive
  <2>2. RestoreSupported(r) /\ at[r] = None
    BY <1>8 DEF StartReceive, OrderInvariant, RestoreSupported, AtRest
  <2>3. /\ pc'[r] = "receive" /\ at'[r] = t /\ steps'[r] = steps[r] \ {t}
        /\ UNCHANGED <<store, root, meta, unwalked, pre_existing, received>>
    BY <1>8, <2>1 DEF StartReceive, TypeOK
  <2>4. t \in Archives(meta[r])
    BY <2>1, <2>2 DEF RestoreSupported, ReadClosed
  <2>5. ASSUME IsIncremental(meta[r], t)
        PROVE  meta[r][t].parent \in Held(r)
    <3>1. meta[r][t].parent \in Timestamps /\ meta[r][t].parent < t
      BY <2>2, <2>4, <2>5 DEF RestoreSupported, ReadClosed, ClosedUnderParents, Archives
    <3>2. t \in Nat /\ meta[r][t].parent \in Nat
      BY <2>4, <3>1, TimestampsAssumption DEF Archives
    <3>3. meta[r][t].parent \notin steps[r]
      <4>1. ~(t <= meta[r][t].parent)
        BY <3>1, <3>2
      <4> QED
        BY <2>1, <4>1 DEF IsOldest
    <3>4. meta[r][t].parent # None
      BY <2>5 DEF IsIncremental
    <3> QED
      BY <2>1, <2>2, <2>5, <3>3, <3>4 DEF RestoreSupported, StepsSupported
  <2>6. ReadClosed(r)'
    BY <2>2, <2>3, <2>4 DEF RestoreSupported, ReadClosed, ClosedUnderParents, Archives, IsIncremental
  <2>7. StepsSupported(r)'
    BY <2>2, <2>3 DEF RestoreSupported, StepsSupported, Held, IsIncremental
  <2>8. RestoreSupported(r)'
    BY <2>2, <2>3, <2>5, <2>6, <2>7 DEF RestoreSupported, AtSupported, HeldInRoot, AtRest, Held, IsIncremental
  <2> QED
    BY <1>8, <2>8, OrderFrame DEF StartReceive, TypeOK
<1>9. ASSUME NEW r \in Restores, CreateSubvolume(r)
      PROVE  OrderInvariant'
  <2>1. /\ pc[r] = "receive" /\ pc'[r] = "stream" /\ at[r] \in Timestamps
        /\ root' = [root EXCEPT ![at[r]] = "partial"]
        /\ UNCHANGED <<store, meta, unwalked, at, steps, pre_existing, received>>
    BY <1>9 DEF CreateSubvolume, TypeOK
  <2>2. \A t \in Timestamps : root[t] # "absent" => root'[t] # "absent"
    BY <2>1 DEF TypeOK
  <2>3. RestoreSupported(r) /\ Held(r) \subseteq Timestamps
    BY DEF OrderInvariant, Held, TypeOK
  <2>4. RestoreSupported(r)'
    BY <2>1, <2>2, <2>3 DEF RestoreSupported, ReadClosed, StepsSupported, AtSupported,
       HeldInRoot, AtRest, Held, ClosedUnderParents, Archives, IsIncremental
  <2> QED
    BY <1>9, <2>2, <2>4, OrderFrame DEF CreateSubvolume, TypeOK
<1>10. ASSUME NEW r \in Restores, FinishReceive(r)
       PROVE  OrderInvariant'
  <2>1. /\ pc[r] = "stream" /\ pc'[r] = "apply" /\ at[r] \in Timestamps
        /\ root' = [root EXCEPT ![at[r]] = Result(meta[r], at[r])]
        /\ received'[r] = received[r] \cup {at[r]} /\ at'[r] = None
        /\ UNCHANGED <<store, meta, unwalked, steps, pre_existing>>
    BY <1>10 DEF FinishReceive, TypeOK
  <2>2. /\ \A t \in Timestamps : root[t] # "absent" => root'[t] # "absent"
        /\ root'[at[r]] # "absent"
    BY <2>1 DEF Result, TypeOK
  <2>3. RestoreSupported(r) /\ Held(r) \subseteq Timestamps
    BY DEF OrderInvariant, Held, TypeOK
  <2>4. Held(r)' = Held(r) \cup {at[r]}
    BY <2>1 DEF Held
  <2>5. HeldInRoot(r)'
    BY <2>2, <2>3, <2>4 DEF RestoreSupported, HeldInRoot
  <2>6. ReadClosed(r)' /\ StepsSupported(r)'
    BY <2>1, <2>3, <2>4 DEF RestoreSupported, ReadClosed, StepsSupported, ClosedUnderParents,
       Archives, IsIncremental
  <2>7. RestoreSupported(r)'
    BY <2>1, <2>5, <2>6 DEF RestoreSupported, AtSupported, AtRest
  <2> QED
    BY <1>10, <2>2, <2>7, OrderFrame DEF FinishReceive, TypeOK
<1>11. ASSUME NEW r \in Restores, FinishRestore(r)
       PROVE  OrderInvariant'
  <2>1. RestoreSupported(r)'
    BY <1>11 DEF FinishRestore, TypeOK, OrderInvariant, RestoreSupported, ReadClosed, StepsSupported,
       AtSupported, HeldInRoot, AtRest, Held, ClosedUnderParents, Archives, IsIncremental
  <2> QED
    BY <1>11, <2>1, OrderFrame DEF FinishRestore, TypeOK
<1>12. ASSUME NEW r \in Restores, Leave(r) \/ Refuse(r) \/ Fail(r)
       PROVE  OrderInvariant'
  BY <1>12, ExitSupported DEF Leave, Refuse, Fail
<1>13. CASE UNCHANGED vars
  BY <1>13 DEF vars, OrderInvariant, RestoreSupported, ReadClosed, StepsSupported,
     AtSupported, HeldInRoot, AtRest, Held, ClosedUnderParents, Archives, IsIncremental
<1> QED
  BY <1>1, <1>2, <1>3, <1>4, <1>5, <1>6, <1>7, <1>8, <1>9, <1>10, <1>11, <1>12, <1>13
  DEF Next, Advance

LEMMA OrderGivesParentFirst == OrderInvariant => ParentFirst
BY DEF OrderInvariant, RestoreSupported, AtSupported, HeldInRoot, ParentFirst

(* Whatever is asked for, aborted, restored at the same time or backed up  *)
(* meanwhile: an incremental archive is received only on top of its        *)
(* parent.                                                                 *)
THEOREM ParentsAreFirst == Spec => []ParentFirst
<1>1. Init => TypeOK /\ OrderInvariant
  BY TypeInit, OrderInit
<1>2. (TypeOK /\ OrderInvariant) /\ [Next]_vars => (TypeOK /\ OrderInvariant)'
  BY TypeStep, OrderStep
<1> QED
  BY <1>1, <1>2, OrderGivesParentFirst, PTL DEF Spec

-----------------------------------------------------------------------------
(* Nothing is received in vain.  The archive a restore is at is needed     *)
(* too, so that it can become a step (Walk) or a received one; and the     *)
(* archives a need rests on are never forgotten before the restore ends.   *)

Known(r) == steps[r] \cup received[r] \cup pre_existing[r] \cup {at[r]}
Wanted(r) == steps[r] \cup received[r] \cup ({at[r]} \ {None})

RestoreNeeds(r) ==
  /\ pc[r] = "idle" => steps[r] = {} /\ received[r] = {}
  /\ pc[r] \in {"idle", "apply", "complete"} => at[r] = None
  /\ pc[r] \in {"idle", "walk"} => pre_existing[r] = {}
  /\ pc[r] # "idle" => unwalked[r] \subseteq targets[r] /\ \A t \in Wanted(r) : Needed(r, t)

NeedInvariant == \A r \in Restores : RestoreNeeds(r)

LEMMA NeededStaysNeeded ==
  ASSUME NEW r \in Restores, NEW t, Needed(r, t),
         meta'[r] = meta[r], targets'[r] = targets[r],
         Known(r) \ {None} \subseteq Known(r)'
  PROVE  Needed(r, t)'
BY NoneIsNoTimestamp DEF Needed, Known, Archives

(* A step in which a restore wants nothing new keeps its needs.            *)
LEMMA NeedsKept ==
  ASSUME NEW r \in Restores, RestoreNeeds(r), pc[r] # "idle", pc'[r] # "idle",
         pc'[r] = "walk" => pre_existing'[r] = {},
         pc'[r] \in {"apply", "complete"} => at'[r] = None,
         meta'[r] = meta[r], targets'[r] = targets[r], unwalked'[r] \subseteq unwalked[r],
         Known(r) \ {None} \subseteq Known(r)',
         \A t \in Wanted(r)' : t \in Wanted(r) \/ Needed(r, t)'
  PROVE  RestoreNeeds(r)'
BY NeededStaysNeeded DEF RestoreNeeds

LEMMA NeedFrame ==
  ASSUME NeedInvariant, NEW r \in Restores, RestoreNeeds(r)',
         \A s \in Restores \ {r} :
           /\ pc'[s] = pc[s] /\ meta'[s] = meta[s] /\ targets'[s] = targets[s]
           /\ unwalked'[s] = unwalked[s] /\ at'[s] = at[s] /\ steps'[s] = steps[s]
           /\ pre_existing'[s] = pre_existing[s] /\ received'[s] = received[s]
  PROVE  NeedInvariant'
BY DEF NeedInvariant, RestoreNeeds, Needed, Wanted, Archives

LEMMA NeedInit == Init => NeedInvariant
BY DEF Init, NeedInvariant, RestoreNeeds

LEMMA NeedStep == TypeOK /\ NeedInvariant /\ [Next]_vars => NeedInvariant'
<1> SUFFICES ASSUME TypeOK, NeedInvariant, [Next]_vars
             PROVE  NeedInvariant'
  OBVIOUS
<1> USE DEF process
<1>1. ASSUME Backup \/ (\E t \in Timestamps : Damage(t) \/ Remove(t)) \/ UNCHANGED vars
      PROVE  NeedInvariant'
  <2>1. UNCHANGED process
    BY <1>1 DEF Backup, Damage, Remove, vars
  <2> QED
    BY <2>1 DEF NeedInvariant, RestoreNeeds, Needed, Wanted, Archives
<1>2. ASSUME NEW r \in Restores, NEW q \in Requests, ResolveTargets(r, q)
      PROVE  NeedInvariant'
  <2>1. RestoreNeeds(r)'
    BY <1>2 DEF ResolveTargets, TypeOK, NeedInvariant, RestoreNeeds, Wanted
  <2> QED
    BY <1>2, <2>1, NeedFrame DEF ResolveTargets, TypeOK
<1>3. ASSUME NEW r \in Restores, StartChain(r)
      PROVE  NeedInvariant'
  <2>1. PICK t \in unwalked[r] : at' = [at EXCEPT ![r] = t] /\ unwalked' = [unwalked EXCEPT ![r] = @ \ {t}]
    BY <1>3 DEF StartChain
  <2>2. RestoreNeeds(r) /\ t \in targets[r] /\ pre_existing[r] = {}
    BY <1>3, <2>1 DEF StartChain, NeedInvariant, RestoreNeeds
  <2>3. /\ pc[r] = "walk" /\ at[r] = None /\ at'[r] = t /\ unwalked'[r] \subseteq unwalked[r]
        /\ UNCHANGED <<pc, meta, targets, steps, pre_existing, received>>
    BY <1>3, <2>1 DEF StartChain, TypeOK
  <2>4. Needed(r, t)'
    BY <2>2, <2>3 DEF Needed
  <2>5. \A u \in Wanted(r)' : u \in Wanted(r) \/ u = t
    BY <2>3 DEF Wanted
  <2>6. Known(r) \ {None} \subseteq Known(r)'
    BY <2>3 DEF Known
  <2>7. RestoreNeeds(r)'
    BY <2>2, <2>3, <2>4, <2>5, <2>6, NeedsKept
  <2> QED
    BY <1>3, <2>7, NeedFrame DEF StartChain, TypeOK
<1>4. ASSUME NEW r \in Restores, Walk(r)
      PROVE  NeedInvariant'
  <2>1. /\ pc[r] = "walk" /\ at[r] \in Archives(meta[r])
        /\ steps'[r] = steps[r] \cup {at[r]} /\ at'[r] = meta[r][at[r]].parent
        /\ UNCHANGED <<pc, meta, targets, unwalked, pre_existing, received>>
    BY <1>4 DEF Walk, Collect, Parent, TypeOK
  <2>2. ASSUME NEW t, t = meta[r][at[r]].parent
        PROVE  Needed(r, t)'
    BY <2>1, <2>2 DEF Needed, Archives
  <2>3. at[r] \in Wanted(r)
    BY <2>1, NoneIsNoTimestamp DEF Wanted, Archives
  <2>4. RestoreNeeds(r) /\ pre_existing[r] = {}
    BY <2>1 DEF NeedInvariant, RestoreNeeds
  <2>5. \A u \in Wanted(r)' : u \in Wanted(r) \/ u = meta[r][at[r]].parent
    BY <2>1, <2>3 DEF Wanted
  <2>6. Known(r) \ {None} \subseteq Known(r)'
    BY <2>1 DEF Known
  <2>7. RestoreNeeds(r)'
    BY <2>1, <2>2, <2>4, <2>5, <2>6, NeedsKept
  <2> QED
    BY <1>4, <2>7, NeedFrame DEF Walk, Collect, TypeOK
<1>5. ASSUME NEW r \in Restores, ScanRoot(r)
      PROVE  NeedInvariant'
  <2>1. /\ pc[r] = "walk" /\ pc'[r] = "apply" /\ at[r] = None
        /\ UNCHANGED <<meta, targets, unwalked, at, steps, received>>
    BY <1>5 DEF ScanRoot, TypeOK
  <2>2. RestoreNeeds(r) /\ pre_existing[r] = {}
    BY <2>1 DEF NeedInvariant, RestoreNeeds
  <2>3. RestoreNeeds(r)'
    BY <2>1, <2>2, NeedsKept DEF Known, Wanted
  <2> QED
    BY <1>5, <2>3, NeedFrame DEF ScanRoot, TypeOK
<1>6. ASSUME NEW r \in Restores, Skip(r)
      PROVE  NeedInvariant'
  <2>1. PICK t \in pre_existing[r] \cup received[r] : steps' = [steps EXCEPT ![r] = @ \ {t}]
    BY <1>6 DEF Skip
  <2>2. /\ pc[r] = "apply" /\ steps'[r] = steps[r] \ {t}
        /\ UNCHANGED <<pc, meta, targets, unwalked, at, received, pre_existing>>
    BY <1>6, <2>1 DEF Skip, TypeOK
  <2>3. RestoreNeeds(r) /\ at[r] = None
    BY <2>2 DEF NeedInvariant, RestoreNeeds
  <2>4. RestoreNeeds(r)'
    BY <2>1, <2>2, <2>3, NeedsKept DEF Known, Wanted
  <2> QED
    BY <1>6, <2>4, NeedFrame DEF Skip, TypeOK
<1>7. ASSUME NEW r \in Restores, StartReceive(r)
      PROVE  NeedInvariant'
  <2>1. PICK t \in steps[r] : at' = [at EXCEPT ![r] = t] /\ steps' = [steps EXCEPT ![r] = @ \ {t}]
    BY <1>7 DEF StartReceive
  <2>2. /\ pc[r] = "apply" /\ pc'[r] = "receive" /\ at'[r] = t /\ steps'[r] = steps[r] \ {t}
        /\ UNCHANGED <<meta, targets, unwalked, received, pre_existing>>
    BY <1>7, <2>1 DEF StartReceive, TypeOK
  <2>3. RestoreNeeds(r) /\ at[r] = None
    BY <2>2 DEF NeedInvariant, RestoreNeeds
  <2>4. RestoreNeeds(r)'
    BY <2>1, <2>2, <2>3, NeedsKept DEF Known, Wanted
  <2> QED
    BY <1>7, <2>4, NeedFrame DEF StartReceive, TypeOK
<1>8. ASSUME NEW r \in Restores, CreateSubvolume(r)
      PROVE  NeedInvariant'
  <2>1. /\ pc[r] = "receive" /\ pc'[r] = "stream"
        /\ UNCHANGED <<meta, targets, unwalked, at, steps, received, pre_existing>>
    BY <1>8 DEF CreateSubvolume, TypeOK
  <2>2. RestoreNeeds(r)'
    BY <2>1, NeedsKept DEF NeedInvariant, Known, Wanted
  <2> QED
    BY <1>8, <2>2, NeedFrame DEF CreateSubvolume, TypeOK
<1>9. ASSUME NEW r \in Restores, FinishReceive(r)
      PROVE  NeedInvariant'
  <2>1. /\ pc[r] = "stream" /\ pc'[r] = "apply" /\ at[r] \in Timestamps
        /\ received'[r] = received[r] \cup {at[r]} /\ at'[r] = None
        /\ UNCHANGED <<meta, targets, unwalked, steps, pre_existing>>
    BY <1>9 DEF FinishReceive, TypeOK
  <2>2. RestoreNeeds(r) /\ at[r] # None
    BY <2>1, NoneIsNoTimestamp DEF NeedInvariant
  <2>3. RestoreNeeds(r)'
    BY <2>1, <2>2, NeedsKept DEF Known, Wanted
  <2> QED
    BY <1>9, <2>3, NeedFrame DEF FinishReceive, TypeOK
<1>10. ASSUME NEW r \in Restores, FinishRestore(r)
       PROVE  NeedInvariant'
  <2>1. /\ pc[r] = "apply" /\ pc'[r] = "complete"
        /\ UNCHANGED <<meta, targets, unwalked, at, steps, received, pre_existing>>
    BY <1>10 DEF FinishRestore, TypeOK
  <2>2. RestoreNeeds(r) /\ at[r] = None
    BY <2>1 DEF NeedInvariant, RestoreNeeds
  <2>3. RestoreNeeds(r)'
    BY <2>1, <2>2, NeedsKept DEF Known, Wanted
  <2> QED
    BY <1>10, <2>3, NeedFrame DEF FinishRestore, TypeOK
<1>11. ASSUME NEW r \in Restores, Exit(r)
       PROVE  NeedInvariant'
  <2>1. RestoreNeeds(r)'
    BY <1>11 DEF Exit, TypeOK, RestoreNeeds
  <2> QED
    BY <1>11, <2>1, NeedFrame DEF Exit, TypeOK
<1> QED
  BY <1>1, <1>2, <1>3, <1>4, <1>5, <1>6, <1>7, <1>8, <1>9, <1>10, <1>11
  DEF Next, Advance, Leave, Refuse, Fail

LEMMA NeedGivesNeededOnly == NeedInvariant => NeededOnly
BY DEF NeedInvariant, RestoreNeeds, Wanted, NeededOnly

(* A restore receives its targets and what they are built on, nothing else.*)
THEOREM OnlyNeededReceived == Spec => []NeededOnly
<1>1. Init => TypeOK /\ NeedInvariant
  BY TypeInit, NeedInit
<1>2. (TypeOK /\ NeedInvariant) /\ [Next]_vars => (TypeOK /\ NeedInvariant)'
  BY TypeStep, NeedStep
<1> QED
  BY <1>1, <1>2, NeedGivesNeededOnly, PTL DEF Spec

-----------------------------------------------------------------------------
(* What "restore complete" delivers.  It holds of one restore at a time    *)
(* that never starts over what an aborted one has left: a second restore,  *)
(* or a second try, takes a subvolume that is still being received for one *)
(* that is there, and skips it (found_partial_restored).                   *)

OneRestore == \A r, s \in Restores : r = s

AllWhole == \A t \in Stored : store[t].stream = "whole"

(* What was read is still stored: archives are never removed.              *)
ReadStored(r) == Archives(meta[r]) \subseteq Stored

(* A subvolume is partial while it is in the hands of the restore, or      *)
(* after it was aborted.                                                   *)
PartialInHand(r) ==
  \A t \in Timestamps :
    root[t] = "partial" => pc[r] = "idle" \/ (pc[r] = "stream" /\ at[r] = t)

(* No target is lost on its way from resolve_targets to --root.            *)
TargetsOnTheWay(r) ==
  /\ pc[r] # "idle" =>
       targets[r] \subseteq unwalked[r] \cup {at[r]} \cup steps[r] \cup Held(r)
  /\ pc[r] \notin {"idle", "walk"} => unwalked[r] = {}
  /\ pc[r] = "complete" => steps[r] = {}

RestoreDelivering(r) == ReadStored(r) /\ PartialInHand(r) /\ TargetsOnTheWay(r)

NothingWrong == AllWhole => \A t \in Timestamps : root[t] # "wrong"

DeliverInvariant == NothingWrong /\ \A r \in Restores : RestoreDelivering(r)

LEMMA DeliverInit == Init => DeliverInvariant
BY DEF Init, DeliverInvariant, NothingWrong, RestoreDelivering, ReadStored, PartialInHand,
   TargetsOnTheWay, Archives

(* No step makes a damaged archive whole, and no step removes one.         *)
LEMMA StoreOnlyGrows ==
  ASSUME TypeOK, [Next]_vars
  PROVE  Stored \subseteq Stored' /\ (AllWhole' => AllWhole)
<1> USE DEF process
<1>1. CASE UNCHANGED store
  BY <1>1 DEF Stored, AllWhole
<1>2. CASE Backup
  <2>1. PICK t \in Timestamps, p \in Timestamps \cup {None} :
          /\ t \notin Stored
          /\ store' = [store EXCEPT ![t] = [parent |-> p, stream |-> "whole"]]
    BY <1>2 DEF Backup, StoreNext, AddFull, AddIncremental
  <2>2. [parent |-> p, stream |-> "whole"] # None
    BY SentinelAssumption DEF Record
  <2>3. \A u \in Stored : u \in Stored' /\ store'[u] = store[u]
    BY <2>1, <2>2 DEF Stored, TypeOK
  <2> QED
    BY <2>3 DEF AllWhole
<1>3. ASSUME NEW t \in Timestamps, Damage(t)
      PROVE  Stored \subseteq Stored' /\ (AllWhole' => AllWhole)
  <2>1. store[t] \in Record
    BY <1>3 DEF Damage, Stored, TypeOK
  <2>2. /\ \A u \in Timestamps : store[u] # None => store'[u] # None
        /\ store'[t] # None /\ store'[t].stream = "damaged"
    BY <1>3, <2>1, SentinelAssumption DEF Damage, TypeOK, Record
  <2> QED
    BY <2>2 DEF Stored, AllWhole
<1> QED
  BY <1>1, <1>2, <1>3 DEF Next, Advance, Remove, ResolveTargets, StartChain, Walk, Collect,
     ScanRoot, Skip, StartReceive, CreateSubvolume, FinishReceive, FinishRestore, Leave,
     Refuse, Fail, vars

(* With one restore only its own part can be disturbed.                    *)
LEMMA DeliverFrame ==
  ASSUME OneRestore, NEW r \in Restores, NothingWrong', RestoreDelivering(r)'
  PROVE  DeliverInvariant'
BY DEF OneRestore, DeliverInvariant

(* A step that changes nothing in --root puts nothing wrong there.         *)
LEMMA RootUnchanged ==
  ASSUME TypeOK, NothingWrong, [Next]_vars, UNCHANGED root
  PROVE  NothingWrong'
BY StoreOnlyGrows DEF NothingWrong

LEMMA ReadStaysStored ==
  ASSUME TypeOK, NEW r \in Restores, ReadStored(r), [Next]_vars, meta'[r] = meta[r]
  PROVE  ReadStored(r)'
BY StoreOnlyGrows DEF ReadStored, Archives

LEMMA DeliverStep ==
  OneRestore /\ ~Retry /\ TypeOK /\ OrderInvariant /\ DeliverInvariant /\ [Next]_vars
    => DeliverInvariant'
<1> SUFFICES ASSUME OneRestore, ~Retry, TypeOK, OrderInvariant, DeliverInvariant, [Next]_vars
             PROVE  DeliverInvariant'
  OBVIOUS
<1> USE DEF process
<1>0. NothingWrong /\ \A r \in Restores : RestoreDelivering(r) /\ RestoreSupported(r)
  BY DEF DeliverInvariant, OrderInvariant
<1>1. ASSUME Backup \/ (\E t \in Timestamps : Damage(t) \/ Remove(t)) \/ UNCHANGED vars
      PROVE  DeliverInvariant'
  <2>1. UNCHANGED process
    BY <1>1 DEF Backup, Damage, Remove, vars
  <2>2. \A t \in Timestamps : root'[t] = root[t] \/ root'[t] = "absent"
    BY <1>1 DEF Backup, Damage, Remove, vars, TypeOK
  <2>3. NothingWrong'
    BY <1>0, <2>2, StoreOnlyGrows DEF NothingWrong
  <2>4. ASSUME NEW r \in Restores PROVE RestoreDelivering(r)'
    <3>1. ReadStored(r)'
      BY <1>0, <2>1, ReadStaysStored DEF RestoreDelivering
    <3>2. PartialInHand(r)' /\ TargetsOnTheWay(r)'
      BY <1>0, <2>1, <2>2 DEF RestoreDelivering, PartialInHand, TargetsOnTheWay, Held
    <3> QED
      BY <3>1, <3>2 DEF RestoreDelivering
  <2> QED
    BY <2>3, <2>4 DEF DeliverInvariant
<1>2. ASSUME NEW r \in Restores, NEW q \in Requests, ResolveTargets(r, q)
      PROVE  DeliverInvariant'
  <2>1. /\ pc'[r] = "walk" /\ meta'[r] = store /\ targets'[r] = Targets(q, store)
        /\ unwalked'[r] = Targets(q, store) /\ UNCHANGED <<store, root>>
    BY <1>2 DEF ResolveTargets, TypeOK
  <2>2. \A t \in Timestamps : root[t] # "partial"
    BY <1>2 DEF ResolveTargets
  <2>3. RestoreDelivering(r)'
    BY <2>1, <2>2 DEF RestoreDelivering, ReadStored, PartialInHand, TargetsOnTheWay, Archives, Stored
  <2> QED
    BY <1>0, <2>1, <2>3, RootUnchanged, DeliverFrame
<1>3. ASSUME NEW r \in Restores, StartChain(r) \/ Walk(r)
      PROVE  DeliverInvariant'
  <2>1. /\ pc[r] = "walk" /\ targets[r] \subseteq unwalked[r] \cup {at[r]} \cup steps[r] \cup Held(r)
        /\ UNCHANGED <<store, root, pc, meta, targets, pre_existing, received>>
    BY <1>0, <1>3 DEF StartChain, Walk, Collect, RestoreDelivering, TargetsOnTheWay
  <2>2. \/ /\ at[r] = None /\ steps'[r] = steps[r]
           /\ unwalked[r] = unwalked'[r] \cup {at'[r]}
        \/ steps'[r] = steps[r] \cup {at[r]} /\ unwalked'[r] = unwalked[r]
    <3>1. CASE StartChain(r)
      BY <3>1 DEF StartChain, TypeOK
    <3>2. CASE Walk(r)
      BY <3>2 DEF Walk, Collect, TypeOK
    <3> QED
      BY <1>3, <3>1, <3>2
  <2>3. None \notin targets[r]
    BY NoneIsNoTimestamp DEF TypeOK
  <2>4. TargetsOnTheWay(r)'
    BY <2>1, <2>2, <2>3 DEF TargetsOnTheWay, Held
  <2>5. PartialInHand(r)'
    BY <1>0, <2>1 DEF RestoreDelivering, PartialInHand
  <2> QED
    BY <1>0, <2>1, <2>4, <2>5, ReadStaysStored, RootUnchanged, DeliverFrame DEF RestoreDelivering
<1>4. ASSUME NEW r \in Restores, ScanRoot(r)
      PROVE  DeliverInvariant'
  <2>1. /\ pc[r] = "walk" /\ pc'[r] = "apply" /\ unwalked[r] = {}
        /\ pre_existing[r] \subseteq Timestamps
        /\ pre_existing'[r] = {t \in Timestamps : root[t] # "absent"}
        /\ UNCHANGED <<store, root, meta, targets, unwalked, at, steps, received>>
    BY <1>4 DEF ScanRoot, TypeOK
  <2>2. Held(r) \subseteq Held(r)'
    BY <1>0, <2>1 DEF RestoreSupported, HeldInRoot, Held
  <2>3. TargetsOnTheWay(r)' /\ PartialInHand(r)'
    BY <1>0, <2>1, <2>2 DEF RestoreDelivering, TargetsOnTheWay, PartialInHand
  <2> QED
    BY <1>0, <2>1, <2>3, ReadStaysStored, RootUnchanged, DeliverFrame DEF RestoreDelivering
<1>5. ASSUME NEW r \in Restores, Skip(r) \/ StartReceive(r) \/ FinishRestore(r)
      PROVE  DeliverInvariant'
  <2>1. /\ pc[r] = "apply" /\ pc'[r] \in {"apply", "receive", "complete"}
        /\ pc'[r] = "complete" => steps'[r] = {}
        /\ UNCHANGED <<store, root, meta, targets, unwalked, pre_existing, received>>
    BY <1>5 DEF Skip, StartReceive, FinishRestore, TypeOK
  <2>2. at[r] = None /\ None \notin targets[r]
    BY <1>0, <2>1, NoneIsNoTimestamp DEF RestoreSupported, AtRest, TypeOK
  <2>3. steps[r] \subseteq steps'[r] \cup {at'[r]} \cup Held(r)
    <3>1. CASE Skip(r)
      BY <3>1 DEF Skip, Held, TypeOK
    <3>2. CASE StartReceive(r)
      BY <3>2 DEF StartReceive, TypeOK
    <3>3. CASE FinishRestore(r)
      BY <3>3 DEF FinishRestore
    <3> QED
      BY <1>5, <3>1, <3>2, <3>3
  <2>4. TargetsOnTheWay(r)' /\ PartialInHand(r)'
    BY <1>0, <2>1, <2>2, <2>3 DEF RestoreDelivering, TargetsOnTheWay, PartialInHand, Held
  <2> QED
    BY <1>0, <2>1, <2>4, ReadStaysStored, RootUnchanged, DeliverFrame DEF RestoreDelivering
<1>6. ASSUME NEW r \in Restores, CreateSubvolume(r)
      PROVE  DeliverInvariant'
  <2>1. /\ pc[r] = "receive" /\ pc'[r] = "stream" /\ at[r] \in Timestamps
        /\ root' = [root EXCEPT ![at[r]] = "partial"]
        /\ UNCHANGED <<store, meta, targets, unwalked, at, steps, pre_existing, received>>
    BY <1>6 DEF CreateSubvolume, TypeOK
  <2>2. NothingWrong'
    BY <1>0, <2>1, StoreOnlyGrows DEF NothingWrong, TypeOK
  <2>3. PartialInHand(r)'
    <3>1. \A t \in Timestamps : root'[t] = "partial" => t = at[r] \/ root[t] = "partial"
      BY <2>1 DEF TypeOK
    <3>2. \A t \in Timestamps : root[t] # "partial"
      BY <1>0, <2>1 DEF RestoreDelivering, PartialInHand
    <3> QED
      BY <2>1, <3>1, <3>2 DEF PartialInHand
  <2>4. TargetsOnTheWay(r)'
    BY <1>0, <2>1 DEF RestoreDelivering, TargetsOnTheWay, Held
  <2> QED
    BY <1>0, <2>1, <2>2, <2>3, <2>4, ReadStaysStored, DeliverFrame DEF RestoreDelivering
<1>7. ASSUME NEW r \in Restores, FinishReceive(r)
      PROVE  DeliverInvariant'
  <2>1. /\ pc[r] = "stream" /\ pc'[r] = "apply" /\ at[r] \in Timestamps
        /\ root' = [root EXCEPT ![at[r]] = Result(meta[r], at[r])]
        /\ received'[r] = received[r] \cup {at[r]} /\ at'[r] = None
        /\ UNCHANGED <<store, meta, targets, unwalked, steps, pre_existing>>
    BY <1>7 DEF FinishReceive, TypeOK
  <2>2. at[r] \in Archives(meta[r]) /\ at[r] # None
    BY <1>0, <2>1, NoneIsNoTimestamp DEF RestoreSupported, ReadClosed
  <2>3. ASSUME IsIncremental(meta[r], at[r]), AllWhole
        PROVE  root[meta[r][at[r]].parent] = "whole"
    <3> DEFINE p == meta[r][at[r]].parent
    <3>1. p \in Timestamps /\ p < at[r] /\ p \in Held(r)
      BY <1>0, <2>1, <2>2, <2>3 DEF RestoreSupported, ReadClosed, AtSupported, ClosedUnderParents, Archives
    <3>2. p # at[r]
      BY <2>1, <3>1, TimestampsAssumption
    <3>3. root[p] # "absent"
      BY <1>0, <3>1 DEF RestoreSupported, HeldInRoot
    <3>4. root[p] # "partial"
      BY <1>0, <2>1, <3>1, <3>2 DEF RestoreDelivering, PartialInHand
    <3>5. root[p] # "wrong"
      BY <1>0, <2>3, <3>1 DEF NothingWrong
    <3> QED
      BY <3>1, <3>3, <3>4, <3>5 DEF TypeOK
  <2>4. at[r] \in Stored
    BY <1>0, <2>2 DEF RestoreDelivering, ReadStored
  <2>5. AllWhole => Result(meta[r], at[r]) = "whole"
    BY <2>3, <2>4 DEF Result, AllWhole
  <2>6. NothingWrong'
    BY <1>0, <2>1, <2>5, StoreOnlyGrows DEF NothingWrong, TypeOK
  <2>7. PartialInHand(r)'
    <3>1. Result(meta[r], at[r]) # "partial"
      BY DEF Result
    <3> QED
      BY <1>0, <2>1, <3>1 DEF RestoreDelivering, PartialInHand, TypeOK
  <2>8. TargetsOnTheWay(r)'
    BY <1>0, <2>1 DEF RestoreDelivering, TargetsOnTheWay, Held
  <2> QED
    BY <1>0, <2>1, <2>6, <2>7, <2>8, ReadStaysStored, DeliverFrame DEF RestoreDelivering
<1>8. ASSUME NEW r \in Restores, Leave(r) \/ Refuse(r) \/ Fail(r)
      PROVE  DeliverInvariant'
  <2>1. /\ pc'[r] = "idle" /\ meta'[r] = [t \in Timestamps |-> None]
        /\ UNCHANGED <<store, root>>
    BY <1>8 DEF Leave, Refuse, Fail, Exit, TypeOK
  <2>2. RestoreDelivering(r)'
    BY <2>1 DEF RestoreDelivering, ReadStored, PartialInHand, TargetsOnTheWay, Archives
  <2> QED
    BY <1>0, <2>1, <2>2, RootUnchanged, DeliverFrame
<1> QED
  BY <1>1, <1>2, <1>3, <1>4, <1>5, <1>6, <1>7, <1>8 DEF Next, Advance

(* Complete: no step is left, so every target is held; what is held is     *)
(* neither absent nor, with no stream open, partial.                       *)
LEMMA DeliverGivesDelivers ==
  TypeOK /\ OrderInvariant /\ DeliverInvariant => RestoreDelivers
<1> SUFFICES ASSUME TypeOK, OrderInvariant, DeliverInvariant, AllWhole,
                    NEW r \in Restores, pc[r] = "complete", NEW t \in targets[r]
             PROVE  root[t] = "whole"
  BY DEF RestoreDelivers, AllWhole
<1>1. RestoreSupported(r) /\ RestoreDelivering(r) /\ NothingWrong
  BY DEF OrderInvariant, DeliverInvariant
<1>2. t \in Timestamps /\ t # None /\ at[r] = None
  BY <1>1, NoneIsNoTimestamp DEF TypeOK, RestoreSupported, AtRest
<1>3. t \in Held(r)
  BY <1>1, <1>2 DEF RestoreDelivering, TargetsOnTheWay
<1>4. root[t] # "absent"
  BY <1>1, <1>3 DEF RestoreSupported, HeldInRoot
<1>5. root[t] # "partial" /\ root[t] # "wrong"
  BY <1>1, <1>2 DEF RestoreDelivering, PartialInHand, NothingWrong
<1> QED
  BY <1>2, <1>4, <1>5 DEF TypeOK

(* One restore that starts over nothing an aborted one has left, while     *)
(* backups go on and chunks are damaged: when it reports "restore          *)
(* complete" and no stored chunk is damaged, every target is in --root,    *)
(* whole.                                                                  *)
THEOREM CompleteRestoreDelivers ==
  ASSUME OneRestore, ~Retry
  PROVE  Spec => []RestoreDelivers
<1>1. Init => TypeOK /\ OrderInvariant /\ DeliverInvariant
  BY TypeInit, OrderInit, DeliverInit
<1>2. (TypeOK /\ OrderInvariant /\ DeliverInvariant) /\ [Next]_vars
        => (TypeOK /\ OrderInvariant /\ DeliverInvariant)'
  BY TypeStep, OrderStep, DeliverStep
<1>3. TypeOK /\ OrderInvariant /\ DeliverInvariant => RestoreDelivers
  BY DeliverGivesDelivers
<1> QED
  BY <1>1, <1>2, <1>3, PTL DEF Spec

=============================================================================
