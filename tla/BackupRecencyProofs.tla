------------------------- MODULE BackupRecencyProofs --------------------------
(***************************************************************************)
(* Chains are not older than min_full_send_interval, by the day count of   *)
(* planner/mod.rs and, up to its error, by the calendar: for any number of *)
(* runs and snapshots, if snapshots appear in the order of their names and *)
(* none is deleted while a run is working.                                 *)
(***************************************************************************)
EXTENDS BackupDates, BackupRunProofs

-----------------------------------------------------------------------------
(* How far the day count of planner/mod.rs is from the calendar, for all   *)
(* dates.                                                                  *)

(* The leap day of a year, once it has passed.                             *)
LeapDay(a) == IF a.m > 2 /\ IsLeap(a.y) THEN 1 ELSE 0

LEMMA LeapDaysNat ==
  ASSUME NEW y \in Nat \ {0}
  PROVE  LeapDaysBefore(y) \in Int
BY DEF LeapDaysBefore

(* Every fourth year is leap but three of four centuries: the correction   *)
(* for centuries never takes away more than the fourth years have added.   *)
LEMMA LeapDaysGrow ==
  ASSUME NEW y \in Nat \ {0}, NEW z \in Nat \ {0}, y <= z
  PROVE  LeapDaysBefore(y) <= LeapDaysBefore(z)
<1> DEFINE q(x) == (x - 1) \div 4
           c(x) == (x - 1) \div 100
           f(x) == (x - 1) \div 400
<1>1. \A x \in Nat \ {0} : /\ c(x) = q(x) \div 25
                           /\ f(x) = c(x) \div 4
  OBVIOUS
<1>2. q(y) \in Nat /\ q(z) \in Nat /\ q(y) <= q(z)
  OBVIOUS
<1>3. \A i, j \in Nat : i <= j =>
        i - i \div 25 + (i \div 25) \div 4 <= j - j \div 25 + (j \div 25) \div 4
  OBVIOUS
<1> QED BY <1>1, <1>2, <1>3 DEF LeapDaysBefore

LEMMA LeapDayCounted ==
  ASSUME NEW a \in Date
  PROVE  /\ LeapDay(a) \in {0, 1}
         /\ LeapDaysBefore(a.y) + LeapDay(a) <= LeapDaysBefore(a.y + 1)
<1> DEFINE y == a.y
<1>1. y \in Nat \ {0}
  BY DEF Date
<1> HIDE DEF y
<1>2. LeapDaysBefore(y) <= LeapDaysBefore(y + 1)
  BY <1>1, LeapDaysGrow
<1>3. IsLeap(y) => LeapDaysBefore(y) + 1 <= LeapDaysBefore(y + 1)
  BY <1>1 DEF IsLeap, LeapDaysBefore
<1>4. LeapDaysBefore(y) \in Int /\ LeapDaysBefore(y + 1) \in Int
  BY <1>1, LeapDaysNat
<1> QED BY <1>2, <1>3, <1>4 DEF LeapDay, y

(* Months of 30 days are never off by more than five.                      *)
LEMMA MonthsError ==
  ASSUME NEW m \in 1 .. 12
  PROVE  BeforeMonth(m) \in Int /\ BeforeMonth(m) - 30 * m \in -31 .. -26
<1>1. m \in {1, 2, 3, 4, 5, 6, 7, 8, 9, 10, 11, 12}
  OBVIOUS
<1> QED BY <1>1 DEF BeforeMonth

LEMMA SerialSplit ==
  ASSUME NEW a \in Date
  PROVE  /\ DayCount(a) \in Int /\ Serial(a) \in Int
         /\ \E e \in -31 .. -26 :
              Serial(a) - DayCount(a) = e + LeapDaysBefore(a.y) + LeapDay(a) - 365
<1> DEFINE y == a.y
           m == a.m
           d == a.d
           l == LeapDaysBefore(a.y)
           b == BeforeMonth(a.m)
           x == LeapDay(a)
           s == Serial(a)
           c == DayCount(a)
<1>1. y \in Nat \ {0} /\ m \in 1 .. 12 /\ d \in 1 .. 31
  BY DEF Date
<1>2. l \in Int /\ x \in {0, 1}
  BY <1>1, LeapDaysNat, LeapDayCounted
<1>3. b \in Int /\ b - 30 * m \in -31 .. -26
  BY <1>1, MonthsError
<1>4. s = 365 * (y - 1) + l + b + x + d
  BY DEF Serial, LeapDay
<1>5. c = y * 365 + m * 30 + d
  BY DEF DayCount
<1> HIDE DEF y, m, d, l, b, x, s, c
<1>6. c \in Int /\ s \in Int
  BY <1>1, <1>2, <1>3, <1>4, <1>5
<1>7. s - c = (b - 30 * m) + l + x - 365
  BY <1>1, <1>2, <1>3, <1>4, <1>5
<1> QED BY <1>3, <1>6, <1>7 DEF l, x, s, c

-----------------------------------------------------------------------------
(* The day count follows the order of the names: a snapshot is never       *)
(* counted as older than one before it.                                    *)
THEOREM DayCountMonotone ==
  ASSUME NEW a \in Date, NEW b \in Date, NotAfter(a, b)
  PROVE  DayCount(a) <= DayCount(b)
<1> DEFINE y == a.y
           m == a.m
           d == a.d
           z == b.y
           n == b.m
           e == b.d
<1>1. /\ y \in Nat /\ m \in 1 .. 12 /\ d \in 1 .. 31
      /\ z \in Nat /\ n \in 1 .. 12 /\ e \in 1 .. 31
  BY DEF Date
<1>2. y < z \/ (y = z /\ m < n) \/ (y = z /\ m = n /\ d <= e)
  BY DEF NotAfter
<1>3. DayCount(a) = y * 365 + m * 30 + d /\ DayCount(b) = z * 365 + n * 30 + e
  BY DEF DayCount
<1> HIDE DEF y, m, d, z, n, e
<1>4. y * 365 + m * 30 + d <= z * 365 + n * 30 + e
  BY <1>1, <1>2
<1> QED BY <1>3, <1>4, Zenon

(* The interval of two dates is counted as up to five days longer than it  *)
(* is, and as shorter by up to five days and the leap days of their years. *)
THEOREM DayCountError ==
  ASSUME NEW a \in Date, NEW b \in Date, NotAfter(a, b)
  PROVE  LET real == Serial(b) - Serial(a)
             counted == DayCount(b) - DayCount(a)
         IN  counted - 5 <= real /\ real <= counted + Slack(a, b)
<1>1. /\ a.y \in Nat \ {0} /\ a.m \in 1 .. 12 /\ a.d \in 1 .. 31
      /\ b.y \in Nat \ {0} /\ b.m \in 1 .. 12 /\ b.d \in 1 .. 31
  BY DEF Date
<1>2. PICK e \in -31 .. -26 :
        Serial(a) - DayCount(a) = e + LeapDaysBefore(a.y) + LeapDay(a) - 365
  BY SerialSplit
<1>3. PICK f \in -31 .. -26 :
        Serial(b) - DayCount(b) = f + LeapDaysBefore(b.y) + LeapDay(b) - 365
  BY SerialSplit
<1>4. LeapDay(a) \in {0, 1} /\ LeapDaysBefore(a.y) + LeapDay(a) <= LeapDaysBefore(a.y + 1)
  BY LeapDayCounted
<1>5. LeapDay(b) \in {0, 1} /\ LeapDaysBefore(b.y) + LeapDay(b) <= LeapDaysBefore(b.y + 1)
  BY LeapDayCounted
<1>6. /\ LeapDaysBefore(a.y) \in Int /\ LeapDaysBefore(b.y) \in Int
      /\ LeapDaysBefore(a.y + 1) \in Int /\ LeapDaysBefore(b.y + 1) \in Int
  BY <1>1, LeapDaysNat
<1>7. DayCount(a) \in Int /\ DayCount(b) \in Int /\ Serial(a) \in Int /\ Serial(b) \in Int
  BY SerialSplit
<1>8. LeapDaysBefore(a.y) + LeapDay(a) <= LeapDaysBefore(b.y) + LeapDay(b)
  <2>1. CASE a.y < b.y
    <3>1. LeapDaysBefore(a.y + 1) <= LeapDaysBefore(b.y)
      BY <1>1, <2>1, LeapDaysGrow
    <3> QED BY <1>4, <1>5, <1>6, <3>1
  <2>2. CASE a.y = b.y
    <3>1. a.m <= b.m
      BY <1>1, <2>2 DEF NotAfter
    <3>2. LeapDay(a) <= LeapDay(b)
      BY <1>1, <2>2, <3>1 DEF LeapDay
    <3> QED BY <1>4, <1>5, <1>6, <2>2, <3>2
  <2> QED BY <2>1, <2>2 DEF NotAfter
<1>9. LeapDaysBefore(b.y) + LeapDay(b) - (LeapDaysBefore(a.y) + LeapDay(a))
         <= LeapDaysBefore(b.y + 1) - LeapDaysBefore(a.y)
  BY <1>4, <1>5, <1>6
<1> QED BY <1>2, <1>3, <1>4, <1>5, <1>6, <1>7, <1>8, <1>9 DEF Slack

-----------------------------------------------------------------------------
(* The order in which snapshots are archived.                              *)

(* Metadata lists only snapshots there have been, and with a snapshot all  *)
(* older ones that are still there.                                        *)
Kept(m, sn) ==
  \A f \in Archived(m) :
    /\ sn[f] # "future"
    /\ \A t \in Timestamps : sn[t] = "present" /\ t < f => t \in Archived(m)

(* A run has listed all there is up to its newest snapshot, and works on   *)
(* it from the oldest to the newest.                                       *)
RunOrder(r) ==
  /\ Kept(dest_meta[r], snaps)
  /\ pc[r] = "idle" => src_state[r] = {}
  /\ \A u \in src_state[r] : snaps[u] = "present"
  /\ \A u \in src_state[r], t \in Timestamps :
       snaps[t] = "present" /\ t < u => t \in src_state[r]
  /\ pc[r] = "plan" => todo[r] \subseteq src_state[r]
  /\ pc[r] \notin {"idle", "inspect"} =>
       \A t \in src_state[r] : t \in todo[r] \/ t \in DestSet(r) \/ t \in Pending(r)
  /\ pc[r] # "plan" => todo[r] = {}
  /\ \A s \in steps[r] :
       /\ s.snap \in src_state[r]
       /\ s.snap \notin Archived(dest_meta[r])
       /\ \A u \in todo[r] : s.snap < u
       /\ \A z \in steps[r] : s.snap = z.snap => s = z
  /\ pc[r] = "send" =>
       /\ cur[r].snap \in src_state[r]
       /\ cur[r].snap \notin Archived(dest_meta[r])
       /\ \A s \in steps[r] : cur[r].snap < s.snap

OrderInv ==
  /\ InOrder
  /\ Kept(meta, snaps)
  /\ tmp \in Metas => Kept(tmp, snaps)
  /\ \A r \in Runs : RunOrder(r)

(* A run whose own variables do not change keeps RunOrder.                 *)
LEMMA RunOrderFrame ==
  ASSUME NEW q \in Runs, RunOrder(q), snaps' = snaps,
         dest_meta'[q] = dest_meta[q], src_state'[q] = src_state[q],
         todo'[q] = todo[q], steps'[q] = steps[q], pc'[q] = pc[q],
         pc[q] = "send" => cur'[q].snap = cur[q].snap
  PROVE  RunOrder(q)'
BY DEF RunOrder, DestSet, Planned, Pending

LEMMA EmptyKept == \A sn : Kept(EmptyMeta, sn)
BY DEF Kept, Archived, EmptyMeta

LEMMA OrderInit == Init => OrderInv
<1> SUFFICES ASSUME Init PROVE OrderInv
  OBVIOUS
<1>1. InOrder
  BY DEF Init, InOrder
<1>2. ASSUME NEW r \in Runs PROVE RunOrder(r)
  BY EmptyKept DEF Init, RunOrder
<1>3. Kept(meta, snaps) /\ tmp \notin Metas
  BY EmptyKept, SentinelAssumption DEF Init
<1> QED BY <1>1, <1>2, <1>3 DEF OrderInv

(* Snapshots that appear in order leave no gap in what is archived.        *)
LEMMA KeptSource ==
  ASSUME TypeInv, InOrder, NEW m \in Metas, Kept(m, snaps),
         NEW t \in Timestamps, SnapCreate(t) \/ SnapDelete(t)
  PROVE  Kept(m, snaps')
<1>1. \A u \in Timestamps :
        /\ snaps[u] # "future" => snaps'[u] # "future"
        /\ snaps'[u] = "present" => snaps[u] = "present" \/ (u = t /\ snaps[t] = "future")
  BY DEF SnapCreate, SnapDelete, TypeInv, TypeOK
<1> QED BY <1>1 DEF Kept, InOrder, Archived

LEMMA OrderSource ==
  ASSUME ~PurgeInRun, TypeInv, OrderInv,
         NEW t \in Timestamps, SnapCreate(t) \/ SnapDelete(t), InOrder'
  PROVE  OrderInv'
<1>1. UNCHANGED <<dest, pc, src_state, plan, dest_meta, cur>>
  BY DEF SnapCreate, SnapDelete
<1>2. \A m \in Metas : Kept(m, snaps) => Kept(m, snaps')
  BY KeptSource DEF OrderInv
<1>3. ASSUME NEW r \in Runs PROVE RunOrder(r)'
  <2>1. Kept(dest_meta[r], snaps')
    BY <1>2 DEF TypeInv, TypeOK, OrderInv, RunOrder
  <2>2. \A u \in src_state[r] : snaps'[u] = "present"
    BY DEF SnapCreate, SnapDelete, TypeInv, TypeOK, OrderInv, RunOrder
  <2>3. \A u \in src_state[r], v \in Timestamps :
          snaps'[v] = "present" /\ v < u => v \in src_state[r]
    BY DEF SnapCreate, SnapDelete, TypeInv, TypeOK, OrderInv, RunOrder, InOrder
  <2>4. /\ dest_meta' = dest_meta /\ src_state' = src_state /\ todo' = todo
        /\ steps' = steps /\ pc' = pc /\ cur' = cur
    BY <1>1 DEF plan
  <2>5. RunOrder(r)
    BY DEF OrderInv
  <2> QED BY <2>1, <2>2, <2>3, <2>4, <2>5 DEF RunOrder, DestSet, Planned, Pending
<1>4. Kept(meta, snaps)' /\ (tmp \in Metas => Kept(tmp, snaps))'
  BY <1>1, <1>2 DEF dest, OrderInv, TypeInv, TypeOK, MetaReadable
<1> QED BY <1>3, <1>4 DEF OrderInv

-----------------------------------------------------------------------------
(* One run's steps.                                                        *)

LEMMA OrderInspect ==
  ASSUME TypeInv, ChainInv, OrderInv, NEW r \in Runs, InspectSource(r) \/ InspectDest(r)
  PROVE  RunOrder(r)'
<1>1. RunOrder(r) /\ snaps' = snaps
  BY DEF OrderInv, InspectSource, InspectDest
<1>2. CASE InspectSource(r)
  <2>1. /\ pc[r] = "idle" /\ pc'[r] = "inspect" /\ src_state'[r] = Present
        /\ dest_meta' = dest_meta /\ todo' = todo /\ steps' = steps
    BY <1>2 DEF InspectSource, plan, TypeInv, TypeOK
  <2>2. steps[r] = {}
    BY <2>1 DEF ChainInv, RunChain
  <2> QED BY <1>1, <2>1, <2>2 DEF RunOrder, Present
<1>3. CASE InspectDest(r)
  <2>1. /\ pc[r] = "inspect" /\ pc'[r] = "plan" /\ dest_meta'[r] = meta
        /\ todo'[r] = src_state[r] /\ src_state' = src_state /\ steps' = steps
    BY <1>3 DEF InspectDest, TypeInv, TypeOK
  <2>2. steps[r] = {}
    BY <2>1 DEF ChainInv, RunChain
  <2>3. Kept(meta, snaps)
    BY DEF OrderInv
  <2> QED BY <1>1, <2>1, <2>2, <2>3 DEF RunOrder
<1> QED BY <1>2, <1>3

LEMMA OrderPlan ==
  ASSUME TypeInv, ChainInv, OrderInv, NEW r \in Runs, NEW t \in Timestamps,
         PlanSkip(r, t) \/ PlanFull(r, t) \/ PlanIncremental(r, t)
  PROVE  RunOrder(r)'
<1>1. /\ RunOrder(r) /\ snaps' = snaps /\ dest_meta' = dest_meta /\ src_state' = src_state
      /\ pc' = pc /\ pc[r] = "plan" /\ cur' = cur
      /\ todo'[r] = todo[r] \ {t}
      /\ t \in todo[r] /\ \A u \in todo[r] : t <= u
  BY DEF OrderInv, PlanSkip, PlanFull, PlanIncremental, AddStep, IsOldest, TypeInv, TypeOK
<1>2. CASE PlanSkip(r, t)
  <2>1. steps' = steps /\ t \in DestSet(r)
    BY <1>2 DEF PlanSkip
  <2> QED BY <1>1, <2>1 DEF RunOrder, DestSet, Planned, Pending
<1>3. CASE PlanFull(r, t) \/ PlanIncremental(r, t)
  <2>1. PICK p : steps'[r] = steps[r] \cup {[snap |-> t, parent |-> p]}
    BY <1>3 DEF PlanFull, PlanIncremental, AddStep, TypeInv, TypeOK
  <2>2. t \notin DestSet(r)
    BY <1>3 DEF PlanFull, PlanIncremental
  <2>3. t \in src_state[r] /\ t \notin Archived(dest_meta[r]) /\ \A s \in steps[r] : s.snap # t
    BY <1>1, <2>2 DEF RunOrder, DestSet, Planned
  <2>4. \A u \in todo[r] \ {t} : t < u
    <3>1. t \in Nat /\ todo[r] \subseteq Nat
      BY TimestampsAssumption DEF TypeInv, TypeOK
    <3>2. \A i, j \in Nat : i <= j /\ i # j => i < j
      OBVIOUS
    <3> QED BY <1>1, <3>1, <3>2
  <2>5. \A s \in steps'[r] :
          /\ s.snap \in src_state[r]
          /\ s.snap \notin Archived(dest_meta[r])
          /\ \A u \in todo'[r] : s.snap < u
          /\ \A z \in steps'[r] : s.snap = z.snap => s = z
    BY <1>1, <2>1, <2>3, <2>4 DEF RunOrder
  <2>6. ASSUME NEW u \in src_state[r] PROVE u \in todo'[r] \/ u \in DestSet(r)'
    <3>1. t \in Planned(r)' /\ Planned(r) \subseteq Planned(r)'
      BY <2>1 DEF Planned
    <3>2. DestSet(r) \cup {t} \subseteq DestSet(r)'
      BY <1>1, <3>1 DEF DestSet
    <3>3. u \in todo[r] \/ u \in DestSet(r)
      BY <1>1 DEF RunOrder, Pending
    <3> QED BY <1>1, <3>2, <3>3
  <2> QED BY <1>1, <2>5, <2>6 DEF RunOrder
<1> QED BY <1>2, <1>3

LEMMA OrderExit ==
  ASSUME TypeInv, NEW r \in Runs, Exit(r)
  PROVE  RunOrder(r)'
BY EmptyKept DEF Exit, RunOrder, TypeInv, TypeOK

LEMMA OrderStartSend ==
  ASSUME TypeInv, OrderInv, NEW r \in Runs, StartSend(r)
  PROVE  RunOrder(r)'
<1>1. PICK s \in steps[r] :
        /\ IsOldest(s.snap, Planned(r))
        /\ cur'[r].snap = s.snap
        /\ steps'[r] = steps[r] \ {s}
  BY DEF StartSend, TypeInv, TypeOK
<1>2. /\ RunOrder(r) /\ snaps' = snaps /\ dest_meta' = dest_meta /\ src_state' = src_state
      /\ todo' = todo /\ pc[r] = "run" /\ pc'[r] = "send"
  BY DEF OrderInv, StartSend, TypeInv, TypeOK
<1>3. ASSUME NEW z \in steps'[r] PROVE s.snap < z.snap
  <2>1. z \in steps[r] /\ z # s /\ s.snap <= z.snap
    BY <1>1 DEF IsOldest, Planned
  <2>2. s.snap # z.snap
    BY <1>2, <2>1 DEF RunOrder
  <2>3. s.snap \in Nat /\ z.snap \in Nat
    <3>1. s \in Step /\ z \in Step
      BY <2>1 DEF TypeInv, TypeOK
    <3> QED BY <3>1, TimestampsAssumption DEF Step
  <2> QED BY <2>1, <2>2, <2>3
<1>4. \A u \in src_state[r] : u \in DestSet(r)' \/ u \in Pending(r)'
  <2>1. ASSUME NEW u \in src_state[r] PROVE u \in DestSet(r)' \/ u = s.snap
    BY <1>1, <1>2 DEF RunOrder, DestSet, Planned, Pending
  <2> QED BY <1>1, <1>2, <2>1 DEF Pending
<1> QED BY <1>1, <1>2, <1>3, <1>4 DEF RunOrder

(* What is archived when a transfer ends, and what of it is a full.        *)
LEMMA FinishAdds ==
  ASSUME TypeInv, ChainInv, OrderInv, NEW r \in Runs, FinishSend(r) \/ FinishFailedSend(r)
  PROVE  /\ pc[r] = "send" /\ cur[r] \in Sending /\ pc'[r] = "commit"
         /\ snaps' = snaps /\ src_state' = src_state /\ todo' = todo
         /\ steps' = steps /\ last_full' = last_full
         /\ Archived(dest_meta'[r]) = Archived(dest_meta[r]) \cup {cur[r].snap}
         /\ dest_meta'[r][cur[r].snap].parent = cur[r].parent
         /\ \A t \in Timestamps \ {cur[r].snap} : dest_meta'[r][t] = dest_meta[r][t]
<1>1. PICK st \in {"closed", "cut"} : Finish(r, st)
  BY DEF FinishSend, FinishFailedSend
<1>2. pc[r] = "send" /\ cur[r] \in Sending /\ cur[r].part # 0
  BY DEF FinishSend, FinishFailedSend, TypeInv, TypeOK, Sending, Parts
<1> DEFINE m == dest_meta[r]
           n == AddArchive(m, cur[r], st)
<1>3. dest_meta'[r] = n /\ m \in Metas
  BY <1>1 DEF Finish, TypeInv, TypeOK
<1>4. /\ n[cur[r].snap].parent = cur[r].parent
      /\ \A t \in Timestamps \ {cur[r].snap} : n[t] = m[t]
  BY <1>2, <1>3, AddArchiveType
<1>5. Archived(n) = Archived(m) \cup {cur[r].snap}
  BY <1>2, <1>3, AddClosed DEF ChainInv, RunChain
<1> HIDE DEF n
<1> QED BY <1>1, <1>2, <1>3, <1>4, <1>5 DEF Finish, plan, TypeInv, TypeOK

(* The oldest of what is planned closes the gap below it.                  *)
LEMMA OrderFinish ==
  ASSUME TypeInv, ChainInv, OrderInv, NEW r \in Runs, FinishSend(r) \/ FinishFailedSend(r)
  PROVE  RunOrder(r)'
<1> DEFINE c == cur[r].snap
           n == dest_meta'[r]
<1>1. /\ pc[r] = "send" /\ cur[r] \in Sending /\ pc'[r] = "commit"
      /\ snaps' = snaps /\ src_state' = src_state /\ todo' = todo /\ steps' = steps
      /\ Archived(n) = Archived(dest_meta[r]) \cup {c}
  BY FinishAdds
<1> HIDE DEF n
<1>2. /\ RunOrder(r) /\ c \in Timestamps /\ c \in Nat
      /\ steps[r] \subseteq Step /\ Timestamps \subseteq Nat
  BY <1>1, TimestampsAssumption DEF OrderInv, Sending, TypeInv, TypeOK
<1>3. /\ c \in src_state[r] /\ c \notin Archived(dest_meta[r])
      /\ todo[r] = {}
      /\ \A s \in steps[r] : c < s.snap /\ s.snap # c /\ ~(s.snap < c)
  <2>1. /\ c \in src_state[r] /\ c \notin Archived(dest_meta[r]) /\ todo[r] = {}
        /\ \A s \in steps[r] : c < s.snap
    BY <1>1, <1>2 DEF RunOrder
  <2>2. \A s \in steps[r] : s.snap \in Nat
    BY <1>2 DEF Step
  <2>3. \A i, j \in Nat : i < j => j # i /\ ~(j < i)
    OBVIOUS
  <2> QED BY <1>2, <2>1, <2>2, <2>3
<1>4. \A t \in src_state[r] : t \in Archived(n) \/ t \in Planned(r)
  BY <1>1, <1>2, <1>3 DEF RunOrder, DestSet, Pending
<1>5. Kept(n, snaps)
  <2>1. ASSUME NEW t \in Timestamps, snaps[t] = "present", t < c
        PROVE  t \in Archived(n)
    <3>1. t \in src_state[r]
      BY <1>2, <1>3, <2>1 DEF RunOrder
    <3>2. t \notin Planned(r)
      BY <1>3, <2>1 DEF Planned
    <3> QED BY <1>4, <3>1, <3>2
  <2>2. snaps[c] # "future"
    BY <1>2, <1>3 DEF RunOrder
  <2>3. Kept(dest_meta[r], snaps)
    BY <1>2 DEF RunOrder
  <2> QED BY <1>1, <2>1, <2>2, <2>3 DEF Kept
<1>6. \A s \in steps[r] : s.snap \notin Archived(n)
  BY <1>1, <1>2, <1>3 DEF RunOrder
<1> QED BY <1>1, <1>2, <1>3, <1>4, <1>5, <1>6 DEF RunOrder, DestSet, Planned, Pending, n

(* Steps that neither plan, nor start or end a transfer.                   *)
LEMMA OrderOther ==
  ASSUME TypeInv, OrderInv, NEW r \in Runs,
         \/ SkipVolume(r) \/ ExecutePlan(r) \/ RollNext(r)
         \/ CreateTmp(r) \/ WriteTmp(r) \/ RenameTmp(r) \/ PutMeta(r)
  PROVE  RunOrder(r)'
<1>1. /\ RunOrder(r) /\ snaps' = snaps /\ dest_meta' = dest_meta
      /\ src_state' = src_state /\ todo' = todo /\ steps' = steps
  BY DEF OrderInv, SkipVolume, ExecutePlan, RollNext, Roll, CreateTmp, WriteTmp, RenameTmp,
         PutMeta, plan, vars
<1>2. CASE SkipVolume(r) \/ RollNext(r)
  <2>1. pc' = pc /\ (pc[r] = "send" => cur'[r].snap = cur[r].snap)
    BY <1>2 DEF SkipVolume, RollNext, Roll, vars, TypeInv, TypeOK, Sending
  <2> QED BY <1>1, <2>1, RunOrderFrame
<1>3. CASE ExecutePlan(r)
  <2>1. pc[r] = "plan" /\ todo[r] = {} /\ pc'[r] = "run"
    BY <1>3 DEF ExecutePlan, TypeInv, TypeOK
  <2> QED BY <1>1, <2>1 DEF RunOrder, DestSet, Planned, Pending
<1>4. CASE CreateTmp(r) \/ WriteTmp(r) \/ RenameTmp(r) \/ PutMeta(r)
  <2>1. pc[r] \in {"commit", "tmp", "rename"} /\ pc'[r] \in {"tmp", "rename", "run"}
    BY <1>4 DEF CreateTmp, WriteTmp, RenameTmp, PutMeta, TypeInv, TypeOK
  <2> QED BY <1>1, <2>1 DEF RunOrder, DestSet, Planned, Pending
<1> QED BY <1>2, <1>3, <1>4

(* A run writes to the destination only metadata it has in its hands, and  *)
(* changes the variables of no other run.                                  *)
LEMMA RunStep ==
  ASSUME TypeInv, NEW r \in Runs, Advance(r) \/ Fail(r)
  PROVE  /\ snaps' = snaps
         /\ meta' \in {meta, dest_meta[r]} \/ (meta' = tmp /\ tmp \in Metas)
         /\ tmp' \in {tmp, dest_meta[r], None, Torn}
         /\ \A q \in Runs \ {r} :
              /\ pc'[q] = pc[q] /\ src_state'[q] = src_state[q] /\ cur'[q] = cur[q]
              /\ dest_meta'[q] = dest_meta[q] /\ todo'[q] = todo[q]
              /\ steps'[q] = steps[q] /\ last_full'[q] = last_full[q]
<1> USE DEF dest, plan, vars, TypeInv, TypeOK, TmpWritten
<1>1. CASE InspectSource(r) \/ SkipVolume(r) \/ InspectDest(r)
  BY <1>1 DEF InspectSource, SkipVolume, InspectDest
<1>2. CASE Plan(r)
  BY <1>2 DEF Plan, PlanSkip, PlanFull, PlanIncremental, AddStep
<1>3. CASE UpToDate(r) \/ FinishRun(r) \/ Fail(r)
  BY <1>3 DEF UpToDate, FinishRun, Fail, Exit
<1>4. CASE ExecutePlan(r) \/ StartSend(r) \/ RollNext(r)
  BY <1>4 DEF ExecutePlan, StartSend, RollNext, Roll
<1>5. CASE FinishSend(r) \/ FinishFailedSend(r)
  BY <1>5 DEF FinishSend, FinishFailedSend, Finish
<1>6. CASE CreateTmp(r) \/ WriteTmp(r) \/ RenameTmp(r) \/ PutMeta(r)
  BY <1>6 DEF CreateTmp, WriteTmp, RenameTmp, PutMeta
<1> QED BY <1>1, <1>2, <1>3, <1>4, <1>5, <1>6 DEF Advance

LEMMA OrderRun ==
  ASSUME TypeInv, ChainInv, OrderInv, NEW r \in Runs, Advance(r) \/ Fail(r)
  PROVE  RunOrder(r)'
BY OrderInspect, OrderPlan, OrderExit, OrderStartSend, OrderFinish, OrderOther
DEF Advance, Plan, UpToDate, FinishRun, Fail

LEMMA OrderStep ==
  ASSUME ~PurgeInRun, TypeInv, TypeInv', ChainInv, OrderInv, [Next /\ InOrder']_vars
  PROVE  OrderInv'
<1>1. ASSUME NEW t \in Timestamps, SnapCreate(t) \/ SnapDelete(t), InOrder'
      PROVE  OrderInv'
  BY <1>1, OrderSource
<1>2. ASSUME NEW r \in Runs, Advance(r) \/ Fail(r), InOrder'
      PROVE  OrderInv'
  <2>1. RunOrder(r)'
    BY <1>2, OrderRun
  <2>2. \A q \in Runs \ {r} : RunOrder(q)'
    BY <1>2, RunStep, RunOrderFrame DEF OrderInv
  <2>3. Kept(dest_meta[r], snaps) /\ snaps' = snaps
    BY <1>2, RunStep DEF OrderInv, RunOrder
  <2>4. Kept(meta, snaps)'
    BY <1>2, <2>3, RunStep DEF OrderInv
  <2>5. (tmp \in Metas => Kept(tmp, snaps))'
    <3>1. tmp' \in {tmp, dest_meta[r], None, Torn}
      BY <1>2, RunStep
    <3>2. None \notin Metas /\ Torn \notin Metas
      BY SentinelAssumption
    <3> QED BY <2>3, <3>1, <3>2 DEF OrderInv
  <2> QED BY <1>2, <2>1, <2>2, <2>4, <2>5 DEF OrderInv
<1>3. ASSUME UNCHANGED vars PROVE OrderInv'
  BY <1>3, RunOrderFrame DEF vars, OrderInv, InOrder
<1> QED BY <1>1, <1>2, <1>3 DEF Next

-----------------------------------------------------------------------------
(* Recency.                                                                *)

(* What WithinInterval says of a full that is older than t.                *)
Near(f, t) == f < t /\ {Day[f], Day[t]} \subseteq Int /\ Day[t] - Day[f] < Interval

Recent(m) == \A t \in Archived(m) : IsIncremental(m, t) => \E f \in Fulls(m) : Near(f, t)

(* The fulls there will be when a run has done what it has planned.        *)
FullsOf(r) ==
  Fulls(dest_meta[r]) \cup {s.snap : s \in {z \in steps[r] : z.parent = None}}
    \cup {t \in Pending(r) : cur[r].parent = None}

RunRecent(r) ==
  /\ Recent(dest_meta[r])
  /\ \A s \in steps[r] : s.parent # None => \E f \in FullsOf(r) : Near(f, s.snap)
  /\ pc[r] = "send" /\ cur[r].parent # None =>
       \E f \in Fulls(dest_meta[r]) : Near(f, cur[r].snap)
  /\ pc[r] = "plan" /\ last_full[r] # None => last_full[r] \in FullsOf(r)

RecencyInv ==
  /\ Recent(meta)
  /\ tmp \in Metas => Recent(tmp)
  /\ \A r \in Runs : RunRecent(r)

LEMMA RunRecentFrame ==
  ASSUME NEW q \in Runs, RunRecent(q), dest_meta'[q] = dest_meta[q],
         steps'[q] = steps[q], pc'[q] = pc[q], last_full'[q] = last_full[q],
         pc[q] = "send" => cur'[q].snap = cur[q].snap /\ cur'[q].parent = cur[q].parent
  PROVE  RunRecent(q)'
BY DEF RunRecent, FullsOf, Pending

LEMMA EmptyRecent == Recent(EmptyMeta)
BY DEF Recent, Archived, EmptyMeta

LEMMA RecencyInit == Init => RecencyInv
BY EmptyRecent, SentinelAssumption DEF Init, RecencyInv, RunRecent

LEMMA RecencyInspect ==
  ASSUME TypeInv, ChainInv, RecencyInv, NEW r \in Runs, InspectSource(r) \/ InspectDest(r)
  PROVE  RunRecent(r)'
<1>1. RunRecent(r)
  BY DEF RecencyInv
<1>2. CASE InspectSource(r)
  <2>1. /\ pc[r] = "idle" /\ pc'[r] = "inspect" /\ dest_meta' = dest_meta /\ steps' = steps
    BY <1>2 DEF InspectSource, plan, TypeInv, TypeOK
  <2>2. steps[r] = {}
    BY <2>1 DEF ChainInv, RunChain
  <2> QED BY <1>1, <2>1, <2>2 DEF RunRecent
<1>3. CASE InspectDest(r)
  <2>1. /\ pc[r] = "inspect" /\ pc'[r] = "plan" /\ dest_meta'[r] = meta /\ steps' = steps
    BY <1>3 DEF InspectDest, TypeInv, TypeOK
  <2>2. steps[r] = {}
    BY <2>1 DEF ChainInv, RunChain
  <2>3. last_full'[r] # None => last_full'[r] \in Fulls(meta)
    BY <1>3 DEF InspectDest, IsLastFull, IsNewest, TypeInv, TypeOK
  <2>4. Recent(meta)
    BY DEF RecencyInv
  <2> QED BY <2>1, <2>2, <2>3, <2>4 DEF RunRecent, FullsOf
<1> QED BY <1>2, <1>3

(* Whatever will be a full is older than a snapshot that is planned now.   *)
LEMMA FullsAreOlder ==
  ASSUME TypeInv, OrderInv, NEW r \in Runs, pc[r] = "plan",
         NEW t \in todo[r], t \notin DestSet(r)
  PROVE  \A f \in FullsOf(r) : f \in Timestamps /\ f < t
<1>1. /\ RunOrder(r) /\ t \in src_state[r] /\ t \in Timestamps /\ snaps[t] = "present"
      /\ t \notin Archived(dest_meta[r]) /\ Timestamps \subseteq Nat
  BY TimestampsAssumption DEF OrderInv, RunOrder, DestSet, TypeInv, TypeOK
<1>2. \A s \in steps[r] : s.snap \in Timestamps /\ s.snap < t
  BY <1>1 DEF RunOrder, TypeInv, TypeOK, Step
<1>3. ASSUME NEW f \in Archived(dest_meta[r]) PROVE f \in Timestamps /\ f < t
  <2>1. f \in Nat /\ t \in Nat /\ f # t
    BY <1>1 DEF Archived
  <2>2. ~(t < f)
    BY <1>1 DEF RunOrder, Kept
  <2> QED BY <2>1, <2>2 DEF Archived
<1> QED BY <1>2, <1>3 DEF FullsOf, Fulls, Pending

LEMMA RecencyPlan ==
  ASSUME TypeInv, ChainInv, OrderInv, RecencyInv, NEW r \in Runs, NEW t \in Timestamps,
         PlanSkip(r, t) \/ PlanFull(r, t) \/ PlanIncremental(r, t)
  PROVE  RunRecent(r)'
<1>1. /\ RunRecent(r) /\ dest_meta' = dest_meta /\ pc' = pc /\ pc[r] = "plan" /\ cur' = cur
      /\ t \in todo[r]
  BY DEF RecencyInv, PlanSkip, PlanFull, PlanIncremental, IsOldest
<1>2. CASE PlanSkip(r, t)
  BY <1>1, <1>2, RunRecentFrame DEF PlanSkip
<1>3. CASE PlanFull(r, t)
  <2>1. /\ steps'[r] = steps[r] \cup {[snap |-> t, parent |-> None]} /\ last_full'[r] = t
    BY <1>3 DEF PlanFull, AddStep, TypeInv, TypeOK
  <2>2. FullsOf(r) \cup {t} \subseteq FullsOf(r)'
    <3>1. FullsOf(r) \subseteq FullsOf(r)'
      BY <1>1, <2>1 DEF FullsOf, Pending
    <3>2. t \in {s.snap : s \in {z \in steps'[r] : z.parent = None}}
      BY <2>1
    <3> QED BY <3>1, <3>2 DEF FullsOf
  <2> QED BY <1>1, <2>1, <2>2 DEF RunRecent
<1>4. CASE PlanIncremental(r, t)
  <2>1. PICK p \in ParentCandidates(r, t) :
          /\ ~ForceFull(r, p, t)
          /\ steps'[r] = steps[r] \cup {[snap |-> t, parent |-> p]}
    BY <1>4 DEF PlanIncremental, AddStep, TypeInv, TypeOK
  <2>2. last_full' = last_full /\ t \notin DestSet(r)
    BY <1>4 DEF PlanIncremental
  <2>3. p # None
    <3>1. p \in Timestamps
      BY DEF ParentCandidates, TypeInv, TypeOK
    <3> QED BY <3>1, SentinelAssumption, TimestampsAssumption
  <2>4. FullsOf(r) \subseteq FullsOf(r)'
    BY <1>1, <2>1, <2>3 DEF FullsOf, Pending
  <2>5. WithinInterval(last_full[r], t)
    BY <2>1 DEF ForceFull
  <2>6. last_full[r] \in FullsOf(r) /\ last_full[r] \in Timestamps /\ last_full[r] < t
    BY <1>1, <2>2, <2>5, FullsAreOlder DEF RunRecent, WithinInterval
  <2>7. Near(last_full[r], t)
    BY <2>5, <2>6, DayAssumption DEF WithinInterval, Near
  <2> QED BY <1>1, <2>1, <2>2, <2>4, <2>6, <2>7 DEF RunRecent
<1> QED BY <1>2, <1>3, <1>4

LEMMA RecencyExit ==
  ASSUME TypeInv, NEW r \in Runs, Exit(r)
  PROVE  RunRecent(r)'
BY EmptyRecent DEF Exit, RunRecent, TypeInv, TypeOK

(* The oldest step goes first, so that what it is near to is archived.     *)
LEMMA RecencyStartSend ==
  ASSUME TypeInv, RecencyInv, NEW r \in Runs, StartSend(r)
  PROVE  RunRecent(r)'
<1>1. PICK s \in steps[r] :
        /\ IsOldest(s.snap, Planned(r))
        /\ cur'[r].snap = s.snap /\ cur'[r].parent = s.parent
        /\ steps'[r] = steps[r] \ {s}
  BY DEF StartSend, TypeInv, TypeOK
<1>2. RunRecent(r) /\ dest_meta' = dest_meta /\ pc[r] = "run" /\ pc'[r] = "send"
  BY DEF RecencyInv, StartSend, TypeInv, TypeOK
<1>3. FullsOf(r) \subseteq FullsOf(r)'
  <2>1. Pending(r) = {} /\ Pending(r)' = {s.snap}
    BY <1>1, <1>2 DEF Pending
  <2> QED BY <1>1, <1>2, <2>1 DEF FullsOf
<1>4. s.parent # None => \E f \in Fulls(dest_meta[r]) : Near(f, s.snap)
  <2>1. SUFFICES ASSUME s.parent # None PROVE \E f \in Fulls(dest_meta[r]) : Near(f, s.snap)
    OBVIOUS
  <2>2. PICK f \in FullsOf(r) : Near(f, s.snap)
    BY <1>2, <2>1 DEF RunRecent
  <2>3. ASSUME f \in Planned(r) PROVE FALSE
    <3>1. s.snap <= f /\ f < s.snap
      BY <1>1, <2>2, <2>3 DEF IsOldest, Near
    <3>2. s.snap \in Nat /\ f \in Nat
      <4>1. PICK z \in steps[r] : f = z.snap
        BY <2>3 DEF Planned
      <4>2. s \in Step /\ z \in Step
        BY DEF TypeInv, TypeOK
      <4> QED BY <4>1, <4>2, TimestampsAssumption DEF Step
    <3> QED BY <3>1, <3>2
  <2>4. f \in Fulls(dest_meta[r])
    BY <1>2, <2>3 DEF FullsOf, Planned, Pending
  <2> QED BY <2>2, <2>4
<1> QED BY <1>1, <1>2, <1>3, <1>4 DEF RunRecent

LEMMA RecencyFinish ==
  ASSUME TypeInv, ChainInv, OrderInv, RecencyInv, NEW r \in Runs,
         FinishSend(r) \/ FinishFailedSend(r)
  PROVE  RunRecent(r)'
<1> DEFINE c == cur[r].snap
           m == dest_meta[r]
           n == dest_meta'[r]
<1>1. /\ pc[r] = "send" /\ cur[r] \in Sending /\ pc'[r] = "commit" /\ steps' = steps
      /\ Archived(n) = Archived(m) \cup {c}
      /\ n[c].parent = cur[r].parent
      /\ \A t \in Timestamps \ {c} : n[t] = m[t]
  BY FinishAdds
<1>2. RunRecent(r) /\ c \notin Archived(m) /\ c \in Timestamps
  BY <1>1 DEF RecencyInv, OrderInv, RunOrder, Sending
<1> HIDE DEF n
<1>3. /\ \A t \in Archived(m) : t # c /\ n[t] = m[t] /\ m[t] # None
      /\ c \in Archived(n) /\ n[c] # None
  BY <1>1, <1>2 DEF Archived
<1>4. Fulls(n) = Fulls(m) \cup {t \in {c} : cur[r].parent = None}
  BY <1>1, <1>3 DEF Fulls, IsIncremental
<1>5. Recent(n)
  <2>1. ASSUME NEW t \in Archived(n), IsIncremental(n, t)
        PROVE  \E f \in Fulls(n) : Near(f, t)
    <3>1. CASE t = c
      BY <1>1, <1>2, <1>4, <2>1, <3>1 DEF RunRecent, IsIncremental
    <3>2. CASE t # c
      BY <1>1, <1>2, <1>3, <1>4, <2>1, <3>2 DEF RunRecent, Recent, IsIncremental
    <3> QED BY <3>1, <3>2
  <2> QED BY <2>1 DEF Recent
<1>6. FullsOf(r) \subseteq FullsOf(r)'
  BY <1>1, <1>4 DEF FullsOf, Pending, n
<1> QED BY <1>1, <1>2, <1>5, <1>6 DEF RunRecent, n

LEMMA RecencyOther ==
  ASSUME TypeInv, RecencyInv, NEW r \in Runs,
         \/ SkipVolume(r) \/ ExecutePlan(r) \/ RollNext(r)
         \/ CreateTmp(r) \/ WriteTmp(r) \/ RenameTmp(r) \/ PutMeta(r)
  PROVE  RunRecent(r)'
<1>1. /\ RunRecent(r) /\ dest_meta' = dest_meta /\ steps' = steps /\ last_full' = last_full
  BY DEF RecencyInv, SkipVolume, ExecutePlan, RollNext, Roll, CreateTmp, WriteTmp, RenameTmp,
         PutMeta, plan, vars
<1>2. CASE SkipVolume(r) \/ RollNext(r)
  <2>1. pc' = pc /\ (pc[r] = "send" => cur'[r].snap = cur[r].snap /\ cur'[r].parent = cur[r].parent)
    BY <1>2 DEF SkipVolume, RollNext, Roll, vars, TypeInv, TypeOK, Sending
  <2> QED BY <1>1, <2>1, RunRecentFrame
<1>3. CASE ExecutePlan(r) \/ CreateTmp(r) \/ WriteTmp(r) \/ RenameTmp(r) \/ PutMeta(r)
  <2>1. pc[r] \in {"plan", "commit", "tmp", "rename"} /\ pc'[r] \in {"tmp", "rename", "run"}
    BY <1>3 DEF ExecutePlan, CreateTmp, WriteTmp, RenameTmp, PutMeta, TypeInv, TypeOK
  <2> QED BY <1>1, <2>1 DEF RunRecent, FullsOf, Pending
<1> QED BY <1>2, <1>3

LEMMA RecencyRun ==
  ASSUME TypeInv, ChainInv, OrderInv, RecencyInv, NEW r \in Runs, Advance(r) \/ Fail(r)
  PROVE  RunRecent(r)'
BY RecencyInspect, RecencyPlan, RecencyExit, RecencyStartSend, RecencyFinish, RecencyOther
DEF Advance, Plan, UpToDate, FinishRun, Fail

LEMMA RecencyStep ==
  ASSUME TypeInv, ChainInv, OrderInv, RecencyInv, [Next]_vars
  PROVE  RecencyInv'
<1>1. ASSUME NEW t \in Timestamps, SnapCreate(t) \/ SnapDelete(t)
      PROVE  RecencyInv'
  BY <1>1, RunRecentFrame DEF SnapCreate, SnapDelete, RecencyInv, dest, plan
<1>2. ASSUME NEW r \in Runs, Advance(r) \/ Fail(r)
      PROVE  RecencyInv'
  <2>1. RunRecent(r)'
    BY <1>2, RecencyRun
  <2>2. \A q \in Runs \ {r} : RunRecent(q)'
    BY <1>2, RunStep, RunRecentFrame DEF RecencyInv
  <2>3. Recent(dest_meta[r])
    BY DEF RecencyInv, RunRecent
  <2>4. Recent(meta)'
    BY <1>2, <2>3, RunStep DEF RecencyInv
  <2>5. (tmp \in Metas => Recent(tmp))'
    <3>1. tmp' \in {tmp, dest_meta[r], None, Torn}
      BY <1>2, RunStep
    <3>2. None \notin Metas /\ Torn \notin Metas
      BY SentinelAssumption
    <3> QED BY <2>3, <3>1, <3>2 DEF RecencyInv
  <2> QED BY <2>1, <2>2, <2>4, <2>5 DEF RecencyInv
<1>3. ASSUME UNCHANGED vars PROVE RecencyInv'
  BY <1>3, RunRecentFrame DEF vars, RecencyInv
<1> QED BY <1>1, <1>2, <1>3 DEF Next

-----------------------------------------------------------------------------
(* Snapshots that appear in order and stay during a run.                   *)
THEOREM OrderInvariant ==
  ASSUME ~PurgeInRun
  PROVE  OrderedSpec => [](TypeInv /\ ChainInv /\ OrderInv /\ RecencyInv)
<1> DEFINE Inv == TypeInv /\ ChainInv /\ OrderInv /\ RecencyInv
<1>1. Init => Inv
  BY TypeInvInit, ChainInit, OrderInit, RecencyInit
<1>2. Inv /\ [Next /\ InOrder']_vars => Inv'
  <2>1. SUFFICES ASSUME Inv, [Next /\ InOrder']_vars PROVE Inv'
    OBVIOUS
  <2>2. [Next]_vars
    BY <2>1
  <2>3. TypeInv' /\ ChainInv'
    BY <2>1, <2>2, TypeInvStep, ChainStep
  <2>4. OrderInv'
    BY <2>1, <2>3, OrderStep
  <2>5. RecencyInv'
    BY <2>1, <2>2, RecencyStep
  <2> QED BY <2>3, <2>4, <2>5
<1> QED BY <1>1, <1>2, PTL DEF OrderedSpec

(* No incremental archive is min_full_send_interval or more, in days as    *)
(* planner/mod.rs counts them, after the full archive its run found or     *)
(* planned: for any number of runs, snapshots, crashes and failed sends,   *)
(* and any dates (planner/mod.rs:227-246).                                 *)
THEOREM FullAlwaysRecent ==
  ASSUME ~PurgeInRun
  PROVE  OrderedSpec => []FullRecency
<1>1. RecencyInv => FullRecency
  BY DEF RecencyInv, Recent, Near, FullRecency, RecentFull
<1> QED BY <1>1, OrderInvariant, PTL

(* What the count of 30-day months costs: a chain spans, in days of the    *)
(* calendar, less than the interval and the count's error, five days and   *)
(* the leap days (planner/mod.rs:257).                                     *)
THEOREM RealAlwaysRecent ==
  ASSUME ~PurgeInRun
  PROVE  OrderedSpec => []RealRecency
<1>1. ASSUME FullRecency, MetaReadable, NEW t \in Archived(meta), IsIncremental(meta, t)
      PROVE  t \in Dated /\ ReallyRecent(meta, t)
  <2>1. PICK f \in Fulls(meta) :
           f < t /\ {Day[f], Day[t]} \subseteq Int /\ Day[t] - Day[f] < Interval
    BY <1>1 DEF FullRecency, RecentFull
  <2>2. f \in Timestamps /\ t \in Timestamps
    BY DEF Fulls, Archived
  <2>3. f \in Dated /\ t \in Dated
    BY <2>1, <2>2, DayOfAssumption, SentinelAssumption DEF DayOf
  <2> DEFINE a == DateOf[f]
             b == DateOf[t]
  <2>4. a \in Date /\ b \in Date /\ NotAfter(a, b)
    BY <2>1, <2>3, DatesAssumption DEF ValidDate
  <2>5. DayCount(b) - DayCount(a) < Interval
    BY <2>1, <2>2, <2>3, DayOfAssumption DEF DayOf
  <2>6. DayCount(a) \in Int /\ DayCount(b) \in Int
    BY <2>1, <2>2, <2>3, DayOfAssumption DEF DayOf
  <2>7. Serial(b) - Serial(a) <= DayCount(b) - DayCount(a) + Slack(a, b)
    <3> HIDE DEF a, b
    <3> QED BY <2>4, DayCountError
  <2>8. Serial(a) \in Int /\ Serial(b) \in Int /\ Slack(a, b) \in Int
    <3> HIDE DEF a, b
    <3>1. a.y \in Nat \ {0} /\ b.y + 1 \in Nat \ {0}
      BY <2>4 DEF Date
    <3> QED BY <2>4, <3>1, SerialSplit, LeapDaysNat DEF Slack
  <2>9. Serial(b) - Serial(a) < Interval + Slack(a, b)
    <3> HIDE DEF a, b
    <3> QED BY <2>5, <2>6, <2>7, <2>8, PolicyAssumption
  <2> QED BY <2>1, <2>3, <2>9 DEF ReallyRecent
<1>2. FullRecency => RealRecency
  BY <1>1 DEF RealRecency
<1> QED BY <1>2, FullAlwaysRecent, PTL

=============================================================================
