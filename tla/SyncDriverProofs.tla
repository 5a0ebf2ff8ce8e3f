-------------------------- MODULE SyncDriverProofs ---------------------------
(***************************************************************************)
(* Proofs about SyncDriver: for every set of settings, that is for every   *)
(* configuration file, command line, user and directory; and about its     *)
(* parts, the filters (Wildcard) and the sudo session (SudoSession).       *)
(***************************************************************************)
EXTENDS SyncDriver, Recursion, SequenceTheorems, TLAPS

-----------------------------------------------------------------------------
(* The wildcard matcher, row by row.  A row says of each length of a       *)
(* prefix of the text whether the pattern so far denotes that prefix.      *)

Row(txt) == [0 .. Len(txt) -> BOOLEAN]

(* StarRow: once a prefix of the text has matched, every longer one does.  *)
LEMMA StarRowIs ==
  ASSUME NEW C, NEW txt \in Seq(C), NEW dp \in Row(txt)
  PROVE  /\ StarRow(dp, txt) \in Row(txt)
         /\ \A j \in 0 .. Len(txt) : StarRow(dp, txt)[j] <=> \E k \in 0 .. j : dp[k]
<1> DEFINE n == Len(txt)
           new[j \in 0 .. n] == IF j = 0 THEN dp[0] ELSE dp[j] \/ new[j - 1]
           Reached == [j \in 0 .. n |-> \E k \in 0 .. j : dp[k]]
<1>1. n \in Nat
  BY LenProperties
<1>2. Reached = [j \in 0 .. n |-> IF j = 0 THEN dp[0] ELSE dp[j] \/ Reached[j - 1]]
  <2>1. ASSUME NEW j \in 0 .. n, j = 0
        PROVE  (\E k \in 0 .. j : dp[k]) = dp[0]
    <3>1. 0 \in 0 .. n /\ \A k \in 0 .. j : k = 0
      BY <1>1, <2>1
    <3> QED
      BY <2>1, <3>1 DEF Row
  <2>2. ASSUME NEW j \in 0 .. n, j # 0
        PROVE  (\E k \in 0 .. j : dp[k]) = (dp[j] \/ Reached[j - 1])
    <3>1. j - 1 \in 0 .. n /\ 0 .. j = (0 .. j - 1) \cup {j}
      BY <1>1, <2>2
    <3>2. Reached[j - 1] = \E k \in 0 .. j - 1 : dp[k]
      BY <3>1
    <3> HIDE DEF Reached
    <3> QED
      BY <3>1, <3>2, Zenon
  <2>3. \A j \in 0 .. n : Reached[j] = (\E k \in 0 .. j : dp[k])
    OBVIOUS
  <2> QED
    BY <2>1, <2>2
<1>3. new = [j \in 0 .. n |-> IF j = 0 THEN dp[0] ELSE dp[j] \/ new[j - 1]]
  <2> HIDE DEF Reached
  <2> QED
    BY <1>2, Zenon
<1>4. \A j \in 0 .. n : new[j] = IF j = 0 THEN dp[0] ELSE dp[j] \/ new[j - 1]
  <2> HIDE DEF new
  <2> QED
    BY <1>3, Zenon
<1>5. \A j \in 0 .. n : Reached[j] = IF j = 0 THEN dp[0] ELSE dp[j] \/ Reached[j - 1]
  <2> HIDE DEF Reached
  <2> QED
    BY <1>2, Zenon
<1> DEFINE T == {j \in 0 .. n : new[j] = Reached[j]}
<1>6. 0 .. n \subseteq T
  <2> HIDE DEF new, Reached
  <2>1. 0 \in 0 .. n /\ \A j \in 1 .. n : j \in 0 .. n /\ j # 0
    BY <1>1
  <2>2. 0 \in T
    BY <1>4, <1>5, <2>1, Zenon
  <2>3. ASSUME NEW j \in 1 .. n, j - 1 \in T
        PROVE  j \in T
    <3>1. new[j - 1] = Reached[j - 1]
      BY <2>3, Zenon
    <3>2. new[j] = Reached[j]
      BY <1>4, <1>5, <2>1, <3>1, Zenon
    <3> QED
      BY <2>1, <3>2, Zenon
  <2> HIDE DEF T, n
  <2> QED
    BY <1>1, <2>2, <2>3, IntervalInduction
<1>7. \A j \in 0 .. n : new[j] = \E k \in 0 .. j : dp[k]
  <2>1. \A j \in 0 .. n : Reached[j] = \E k \in 0 .. j : dp[k]
    OBVIOUS
  <2> HIDE DEF new, Reached
  <2> QED
    BY <1>6, <2>1, Zenon
<1>8. StarRow(dp, txt) = new
  BY Zenon DEF StarRow
<1>9. new \in Row(txt)
  <2> DEFINE e(j) == IF j = 0 THEN dp[0] ELSE dp[j] \/ new[j - 1]
  <2>1. new = [j \in 0 .. n |-> e(j)]
    <3> HIDE DEF new
    <3> QED
      BY <1>3, Zenon
  <2>2. \A j \in 0 .. n : e(j) \in BOOLEAN
    <3>1. 0 \in 0 .. n
      BY <1>1
    <3> QED
      BY <3>1 DEF Row
  <2> HIDE DEF new, e
  <2> QED
    BY <2>1, <2>2 DEF Row
<1> HIDE DEF new
<1> QED
  BY <1>7, <1>8, <1>9

LEMMA CharRowIs ==
  ASSUME NEW C, NEW txt \in Seq(C), NEW dp \in Row(txt), NEW c
  PROVE  /\ CharRow(dp, c, txt) \in Row(txt)
         /\ \A j \in 0 .. Len(txt) :
              CharRow(dp, c, txt)[j] <=> j > 0 /\ dp[j - 1] /\ c \in {"?", txt[j]}
<1>1. \A j \in 0 .. Len(txt) : (j > 0 /\ dp[j - 1] /\ c \in {"?", txt[j]}) \in BOOLEAN
  OBVIOUS
<1> QED
  BY <1>1 DEF CharRow, Row

-----------------------------------------------------------------------------
(* Cuts.                                                                   *)

(* What the i-th character of the pattern may stand for: the text between  *)
(* two places.                                                             *)
Piece(pattern, txt, i, from, to) ==
  IF pattern[i] = "*" THEN from <= to
  ELSE to = from + 1 /\ pattern[i] \in {"?", txt[to]}

Cuts(pattern, txt, i, j) ==
  {cut \in [0 .. i -> 0 .. Len(txt)] :
     /\ cut[0] = 0
     /\ cut[i] = j
     /\ \A k \in 1 .. i : Piece(pattern, txt, k, cut[k - 1], cut[k])}

LEMMA DenotesIsCut ==
  ASSUME NEW pattern, NEW txt
  PROVE  Denotes(pattern, txt) <=> Cuts(pattern, txt, Len(pattern), Len(txt)) # {}
BY DEF Denotes, Cuts, Piece

(* A cut of a prefix is extended by one piece, ...                         *)
LEMMA CutExtends ==
  ASSUME NEW C, NEW pattern, NEW txt \in Seq(C), NEW i \in Nat \ {0},
         NEW k \in 0 .. Len(txt), NEW j \in 0 .. Len(txt),
         Cuts(pattern, txt, i - 1, k) # {}, Piece(pattern, txt, i, k, j)
  PROVE  Cuts(pattern, txt, i, j) # {}
<1>1. PICK cut \in Cuts(pattern, txt, i - 1, k) : TRUE
  OBVIOUS
<1> DEFINE new == [l \in 0 .. i |-> IF l = i THEN j ELSE cut[l]]
<1>2. /\ cut \in [0 .. i - 1 -> 0 .. Len(txt)] /\ cut[0] = 0 /\ cut[i - 1] = k
      /\ \A l \in 1 .. i - 1 : Piece(pattern, txt, l, cut[l - 1], cut[l])
  BY <1>1 DEF Cuts
<1>3. \A l \in 0 .. i : l # i => l \in 0 .. i - 1
  OBVIOUS
<1>4. new \in [0 .. i -> 0 .. Len(txt)]
  BY <1>2, <1>3
<1>5. new[0] = 0 /\ new[i] = j /\ new[i - 1] = k
  BY <1>2
<1>6. ASSUME NEW l \in 1 .. i
      PROVE  Piece(pattern, txt, l, new[l - 1], new[l])
  <2>1. CASE l = i
    <3> HIDE DEF new
    <3> QED
      BY <1>5, <2>1
  <2>2. CASE l # i
    <3>1. l \in 1 .. i - 1 /\ new[l] = cut[l] /\ new[l - 1] = cut[l - 1]
      BY <2>2
    <3> HIDE DEF new
    <3> QED
      BY <1>2, <3>1
  <2> QED
    BY <2>1, <2>2
<1> HIDE DEF new
<1>7. new \in Cuts(pattern, txt, i, j)
  BY <1>4, <1>5, <1>6 DEF Cuts
<1> QED
  BY <1>7

(* ... and every cut of a longer prefix is made so.                        *)
LEMMA CutShortens ==
  ASSUME NEW C, NEW pattern, NEW txt \in Seq(C), NEW i \in Nat \ {0},
         NEW j \in 0 .. Len(txt), Cuts(pattern, txt, i, j) # {}
  PROVE  \E k \in 0 .. Len(txt) :
           Cuts(pattern, txt, i - 1, k) # {} /\ Piece(pattern, txt, i, k, j)
<1>1. PICK cut \in Cuts(pattern, txt, i, j) : TRUE
  OBVIOUS
<1>2. /\ cut \in [0 .. i -> 0 .. Len(txt)] /\ cut[0] = 0 /\ cut[i] = j
      /\ \A l \in 1 .. i : Piece(pattern, txt, l, cut[l - 1], cut[l])
  BY <1>1 DEF Cuts
<1> DEFINE old == [l \in 0 .. i - 1 |-> cut[l]]
           k == cut[i - 1]
<1>3. i - 1 \in 0 .. i /\ i \in 1 .. i /\ \A l \in 0 .. i - 1 : l \in 0 .. i
  OBVIOUS
<1>4. k \in 0 .. Len(txt) /\ Piece(pattern, txt, i, k, j)
  BY <1>2, <1>3
<1>5. old \in [0 .. i - 1 -> 0 .. Len(txt)] /\ old[0] = 0 /\ old[i - 1] = k
  BY <1>2, <1>3
<1>6. ASSUME NEW l \in 1 .. i - 1
      PROVE  Piece(pattern, txt, l, old[l - 1], old[l])
  <2>1. l \in 1 .. i /\ old[l] = cut[l] /\ old[l - 1] = cut[l - 1]
    OBVIOUS
  <2> HIDE DEF old
  <2> QED
    BY <1>2, <2>1
<1> HIDE DEF old, k
<1>7. old \in Cuts(pattern, txt, i - 1, k)
  BY <1>5, <1>6 DEF Cuts
<1> QED
  BY <1>4, <1>7

LEMMA CutsOfNothing ==
  ASSUME NEW C, NEW pattern, NEW txt \in Seq(C), NEW j \in 0 .. Len(txt)
  PROVE  Cuts(pattern, txt, 0, j) # {} <=> j = 0
<1>1. 0 \in 0 .. Len(txt)
  BY LenProperties
<1>2. [l \in 0 .. 0 |-> 0] \in [0 .. 0 -> 0 .. Len(txt)]
  BY <1>1
<1>3. [l \in 0 .. 0 |-> 0] \in Cuts(pattern, txt, 0, 0)
  BY <1>2 DEF Cuts
<1> QED
  BY <1>3 DEF Cuts

-----------------------------------------------------------------------------
(* The matcher.                                                            *)

NextRow(pattern, txt, i, dp) ==
  IF pattern[i] = "*" THEN StarRow(dp, txt) ELSE CharRow(dp, pattern[i], txt)

(* A row says which prefixes of the text a prefix of the pattern denotes.  *)
RowOf(pattern, txt, i, dp) ==
  \A j \in 0 .. Len(txt) : dp[j] <=> Cuts(pattern, txt, i, j) # {}

LEMMA NextRowIs ==
  ASSUME NEW C, NEW txt \in Seq(C), NEW pattern, NEW i \in Nat \ {0},
         NEW dp \in Row(txt), RowOf(pattern, txt, i - 1, dp)
  PROVE  RowOf(pattern, txt, i, NextRow(pattern, txt, i, dp))
<1> DEFINE n == Len(txt)
           new == NextRow(pattern, txt, i, dp)
<1>1. n \in Nat
  BY LenProperties
<1>2. \A j \in 0 .. n : Cuts(pattern, txt, i, j) # {} <=>
        \E k \in 0 .. n : dp[k] /\ Piece(pattern, txt, i, k, j)
  BY CutExtends, CutShortens DEF RowOf
<1>3. CASE pattern[i] = "*"
  <2>1. \A j \in 0 .. n : new[j] <=> \E k \in 0 .. j : dp[k]
    BY <1>3, StarRowIs DEF NextRow
  <2>2. ASSUME NEW j \in 0 .. n
        PROVE  (\E k \in 0 .. j : dp[k]) <=>
                 \E k \in 0 .. n : dp[k] /\ Piece(pattern, txt, i, k, j)
    <3>1. \A k \in 0 .. n : Piece(pattern, txt, i, k, j) <=> k \in 0 .. j
      BY <1>1, <1>3 DEF Piece
    <3>2. \A k \in 0 .. j : k \in 0 .. n
      BY <1>1
    <3> QED
      BY <3>1, <3>2, Zenon
  <2>3. \A j \in 0 .. n : new[j] <=> Cuts(pattern, txt, i, j) # {}
    <3> HIDE DEF new
    <3> QED
      BY <1>2, <2>1, <2>2, Zenon
  <2> QED
    BY <2>3 DEF RowOf
<1>4. CASE pattern[i] # "*"
  <2>1. \A j \in 0 .. n : new[j] <=> j > 0 /\ dp[j - 1] /\ pattern[i] \in {"?", txt[j]}
    BY <1>4, CharRowIs DEF NextRow
  <2>2. ASSUME NEW j \in 0 .. n
        PROVE  (j > 0 /\ dp[j - 1] /\ pattern[i] \in {"?", txt[j]}) <=>
                 \E k \in 0 .. n : dp[k] /\ Piece(pattern, txt, i, k, j)
    <3>1. \A k \in 0 .. n : Piece(pattern, txt, i, k, j) <=>
            j > 0 /\ k = j - 1 /\ pattern[i] \in {"?", txt[j]}
      BY <1>1, <1>4 DEF Piece
    <3>2. j > 0 => j - 1 \in 0 .. n
      BY <1>1
    <3> QED
      BY <3>1, <3>2, Zenon
  <2>3. \A j \in 0 .. n : new[j] <=> Cuts(pattern, txt, i, j) # {}
    <3> HIDE DEF new
    <3> QED
      BY <1>2, <2>1, <2>2, Zenon
  <2> QED
    BY <2>3 DEF RowOf
<1> QED
  BY <1>3, <1>4

LEMMA NextRowType ==
  ASSUME NEW C, NEW txt \in Seq(C), NEW pattern, NEW i, NEW dp \in Row(txt)
  PROVE  NextRow(pattern, txt, i, dp) \in Row(txt)
BY StarRowIs, CharRowIs DEF NextRow

FirstRow(txt) == [j \in 0 .. Len(txt) |-> j = 0]

LEMMA RowsExist ==
  ASSUME NEW C, NEW pattern \in Seq(C), NEW txt \in Seq(C)
  PROVE  \E dp : dp = [i \in 0 .. Len(pattern) |->
                         IF i = 0 THEN FirstRow(txt) ELSE NextRow(pattern, txt, i, dp[i - 1])]
<1> DEFINE m == Len(pattern)
           R == Row(txt)
           G == [x \in (1 .. m) \X R |-> NextRow(pattern, txt, x[1], x[2])]
<1>1. m \in Nat
  BY LenProperties
<1>2. FirstRow(txt) \in R
  BY DEF FirstRow, Row
<1>3. G \in [(1 .. m) \X R -> R]
  <2> HIDE DEF R
  <2>1. \A x \in (1 .. m) \X R : NextRow(pattern, txt, x[1], x[2]) \in R
    BY NextRowType DEF R
  <2> QED
    BY <2>1
<1>4. \A i \in 1 .. m : \A dp \in R : G[<<i, dp>>] = NextRow(pattern, txt, i, dp)
  <2> HIDE DEF R
  <2> QED
    OBVIOUS
<1> HIDE DEF m, R, G
<1>5. PICK dp \in [0 .. m -> R] : Steps(dp, FirstRow(txt), G, m)
  BY <1>1, <1>2, <1>3, StepsExist
<1>6. ASSUME NEW i \in 0 .. m
      PROVE  dp[i] = IF i = 0 THEN FirstRow(txt) ELSE NextRow(pattern, txt, i, dp[i - 1])
  <2>1. CASE i = 0
    BY <1>5, <2>1 DEF Steps
  <2>2. CASE i # 0
    <3>1. i \in 1 .. m /\ i - 1 \in 0 .. m
      BY <1>1, <2>2
    <3>2. dp[i] = G[<<i, dp[i - 1]>>] /\ dp[i - 1] \in R
      BY <1>5, <3>1 DEF Steps
    <3> QED
      BY <1>4, <2>2, <3>1, <3>2
  <2> QED
    BY <2>1, <2>2
<1>7. dp = [i \in 0 .. m |-> IF i = 0 THEN FirstRow(txt) ELSE NextRow(pattern, txt, i, dp[i - 1])]
  BY <1>6
<1> QED
  BY <1>7 DEF m

(* The matcher finds exactly what a pattern denotes: for every pattern and *)
(* every text, although its only row is written over from the left for a   *)
(* star and from the right for any other character (wildcard.rs:5-44).     *)
THEOREM MatchesWhatItDenotes ==
  ASSUME NEW C, NEW pattern \in Seq(C), NEW txt \in Seq(C)
  PROVE  WildcardMatch(pattern, txt) <=> Denotes(pattern, txt)
<1> DEFINE m == Len(pattern)
           n == Len(txt)
           dp[i \in 0 .. m] ==
             IF i = 0 THEN [j \in 0 .. n |-> j = 0]
             ELSE IF pattern[i] = "*" THEN StarRow(dp[i - 1], txt)
                  ELSE CharRow(dp[i - 1], pattern[i], txt)
<1>1. m \in Nat /\ n \in Nat /\ n \in 0 .. n
  BY LenProperties
<1>2. WildcardMatch(pattern, txt) = dp[m][n]
  BY Zenon DEF WildcardMatch
<1>3. dp = [i \in 0 .. m |-> IF i = 0 THEN FirstRow(txt) ELSE NextRow(pattern, txt, i, dp[i - 1])]
  <2>1. \E h : h = [i \in 0 .. m |->
                      IF i = 0 THEN FirstRow(txt) ELSE NextRow(pattern, txt, i, h[i - 1])]
    BY RowsExist
  <2>2. \E h : h = [i \in 0 .. m |->
                      IF i = 0 THEN [j \in 0 .. n |-> j = 0]
                      ELSE IF pattern[i] = "*" THEN StarRow(h[i - 1], txt)
                           ELSE CharRow(h[i - 1], pattern[i], txt)]
    BY <2>1, Zenon DEF FirstRow, NextRow
  <2>3. dp = [i \in 0 .. m |->
                IF i = 0 THEN [j \in 0 .. n |-> j = 0]
                ELSE IF pattern[i] = "*" THEN StarRow(dp[i - 1], txt)
                     ELSE CharRow(dp[i - 1], pattern[i], txt)]
    BY <2>2, Zenon
  <2> HIDE DEF dp
  <2> QED
    BY <2>3, Zenon DEF FirstRow, NextRow
<1> HIDE DEF dp
<1>4. \A i \in 0 .. m :
        dp[i] = IF i = 0 THEN FirstRow(txt) ELSE NextRow(pattern, txt, i, dp[i - 1])
  BY <1>3, Zenon
<1> DEFINE T == {i \in 0 .. m : dp[i] \in Row(txt) /\ RowOf(pattern, txt, i, dp[i])}
<1>5. 0 \in T
  <2>1. 0 \in 0 .. m /\ dp[0] = FirstRow(txt)
    BY <1>1, <1>4
  <2>2. FirstRow(txt) \in Row(txt) /\ \A j \in 0 .. n : FirstRow(txt)[j] <=> j = 0
    BY DEF FirstRow, Row
  <2>3. RowOf(pattern, txt, 0, FirstRow(txt))
    BY <2>2, CutsOfNothing DEF RowOf
  <2> QED
    BY <2>1, <2>2, <2>3
<1>6. ASSUME NEW i \in 1 .. m, i - 1 \in T
      PROVE  i \in T
  <2>1. i \in 0 .. m /\ i # 0 /\ i \in Nat \ {0}
    BY <1>1
  <2>2. dp[i] = NextRow(pattern, txt, i, dp[i - 1])
    BY <1>4, <2>1
  <2>3. dp[i - 1] \in Row(txt) /\ RowOf(pattern, txt, i - 1, dp[i - 1])
    BY <1>6
  <2>4. dp[i] \in Row(txt) /\ RowOf(pattern, txt, i, dp[i])
    BY <2>1, <2>2, <2>3, NextRowType, NextRowIs
  <2> QED
    BY <2>1, <2>4
<1>7. m \in T
  <2> HIDE DEF T, m
  <2>1. 0 .. m \subseteq T
    BY <1>1, <1>5, <1>6, IntervalInduction
  <2> QED
    BY <1>1, <2>1
<1>8. dp[m][n] <=> Cuts(pattern, txt, m, n) # {}
  BY <1>1, <1>7 DEF RowOf
<1> QED
  BY <1>2, <1>8, DenotesIsCut

-----------------------------------------------------------------------------
(* The configuration a command works with.                                 *)

Idle == pc \in {"idle", "load"}

ConfigInv ==
  /\ setting \in Settings
  /\ Idle => todo_syncs = {}
  /\ ~Idle => /\ setting.file # None
              /\ config = Filled(setting.file)
              /\ Accepted(config)
              /\ todo_syncs \subseteq DOMAIN config.sync
  /\ pc \in {"sync", "volumes", "step", "send"} => sync \in DOMAIN config.sync

LEMMA ConfigInit == Init => ConfigInv
BY DEF Init, ConfigInv, Idle

LEMMA ConfigExit ==
  ASSUME ConfigInv, Exit
  PROVE  ConfigInv'
BY DEF Exit, ConfigInv, Idle

LEMMA ConfigLoad ==
  ASSUME ConfigInv, LoadConfig
  PROVE  ConfigInv'
<1>1. setting \in Settings /\ setting' = setting
  BY DEF ConfigInv, LoadConfig
<1>2. Loaded = IF setting.file = None THEN None ELSE FromToml(setting.file)
  BY <1>1 DEF Loaded, Loads
<1>3. Loaded # None
  BY DEF LoadConfig, Usable
<1>4. setting.file # None /\ Loaded = Filled(setting.file) /\ Accepted(Loaded)
  BY <1>2, <1>3 DEF FromToml
<1>5. config' = Loaded /\ todo_syncs' \subseteq DOMAIN Loaded.sync /\ pc' = "syncs"
  BY DEF LoadConfig
<1> QED
  BY <1>1, <1>4, <1>5 DEF ConfigInv, Idle

LEMMA ConfigStep == ConfigInv /\ [Next]_vars => ConfigInv'
<1> SUFFICES ASSUME ConfigInv, [Next]_vars
             PROVE  ConfigInv'
  OBVIOUS
<1> USE DEF loop, stats, sudo
<1>1. ASSUME NEW e \in setting.later, SnapCreate(e)
      PROVE  ConfigInv'
  BY <1>1 DEF SnapCreate, ConfigInv, Idle
<1>2. ASSUME NEW c \in setting.commands, Start(c)
      PROVE  ConfigInv'
  BY <1>2 DEF Start, ConfigInv, Idle
<1>3. CASE LoadConfig
  BY <1>3, ConfigLoad
<1>4. CASE RefuseConfig \/ RefuseSudo \/ FinishCommand \/ Fail \/ \E v \in todo : BrokenVolume(v)
  BY <1>4, ConfigExit DEF RefuseConfig, RefuseSudo, FinishCommand, Fail, BrokenVolume
<1>5. ASSUME NEW s \in todo_syncs, NextSync(s)
      PROVE  ConfigInv'
  BY <1>5 DEF NextSync, ConfigInv, Idle
<1>6. CASE InspectSource \/ FinishSync \/ FinishVolume \/ EnsureSudo \/ StartSend \/ FinishSend
  BY <1>6
  DEF InspectSource, FinishSync, FinishVolume, EnsureSudo, StartSend, FinishSend, ConfigInv, Idle
<1>7. ASSUME NEW v \in todo, SkipVolume(v) \/ DryrunVolume(v) \/ ShowVolume(v)
      PROVE  ConfigInv'
  BY <1>7 DEF SkipVolume, DryrunVolume, ShowVolume, Enter, ConfigInv, Idle
<1>8. ASSUME NEW v \in todo, RunVolume(v) \/ MeasureVolume(v)
      PROVE  ConfigInv'
  BY <1>8 DEF RunVolume, MeasureVolume, Enter, ConfigInv, Idle
<1>9. CASE Time \/ UNCHANGED vars
  BY <1>9 DEF Time, vars, ConfigInv, Idle
<1> QED
  BY <1>1, <1>2, <1>3, <1>4, <1>5, <1>6, <1>7, <1>8, <1>9 DEF Next, Work

THEOREM ConfigInvariant == Spec => []ConfigInv
BY ConfigInit, ConfigStep, PTL DEF Spec

(* for_each_sync's indices and the unwrap of the interval never panic,     *)
(* whatever the file says: from_toml has refused what would (mod.rs:137,   *)
(* policy.rs:38).                                                          *)
THEOREM NeverPanics == Spec => []NoPanic
<1>1. ConfigInv => NoPanic
  BY DEF ConfigInv, NoPanic, Idle, Accepted, RefersToExisting, PolicyValid
<1> QED
  BY <1>1, ConfigInvariant, PTL

(* A duration that was accepted is a number of days, at most the number    *)
(* that was asked for.                                                     *)
LEMMA DurationDays ==
  ASSUME NEW x, ParseDuration(x) # None
  PROVE  /\ ParseDuration(x) \in Nat /\ x.number * UnitDays[x.unit] \in Nat
         /\ ParseDuration(x) <= x.number * UnitDays[x.unit]
<1> DEFINE asked_for == x.number * UnitDays[x.unit]
           days == asked_for % (UMax + 1)
<1>1. x.number \in 0 .. UMax /\ x.unit \in DOMAIN UnitDays
  BY DEF ParseDuration
<1>2. UnitDays[x.unit] \in Nat
  BY <1>1 DEF UnitDays
<1>3. asked_for \in Nat /\ UMax + 1 \in Nat \ {0}
  BY <1>1, <1>2, UMaxAssumption
<1>4. ParseDuration(x) = days
  BY <1>1 DEF ParseDuration
<1> HIDE DEF asked_for
<1>5. days \in Nat /\ days <= asked_for
  BY <1>3
<1> QED
  BY <1>3, <1>4, <1>5 DEF asked_for

(* The defaults leave max_incremental_depth as the file says.              *)
LEMMA DepthGiven ==
  ASSUME ConfigInv, ~Idle, NEW n \in DOMAIN config.sync
  PROVE  /\ setting.file # None
         /\ DOMAIN config.sync = DOMAIN setting.file.sync
         /\ config.sync[n].max_incremental_depth = setting.file.sync[n].max_incremental_depth
         /\ config.sync[n].max_incremental_depth \in Nat \cup {None}
         /\ config.sync[n].min_full_send_interval =
              Given(setting.file.sync[n].min_full_send_interval, [number |-> 1, unit |-> "w"])
<1>1. setting.file # None /\ config = Filled(setting.file) /\ setting \in Settings
  BY DEF ConfigInv
<1>2. /\ DOMAIN config.sync = DOMAIN setting.file.sync
      /\ config.sync[n] = FillSync(setting.file.sync[n])
  BY <1>1 DEF Filled
<1>3. IsSyncSpec(setting.file.sync[n])
  BY <1>1, <1>2, SettingsAssumption
<1> QED
  BY <1>1, <1>2, <1>3 DEF FillSync, IsSyncSpec

Limiting(policy) ==
  /\ policy.max_incremental_depth \in {None} \cup (Nat \ {0})
  /\ policy.min_full_send_interval \in Nat

(* The policy of a sync is what the file asks for, but for an interval     *)
(* whose number of days does not fit.                                      *)
LEMMA PolicyAsked ==
  ASSUME ConfigInv, ~Idle, sync \in DOMAIN config.sync
  PROVE  /\ Limiting(Policy)
         /\ setting.file # None
         /\ sync \in DOMAIN setting.file.sync
         /\ \A n \in DOMAIN setting.file.sync : n = sync
         /\ Policy.max_incremental_depth = setting.file.sync[sync].max_incremental_depth
         /\ DaysAsked(setting.file.sync[sync]) \in Nat
         /\ Policy.min_full_send_interval <= DaysAsked(setting.file.sync[sync])
<1> DEFINE s == config.sync[sync]
<1>1. AtMostOne(DOMAIN config.sync) /\ PolicyValid(s)
  BY DEF ConfigInv, Accepted
<1>2. /\ Policy.max_incremental_depth = s.max_incremental_depth
      /\ Policy.min_full_send_interval = ParseDuration(s.min_full_send_interval)
  BY DEF Policy, Resolve
<1>3. DaysAsked(setting.file.sync[sync]) =
        s.min_full_send_interval.number * UnitDays[s.min_full_send_interval.unit]
  BY DepthGiven DEF DaysAsked
<1> HIDE DEF s
<1>4. /\ ParseDuration(s.min_full_send_interval) # None
      /\ s.max_incremental_depth = None \/ s.max_incremental_depth >= 1
  BY <1>1 DEF PolicyValid
<1>5. /\ Policy.min_full_send_interval \in Nat
      /\ DaysAsked(setting.file.sync[sync]) \in Nat
      /\ Policy.min_full_send_interval <= DaysAsked(setting.file.sync[sync])
  BY <1>2, <1>3, <1>4, DurationDays
<1>6. s.max_incremental_depth \in {None} \cup (Nat \ {0})
  BY <1>4, DepthGiven DEF s
<1>7. /\ setting.file # None /\ sync \in DOMAIN setting.file.sync
      /\ \A n \in DOMAIN setting.file.sync : n = sync
      /\ s.max_incremental_depth = setting.file.sync[sync].max_incremental_depth
  BY <1>1, DepthGiven DEF AtMostOne, s
<1> QED
  BY <1>2, <1>5, <1>6, <1>7 DEF Limiting

(* What the other parts assume of their parameters (PolicyAssumption of    *)
(* BackupRun, SizesAssumption of SendStream).                              *)
PolicyUsable ==
  pc = "volumes" => /\ Limiting(Policy)
                    /\ config.global.max_backup_chunk_size \in Nat \ {0}

(* The rules of from_toml leave no policy and no chunk size outside of     *)
(* these assumptions to a command.                                         *)
LEMMA PolicyAlwaysUsable == Spec => []PolicyUsable
<1>1. ConfigInv => PolicyUsable
  <2> SUFFICES ASSUME ConfigInv, pc = "volumes"
               PROVE  Limiting(Policy) /\ config.global.max_backup_chunk_size \in Nat \ {0}
    BY DEF PolicyUsable
  <2>1. ~Idle /\ sync \in DOMAIN config.sync /\ Accepted(config)
    BY DEF Idle, ConfigInv
  <2> DEFINE size == config.global.max_backup_chunk_size
  <2>2. size \in 1 .. 2048
    BY <2>1 DEF Accepted, GlobalInRange
  <2> HIDE DEF size
  <2>3. size \in Nat \ {0}
    BY <2>2
  <2> QED
    BY <2>1, <2>3, PolicyAsked DEF size
<1> QED
  BY <1>1, ConfigInvariant, PTL

-----------------------------------------------------------------------------
(* The sudo session: SudoSession under SudoAssumption.                     *)

(* What a session starts from.                                             *)
NoneYet == session = "none" => ~ready /\ asked = {} /\ ~lapsed /\ ~suspended

(* root needs no sudo.                                                     *)
RootIsDirect == session \in {"passwordless", "interactive"} => ~user.root

(* Sudo has not forgotten what it knew when the session began, or it has   *)
(* lapsed.                                                                 *)
Kept ==
  session # "none" /\ ~user.root /\ user.nopasswd # "everything" => lapsed \/ S!Cached

(* Since the last refresh, sudo has not forgotten more time than the       *)
(* process has counted, unless the machine slept.                          *)
Fresh == session = "interactive" /\ ~suspended /\ elapsed <= RefreshInterval => age <= elapsed

(* ensure_active lets no command through when a refresh is due.            *)
ReadyInTime == session = "interactive" /\ ready => elapsed <= RefreshInterval

(* The inductive invariant.                                                *)
SessionInv ==
  /\ S!TypeOK /\ NoneYet /\ RootIsDirect /\ Kept /\ Fresh /\ ReadyInTime
  /\ S!AskedOnlyAfterLapse /\ S!BtrfsNotAsked

-----------------------------------------------------------------------------
(* The times that are written.                                             *)
LEMMA Times ==
  /\ S!LateElapsed \in Nat
  /\ 0 \in 0 .. S!LateElapsed
  /\ \A t \in 0 .. S!LateElapsed : S!Later(t, S!LateElapsed) \in 0 .. S!LateElapsed
BY SudoAssumption DEF S!LateElapsed, S!Later

LEMMA Ages ==
  ASSUME user \in S!Users
  PROVE  /\ user.timeout \in Nat
         /\ 0 \in 0 .. user.timeout /\ user.timeout \in 0 .. user.timeout
         /\ \A t \in 0 .. user.timeout : S!Later(t, user.timeout) \in 0 .. user.timeout
<1>1. user.timeout \in Nat
  BY DEF S!Users
<1> DEFINE end == user.timeout
<1> HIDE DEF end
<1>2. end \in Nat
  BY <1>1 DEF end
<1>3. \A t \in 0 .. end : S!Later(t, end) \in 0 .. end
  BY <1>2 DEF S!Later
<1>4. 0 \in 0 .. end /\ end \in 0 .. end
  BY <1>2
<1> QED BY <1>2, <1>3, <1>4 DEF end

LEMMA SessionInvInit == S!Init => SessionInv
<1> SUFFICES ASSUME S!Init PROVE SessionInv
  OBVIOUS
<1>1. S!TypeOK
  BY Times, Ages, Zenon DEF S!Init, S!SessionInit, S!TypeOK
<1> QED
  BY <1>1
  DEF S!Init, S!SessionInit, SessionInv, NoneYet, RootIsDirect, Kept, Fresh, ReadyInTime,
      S!AskedOnlyAfterLapse, S!BtrfsNotAsked

LEMMA OpenKeepsSession ==
  ASSUME SessionInv, S!OpenDirect \/ S!OpenPasswordless \/ S!OpenInteractive
  PROVE  SessionInv'
<1> USE DEF S!OpenAs
<1>1. user' = user /\ user \in S!Users /\ age \in 0 .. user.timeout
  BY DEF SessionInv, S!TypeOK, S!OpenDirect, S!OpenPasswordless, S!OpenInteractive
<1>2. S!TypeOK'
  <2>1. age' \in 0 .. user.timeout /\ (user.timeout = 0) \in BOOLEAN
    BY <1>1, Ages, Zenon DEF S!OpenDirect, S!OpenPasswordless, S!OpenInteractive
  <2> QED
    BY <1>1, <2>1, Times, Zenon
    DEF SessionInv, S!TypeOK, S!OpenDirect, S!OpenPasswordless, S!OpenInteractive
<1>3. session' # "none" /\ asked' = {} /\ ~suspended' /\ elapsed' = 0
  BY DEF SessionInv, NoneYet, S!OpenDirect, S!OpenPasswordless, S!OpenInteractive
<1>4. session' = "interactive" => age' = 0
  BY DEF S!OpenDirect, S!OpenPasswordless, S!OpenInteractive
<1>5. RootIsDirect'
  BY <1>1 DEF RootIsDirect, S!OpenDirect, S!OpenPasswordless, S!OpenInteractive
<1>6. Kept'
  <2> SUFFICES ASSUME ~user.root, user.nopasswd # "everything", user.timeout # 0
               PROVE  age' < user.timeout
    BY <1>1 DEF Kept, S!Cached, S!OpenDirect, S!OpenPasswordless, S!OpenInteractive
  <2>1. ~S!NoPasswd("id")
    BY <1>1 DEF S!NoPasswd, S!Users
  <2>2. age' = 0
    BY <2>1 DEF S!OpenDirect, S!OpenPasswordless, S!OpenInteractive
  <2> QED BY <1>1, <2>2, Ages
<1>7. Fresh' /\ ReadyInTime'
  BY <1>3, <1>4, SudoAssumption DEF Fresh, ReadyInTime
<1>8. NoneYet' /\ S!AskedOnlyAfterLapse' /\ S!BtrfsNotAsked'
  BY <1>3 DEF NoneYet, S!AskedOnlyAfterLapse, S!BtrfsNotAsked
<1> QED BY <1>2, <1>5, <1>6, <1>7, <1>8 DEF SessionInv

LEMMA EnsureActiveKeepsSession ==
  ASSUME SessionInv, S!EnsureActive
  PROVE  SessionInv'
<1>1. S!TypeOK'
  BY Zenon DEF SessionInv, S!TypeOK, S!EnsureActive
<1>2. session' = "interactive" => elapsed' <= RefreshInterval
  BY SudoAssumption
  DEF SessionInv, S!TypeOK, S!EnsureActive, S!RefreshDue, S!LateElapsed
<1>3. NoneYet' /\ RootIsDirect' /\ Kept' /\ S!AskedOnlyAfterLapse' /\ S!BtrfsNotAsked'
  BY DEF SessionInv, NoneYet, RootIsDirect, Kept, S!Cached, S!AskedOnlyAfterLapse,
         S!BtrfsNotAsked, S!EnsureActive
<1> QED BY <1>1, <1>2, <1>3 DEF SessionInv, Fresh, ReadyInTime, S!EnsureActive

(* Sudo asks in mid-session only if it knew and has forgotten.             *)
LEMMA AskedIfLapsed ==
  ASSUME SessionInv, session \in {"passwordless", "interactive"},
         NEW command \in {"-v", "btrfs"}, ~S!Passes(command)
  PROVE  lapsed /\ ~user.root /\ user.nopasswd # "everything" /\ ~S!Cached
BY DEF SessionInv, RootIsDirect, Kept, S!Passes, S!NoPasswd

LEMMA RefreshKeepsSession ==
  ASSUME SessionInv, S!Refresh
  PROVE  SessionInv'
<1>1. /\ session = "interactive" /\ session' = session /\ user' = user
      /\ lapsed' = lapsed /\ suspended' = suspended /\ elapsed' = 0 /\ age' = 0 /\ ready'
  BY DEF S!Refresh, S!RefreshDue
<1>2. asked' \subseteq asked \cup {"-v"}
  BY DEF S!Refresh, S!Asks
<1>3. S!TypeOK'
  <2>1. user \in S!Users /\ asked' \subseteq {"-v", "btrfs"}
    BY <1>2 DEF SessionInv, S!TypeOK
  <2> QED BY <1>1, <2>1, Times, Ages, Zenon DEF SessionInv, S!TypeOK, S!Refresh
<1>4. Fresh' /\ ReadyInTime' /\ NoneYet'
  BY <1>1, SudoAssumption DEF Fresh, ReadyInTime, NoneYet
<1>5. RootIsDirect' /\ Kept'
  <2> DEFINE end == user.timeout
  <2>1. end \in Nat /\ age \in 0 .. end
    BY Ages DEF SessionInv, S!TypeOK
  <2>2. S!Cached <=> age < end
    BY DEF S!Cached
  <2>3. S!Cached' <=> 0 < end
    BY <1>1 DEF S!Cached
  <2> HIDE DEF end
  <2>4. S!Cached => S!Cached'
    BY <2>1, <2>2, <2>3
  <2> QED BY <1>1, <2>4 DEF SessionInv, RootIsDirect, Kept
<1>6. S!AskedOnlyAfterLapse'
  <2>1. CASE S!Passes("-v")
    BY <1>1, <2>1 DEF SessionInv, S!AskedOnlyAfterLapse, S!Refresh, S!Asks
  <2>2. CASE ~S!Passes("-v")
    BY <1>1, <2>2, AskedIfLapsed DEF S!AskedOnlyAfterLapse
  <2> QED BY <2>1, <2>2
<1>7. S!BtrfsNotAsked'
  BY <1>1, <1>2 DEF SessionInv, S!BtrfsNotAsked
<1> QED BY <1>3, <1>4, <1>5, <1>6, <1>7 DEF SessionInv

(* What Spawn does, apart from the question.                               *)
LEMMA SpawnIs ==
  ASSUME SessionInv, S!Spawn
  PROVE  /\ session # "none" /\ session' = session /\ user' = user /\ elapsed' = elapsed
         /\ lapsed' = lapsed /\ suspended' = suspended
         /\ ready /\ ~ready' /\ age' \in {0, age}
         /\ \/ asked' = asked
            \/ /\ session \in {"passwordless", "interactive"} /\ ~S!Passes("btrfs")
               /\ asked' = asked \cup {"btrfs"}
BY DEF SessionInv, NoneYet, S!TypeOK, S!Spawn, S!Asks

(* The credentials of an interactive session have not expired when a       *)
(* command is spawned, if sudo keeps them for longer than the interval.    *)
LEMMA SpawnPasses ==
  ASSUME SessionInv, S!Spawn, session = "interactive", ~suspended,
         RefreshInterval < user.timeout
  PROVE  S!Cached
<1> DEFINE end == user.timeout
<1>1. user \in S!Users /\ age \in 0 .. end /\ elapsed \in 0 .. S!LateElapsed
  BY DEF SessionInv, S!TypeOK
<1>2. end \in Nat
  BY <1>1, Ages
<1>3. age <= elapsed /\ elapsed <= RefreshInterval
  BY SpawnIs DEF SessionInv, Fresh, ReadyInTime
<1> HIDE DEF end
<1>4. age < end
  BY <1>1, <1>2, <1>3, SudoAssumption DEF S!LateElapsed, end
<1> QED BY <1>4 DEF S!Cached, end

LEMMA SpawnKeepsSession ==
  ASSUME SessionInv, S!Spawn
  PROVE  SessionInv'
<1> USE SpawnIs
<1>0. user \in S!Users /\ user.timeout \in Nat /\ age \in 0 .. user.timeout
  BY Ages DEF SessionInv, S!TypeOK
<1>1. S!TypeOK'
  <2>1. age' \in 0 .. user.timeout /\ asked' \subseteq {"-v", "btrfs"} /\ ready' \in BOOLEAN
    BY <1>0, Ages DEF SessionInv, S!TypeOK, S!Spawn
  <2> QED BY <2>1, Zenon DEF SessionInv, S!TypeOK, S!Spawn
<1>2. NoneYet' /\ RootIsDirect' /\ ReadyInTime'
  BY DEF SessionInv, NoneYet, RootIsDirect, ReadyInTime
<1>3. Fresh'
  BY <1>0 DEF SessionInv, S!TypeOK, Fresh, S!LateElapsed
<1>4. Kept'
  <2> SUFFICES ASSUME ~lapsed, ~user.root, user.nopasswd # "everything"
               PROVE  age' < user.timeout
    BY DEF Kept, S!Cached
  <2>1. age < user.timeout
    BY DEF SessionInv, Kept, S!Cached
  <2> DEFINE end == user.timeout
  <2> HIDE DEF end
  <2>2. age < end /\ end \in Nat /\ age \in 0 .. end
    BY <1>0, <2>1 DEF end
  <2>3. age' < end
    BY <2>2
  <2> QED BY <2>3 DEF end
<1>5. S!AskedOnlyAfterLapse'
  BY AskedIfLapsed DEF SessionInv, S!AskedOnlyAfterLapse
<1>6. S!BtrfsNotAsked'
  <2>1. CASE asked' = asked
    BY <2>1 DEF SessionInv, S!BtrfsNotAsked
  <2>2. ASSUME session \in {"passwordless", "interactive"}, ~S!Passes("btrfs"),
               ~(user.timeout <= RefreshInterval), ~suspended
        PROVE  session = "passwordless" /\ user.nopasswd = "nothing"
    <3>1. user.nopasswd = "nothing"
      BY <1>0, <2>2 DEF S!Users, S!Passes, S!NoPasswd
    <3>2. RefreshInterval < user.timeout
      <4> DEFINE end == user.timeout
      <4> HIDE DEF end
      <4>1. end \in Nat /\ ~(end <= RefreshInterval)
        BY <1>0, <2>2 DEF end
      <4>2. RefreshInterval < end
        BY <4>1, SudoAssumption
      <4> QED BY <4>2 DEF end
    <3>3. session # "interactive"
      BY <2>2, <3>2, SpawnPasses DEF S!Passes
    <3> QED BY <2>2, <3>1, <3>3
  <2> QED BY <2>1, <2>2 DEF S!BtrfsNotAsked
<1> QED BY <1>1, <1>2, <1>3, <1>4, <1>5, <1>6 DEF SessionInv

LEMMA TimeKeepsSession ==
  ASSUME SessionInv, S!Tick \/ S!Suspend
  PROVE  SessionInv'
<1> USE DEF S!Aging
<1>0. user' = user /\ user \in S!Users /\ user.timeout \in Nat /\ age \in 0 .. user.timeout
  BY Ages DEF SessionInv, S!TypeOK, S!Tick, S!Suspend
<1>1. /\ session' = session /\ ~ready /\ ~ready' /\ asked' = asked
      /\ age' = S!Later(age, user.timeout)
      /\ suspended => suspended'
      /\ lapsed' = (lapsed \/ (session # "none" /\ age + 1 = user.timeout))
  BY DEF SessionInv, S!TypeOK, S!Tick, S!Suspend
<1>2. S!TypeOK'
  <2>1. age' \in 0 .. user.timeout /\ lapsed' \in BOOLEAN
    BY <1>0, <1>1, Ages
  <2>2. elapsed' \in 0 .. S!LateElapsed
    BY Times, Zenon DEF SessionInv, S!TypeOK, S!Tick, S!Suspend
  <2> QED
    BY <1>0, <1>1, <2>1, <2>2, Zenon DEF SessionInv, S!TypeOK, S!Tick, S!Suspend
<1>3. NoneYet'
  <2>1. session = "none" => suspended' = suspended
    BY DEF S!Tick, S!Suspend
  <2> QED BY <1>1, <2>1 DEF SessionInv, NoneYet
<1>4. Kept'
  <2> SUFFICES ASSUME session # "none", ~lapsed', ~user.root, user.nopasswd # "everything"
               PROVE  age' < user.timeout
    BY <1>0, <1>1 DEF Kept, S!Cached
  <2> DEFINE end == user.timeout
  <2>1. age < end /\ age + 1 # end /\ end \in Nat /\ age \in 0 .. end /\ age' = S!Later(age, end)
    BY <1>0, <1>1 DEF SessionInv, Kept, S!Cached
  <2> HIDE DEF end
  <2>2. age' < end
    BY <2>1 DEF S!Later
  <2> QED BY <2>2 DEF end
<1>5. Fresh'
  <2> SUFFICES ASSUME session = "interactive", ~suspended', elapsed' <= RefreshInterval
               PROVE  age' <= elapsed'
    BY <1>1 DEF Fresh
  <2> DEFINE end == user.timeout
  <2>1. S!Tick /\ elapsed' = S!Later(elapsed, S!LateElapsed) /\ ~suspended
    BY <1>1 DEF S!Tick, S!Suspend
  <2>2. elapsed \in 0 .. S!LateElapsed /\ end \in Nat /\ age \in 0 .. end
    BY <1>0 DEF SessionInv, S!TypeOK
  <2>3. elapsed < RefreshInterval /\ elapsed' = elapsed + 1
    BY <2>1, <2>2, SudoAssumption DEF S!Later, S!LateElapsed
  <2>4. age <= elapsed
    BY <2>1, <2>2, <2>3, SudoAssumption DEF SessionInv, Fresh, S!LateElapsed
  <2>5. age' = S!Later(age, end)
    BY <1>1
  <2> HIDE DEF end
  <2> QED BY <2>2, <2>3, <2>4, <2>5 DEF S!Later, S!LateElapsed
<1>6. RootIsDirect' /\ ReadyInTime' /\ S!AskedOnlyAfterLapse' /\ S!BtrfsNotAsked'
  BY <1>0, <1>1
  DEF SessionInv, RootIsDirect, ReadyInTime, S!AskedOnlyAfterLapse, S!BtrfsNotAsked
<1> QED BY <1>2, <1>3, <1>4, <1>5, <1>6 DEF SessionInv

LEMMA QuitKeepsSession ==
  ASSUME SessionInv, S!Quit
  PROVE  SessionInv'
<1>1. S!TypeOK'
  BY Times, Zenon DEF SessionInv, S!TypeOK, S!Quit
<1> QED
  BY <1>1
  DEF SessionInv, NoneYet, RootIsDirect, Kept, Fresh, ReadyInTime, S!AskedOnlyAfterLapse,
      S!BtrfsNotAsked, S!Quit

LEMMA SessionInvStep == SessionInv /\ [S!Next]_(S!vars) => SessionInv'
<1> SUFFICES ASSUME SessionInv, [S!Next]_(S!vars) PROVE SessionInv'
  OBVIOUS
<1>1. CASE S!EnsureSudo
  BY <1>1, OpenKeepsSession, EnsureActiveKeepsSession, RefreshKeepsSession DEF S!EnsureSudo
<1>2. CASE S!Spawn
  BY <1>2, SpawnKeepsSession
<1>3. CASE S!Tick \/ S!Suspend
  BY <1>3, TimeKeepsSession
<1>4. CASE S!Quit
  BY <1>4, QuitKeepsSession
<1>5. CASE UNCHANGED S!vars
  BY <1>5
  DEF S!vars, SessionInv, S!TypeOK, NoneYet, RootIsDirect, Kept, S!Cached, Fresh, ReadyInTime,
      S!AskedOnlyAfterLapse, S!BtrfsNotAsked
<1> QED BY <1>1, <1>2, <1>3, <1>4, <1>5 DEF S!Next

(* Whoever has to give a password gives it once (sudo.rs:18) and again     *)
(* only when sudo has forgotten it in the meantime, whatever timeout       *)
(* sudoers sets.                                                           *)
THEOREM AskedAgainOnlyAfterLapse == S!Spec => []S!AskedOnlyAfterLapse
<1>1. SessionInv => S!AskedOnlyAfterLapse
  BY DEF SessionInv
<1> QED BY SessionInvInit, SessionInvStep, <1>1, PTL DEF S!Spec

(* With a timeout longer than the interval of the refresh, the question    *)
(* comes from `sudo -v`, never from a btrfs command, unless the machine    *)
(* slept or cached credentials were taken for passwordless sudo.           *)
THEOREM RefreshAsksInstead == S!Spec => []S!BtrfsNotAsked
<1>1. SessionInv => S!BtrfsNotAsked
  BY DEF SessionInv
<1> QED BY SessionInvInit, SessionInvStep, <1>1, PTL DEF S!Spec

(* Every variable of SudoSession keeps its type.                           *)
THEOREM SudoTypeCorrect == S!Spec => []S!TypeOK
<1>1. SessionInv => S!TypeOK
  BY DEF SessionInv
<1> QED BY SessionInvInit, SessionInvStep, <1>1, PTL DEF S!Spec

-----------------------------------------------------------------------------
(* The sudo session of whatever command is running.                        *)

LEMMA SessionStart == Init => S!Init
BY SettingsAssumption DEF Init, S!Init

LEMMA SessionStep == [Next]_vars => [S!Next]_(S!vars)
<1> SUFFICES ASSUME [Next]_vars
             PROVE  S!Next \/ UNCHANGED S!vars
  OBVIOUS
<1> USE DEF sudo, S!vars
<1>1. CASE RefuseConfig \/ RefuseSudo \/ FinishCommand \/ Fail \/ \E v \in todo : BrokenVolume(v)
  <2>1. Exit
    BY <1>1 DEF RefuseConfig, RefuseSudo, FinishCommand, Fail, BrokenVolume
  <2> QED
    BY <2>1 DEF Exit, S!Next
<1>2. CASE EnsureSudo \/ StartSend \/ Time
  BY <1>2 DEF EnsureSudo, StartSend, Time, S!Next
<1>3. CASE LoadConfig \/ InspectSource \/ FinishSync \/ FinishVolume \/ FinishSend
  BY <1>3 DEF LoadConfig, InspectSource, FinishSync, FinishVolume, FinishSend
<1>4. CASE \E v \in todo : SkipVolume(v) \/ RunVolume(v) \/ DryrunVolume(v)
                            \/ MeasureVolume(v) \/ ShowVolume(v)
  BY <1>4
  DEF SkipVolume, RunVolume, DryrunVolume, MeasureVolume, ShowVolume, Enter
<1>5. CASE \/ \E e \in setting.later : SnapCreate(e)
           \/ \E c \in setting.commands : Start(c)
           \/ \E s \in todo_syncs : NextSync(s)
  BY <1>5 DEF SnapCreate, Start, NextSync
<1>6. CASE UNCHANGED vars
  BY <1>6 DEF vars
<1> QED
  BY <1>1, <1>2, <1>3, <1>4, <1>5, <1>6 DEF Next, Work

(* Whatever the commands do between two calls of ensure_sudo, the session  *)
(* of their process goes through no states but those of SudoSession.       *)
THEOREM DriverImplementsSession == Spec => S!Spec
BY SessionStart, SessionStep, PTL DEF Spec, S!Spec

(* Both hold of every command over many volumes, over the processes that   *)
(* follow each other and the credentials they inherit.                     *)
THEOREM CommandsAskOnlyAfterLapse == Spec => [](AskedOnlyAfterLapse /\ BtrfsNotAsked)
<1>1. S!AskedOnlyAfterLapse /\ S!BtrfsNotAsked <=> AskedOnlyAfterLapse /\ BtrfsNotAsked
  BY DEF AskedOnlyAfterLapse, S!AskedOnlyAfterLapse, BtrfsNotAsked, S!BtrfsNotAsked
<1> QED
  BY DriverImplementsSession, AskedAgainOnlyAfterLapse, RefreshAsksInstead, <1>1, PTL

-----------------------------------------------------------------------------
(* ls --restore-root.                                                      *)

(* The volumes are sequences of characters.                                *)
LEMMA VolumeNames == Volumes \subseteq Seq(STRING)
<1> SUFFICES ASSUME NEW v \in Volumes
             PROVE  v \in Seq(STRING)
  OBVIOUS
<1>1. PICK s \in Settings : \E e \in s.now \cup s.later : v = e.volume
  BY DEF Volumes
<1>2. PICK e \in DirEntry : v = e.volume
  BY <1>1, SettingsAssumption
<1> QED
  BY <1>2 DEF DirEntry

(* Nothing is left of a name VOLUME.SUFFIX exactly when VOLUME is what was *)
(* to be stripped.                                                         *)
LEMMA StrippedWhole ==
  ASSUME NEW v \in Seq(STRING), NEW w \in Seq(STRING)
  PROVE  /\ IsPrefix(Append(v, "."), Append(w, ".")) =>
              (SubSeq(Append(w, "."), Len(v) + 2, Len(w) + 1) = <<>> <=> v = w)
         /\ IsPrefix(Append(v, "."), Append(v, "."))
<1> DEFINE chars == STRING \cup {"."}
           a == Append(v, ".")
           b == Append(w, ".")
<1> v \in Seq(chars) /\ w \in Seq(chars)
  OBVIOUS
<1>1. /\ a \in Seq(chars) /\ Len(a) = Len(v) + 1
      /\ \A i \in 1 .. Len(v) : a[i] = v[i]
  BY AppendProperties
<1>2. /\ b \in Seq(chars) /\ Len(b) = Len(w) + 1
      /\ \A i \in 1 .. Len(w) : b[i] = w[i]
  BY AppendProperties
<1>3. Len(v) \in Nat /\ Len(w) \in Nat
  OBVIOUS
<1> HIDE DEF a, b, chars
<1>4. IsPrefix(a, a)
  BY <1>1 DEF IsPrefix
<1>5. ASSUME IsPrefix(a, b)
      PROVE  SubSeq(b, Len(v) + 2, Len(w) + 1) = <<>> <=> v = w
  <2>1. Len(v) <= Len(w) /\ SubSeq(a, 1, Len(a)) = SubSeq(b, 1, Len(a))
    BY <1>1, <1>2, <1>3, <1>5 DEF IsPrefix
  <2>2. CASE Len(v) = Len(w)
    <3>1. SubSeq(b, Len(v) + 2, Len(w) + 1) = <<>>
      BY <1>2, <1>3, <2>2, SubSeqEmpty
    <3>2. a = b
      BY <1>1, <1>2, <2>1, <2>2, SubSeqFull
    <3>3. \A i \in 1 .. Len(v) : v[i] = w[i]
      BY <1>1, <1>2, <2>2, <3>2
    <3>4. v = w
      BY <2>2, <3>3
    <3> QED
      BY <3>1, <3>4
  <2>3. CASE Len(v) # Len(w)
    <3>1. /\ Len(SubSeq(b, Len(v) + 2, Len(w) + 1)) # 0
          /\ SubSeq(b, Len(v) + 2, Len(w) + 1) \in Seq(chars)
      BY <1>2, <1>3, <2>1, <2>3, SubSeqProperties
    <3>2. SubSeq(b, Len(v) + 2, Len(w) + 1) # <<>>
      BY <3>1, EmptySeq
    <3>3. v # w
      BY <2>3
    <3> QED
      BY <3>2, <3>3
  <2> QED
    BY <2>2, <2>3
<1> QED
  BY <1>4, <1>5 DEF a, b

(* What print_restore_table calls restored.                                *)
LEMMA TableRows ==
  ASSUME setting \in Settings, NEW v \in Volumes, NEW m, NEW row \in RestoreTable(v, m)
  PROVE  /\ row.volume = v
         /\ row.state = "restored" <=>
              /\ row.raw.rest = <<>>
              /\ row.raw.snap \in Archived(m)
              /\ [volume |-> v, snap |-> row.raw.snap] \in setting.restored
<1> DEFINE archived == {[rest |-> <<>>, snap |-> t] : t \in Archived(m)}
           restored == Strip(v, setting.restored)
<1>1. PICK x \in archived \cup restored :
        row = [volume |-> v, raw |-> x,
               state |-> CASE x \notin restored -> "not-restored"
                           [] x \notin archived -> "restored-only"
                           [] OTHER -> "restored"]
  BY DEF RestoreTable
<1> HIDE DEF archived, restored
<1>2. row.volume = v /\ row.raw = x
  BY <1>1
<1>3. row.state = "restored" <=> x \in archived /\ x \in restored
  BY <1>1
<1>4. v \in Seq(STRING) /\ \A e \in setting.restored : e \in DirEntry
  BY VolumeNames, SettingsAssumption
<1>5. ASSUME x \in archived, x \in restored
      PROVE  /\ x.rest = <<>>
             /\ x.snap \in Archived(m)
             /\ [volume |-> v, snap |-> x.snap] \in setting.restored
  <2>1. PICK t \in Archived(m) : x = [rest |-> <<>>, snap |-> t]
    BY <1>5 DEF archived
  <2>2. PICK e \in Prefixed(v, setting.restored) :
          x = [rest |-> SubSeq(Append(e.volume, "."), Len(v) + 2, Len(e.volume) + 1),
               snap |-> e.snap]
    BY <1>5 DEF restored, Strip
  <2>3. e \in DirEntry /\ e \in setting.restored /\ IsPrefix(Append(v, "."), Append(e.volume, "."))
    BY <1>4, <2>2 DEF Prefixed
  <2>4. x.rest = <<>> /\ x.snap = t /\ x.snap = e.snap
    BY <2>1, <2>2
  <2>5. SubSeq(Append(e.volume, "."), Len(v) + 2, Len(e.volume) + 1) = <<>>
    BY <2>2, <2>4
  <2>6. e.volume = v
    BY <1>4, <2>3, <2>5, StrippedWhole DEF DirEntry
  <2>7. e = [volume |-> v, snap |-> x.snap]
    BY <2>3, <2>4, <2>6 DEF DirEntry
  <2> QED
    BY <2>1, <2>3, <2>4, <2>7
<1>6. ASSUME x.rest = <<>>, x.snap \in Archived(m),
             [volume |-> v, snap |-> x.snap] \in setting.restored
      PROVE  x \in archived /\ x \in restored
  <2> DEFINE e == [volume |-> v, snap |-> x.snap]
  <2>1. x.snap # None
    <3>1. x.snap \in Nat
      BY <1>6, SnapsAssumption DEF Archived
    <3> QED
      BY <3>1, UMaxAssumption
  <2>2. e \in Prefixed(v, setting.restored)
    BY <1>4, <1>6, <2>1, StrippedWhole DEF Prefixed
  <2>3. SubSeq(Append(v, "."), Len(v) + 2, Len(v) + 1) = <<>>
    BY <1>4, StrippedWhole
  <2>4. [rest |-> <<>>, snap |-> x.snap] \in restored
    <3>1. /\ e.volume = v
          /\ e.snap = x.snap
      OBVIOUS
    <3> HIDE DEF e
    <3>2. [rest |-> SubSeq(Append(e.volume, "."), Len(v) + 2, Len(e.volume) + 1),
           snap |-> e.snap] \in restored
      BY <2>2 DEF restored, Strip
    <3> QED
      BY <2>3, <3>1, <3>2
  <2>5. x = [rest |-> <<>>, snap |-> x.snap]
    <3>1. CASE x \in archived
      BY <3>1 DEF archived
    <3>2. CASE x \in restored
      BY <1>6, <3>2 DEF restored, Strip
    <3> QED
      BY <3>1, <3>2
  <2>6. x \in archived
    BY <1>6, <2>5 DEF archived
  <2> QED
    BY <2>4, <2>5, <2>6
<1> QED
  BY <1>2, <1>3, <1>5, <1>6

(* A process starts with nothing printed, and visits volumes.              *)
ReportInv ==
  /\ Idle => report = {}
  /\ todo \subseteq Volumes
  /\ RestoredRowsAreSkipped

LEMMA ReportInit == Init => ReportInv
BY DEF Init, ReportInv, RestoredRowsAreSkipped

LEMMA ReportExit ==
  ASSUME Exit
  PROVE  ReportInv'
BY DEF Exit, ReportInv, RestoredRowsAreSkipped

(* A step that prints nothing and archives nothing.                        *)
LEMMA ReportFrame ==
  ASSUME ReportInv, UNCHANGED <<setting, archives, report>>,
         todo' \subseteq Volumes, Idle' => Idle \/ report = {},
         cmd' = cmd \/ report = {}
  PROVE  ReportInv'
BY DEF ReportInv, RestoredRowsAreSkipped

LEMMA ReportShow ==
  ASSUME ConfigInv, ReportInv, NEW v \in todo, ShowVolume(v)
  PROVE  ReportInv'
<1>1. /\ pc = "volumes" /\ pc' = pc
      /\ todo' \subseteq todo
      /\ UNCHANGED <<setting, archives, cmd>>
      /\ report' = report \cup Printed(v)
      /\ v \in Volumes /\ setting \in Settings
  BY DEF ShowVolume, Enter, ReportInv, ConfigInv
<1>2. ASSUME cmd = "ls_restore", NEW row \in report'
      PROVE  row.state = "restored" <=>
               /\ row.raw.rest = <<>>
               /\ row.raw.snap \in Archived(archives[row.volume])
               /\ [volume |-> row.volume, snap |-> row.raw.snap] \in setting.restored
  <2>1. CASE row \in report
    BY <1>2, <2>1 DEF ReportInv, RestoredRowsAreSkipped
  <2>2. CASE row \notin report
    <3>1. row \in Printed(v)
      BY <1>1, <2>2
    <3>2. row \in RestoreTable(v, archives[v])
      BY <1>2, <3>1 DEF Printed
    <3>3. /\ row.volume = v
          /\ row.state = "restored" <=>
               /\ row.raw.rest = <<>>
               /\ row.raw.snap \in Archived(archives[v])
               /\ [volume |-> v, snap |-> row.raw.snap] \in setting.restored
      BY <1>1, <3>2, TableRows
    <3> QED
      BY <3>3, Zenon
  <2> QED
    BY <2>1, <2>2
<1>3. RestoredRowsAreSkipped'
  BY <1>1, <1>2 DEF RestoredRowsAreSkipped
<1> QED
  BY <1>1, <1>3 DEF ReportInv, Idle

LEMMA ReportStep == ConfigInv /\ ReportInv /\ [Next]_vars => ReportInv'
<1> SUFFICES ASSUME ConfigInv, ReportInv, [Next]_vars
             PROVE  ReportInv'
  OBVIOUS
<1> USE DEF loop, stats
<1>1. ASSUME NEW e \in setting.later, SnapCreate(e)
      PROVE  ReportInv'
  BY <1>1, ReportFrame DEF SnapCreate, ReportInv, Idle
<1>2. ASSUME NEW c \in setting.commands, Start(c)
      PROVE  ReportInv'
  BY <1>2, ReportFrame DEF Start, ReportInv, Idle
<1>3. CASE LoadConfig
  BY <1>3, ReportFrame DEF LoadConfig, ReportInv, Idle
<1>4. CASE RefuseConfig \/ RefuseSudo \/ FinishCommand \/ Fail \/ \E v \in todo : BrokenVolume(v)
  BY <1>4, ReportExit DEF RefuseConfig, RefuseSudo, FinishCommand, Fail, BrokenVolume
<1>5. ASSUME NEW s \in todo_syncs, NextSync(s)
      PROVE  ReportInv'
  BY <1>5, ReportFrame DEF NextSync, ReportInv, Idle
<1>6. CASE InspectSource
  <2>1. todo' \subseteq Volumes
    BY <1>6 DEF InspectSource, Found
  <2> QED
    BY <1>6, <2>1, ReportFrame DEF InspectSource, ReportInv, Idle
<1>7. CASE FinishSync \/ FinishVolume \/ EnsureSudo \/ StartSend
  BY <1>7, ReportFrame DEF FinishSync, FinishVolume, EnsureSudo, StartSend, ReportInv, Idle
<1>8. CASE FinishSend
  <2>1. cmd \in {"run", "measure"} /\ cmd' = cmd /\ todo' = todo /\ pc' = "step"
    BY <1>8 DEF FinishSend
  <2> QED
    BY <2>1 DEF ReportInv, RestoredRowsAreSkipped, Idle
<1>9. ASSUME NEW v \in todo, SkipVolume(v) \/ RunVolume(v) \/ MeasureVolume(v)
      PROVE  ReportInv'
  BY <1>9, ReportFrame DEF SkipVolume, RunVolume, MeasureVolume, Enter, ReportInv, Idle
<1>10. ASSUME NEW v \in todo, DryrunVolume(v)
       PROVE  ReportInv'
  <2>1. cmd = "dryrun" /\ cmd' = cmd /\ todo' \subseteq todo /\ pc' = pc /\ pc = "volumes"
    BY <1>10 DEF DryrunVolume, Enter
  <2> QED
    BY <2>1 DEF ReportInv, RestoredRowsAreSkipped, Idle
<1>11. ASSUME NEW v \in todo, ShowVolume(v)
       PROVE  ReportInv'
  BY <1>11, ReportShow
<1>12. CASE Time \/ UNCHANGED vars
  BY <1>12, ReportFrame DEF Time, vars, ReportInv, Idle
<1> QED
  BY <1>1, <1>2, <1>3, <1>4, <1>5, <1>6, <1>7, <1>8, <1>9, <1>10, <1>11, <1>12
  DEF Next, Work

(* Whatever volumes, snapshots and directory entries are called: a row of  *)
(* ls --restore-root says "restored" exactly for an archive of its volume  *)
(* whose subvolume is in the directory (ls.rs:128-157).                    *)
THEOREM RestoredRowsRight == Spec => []RestoredRowsAreSkipped
<1>1. Init => ConfigInv /\ ReportInv
  BY ConfigInit, ReportInit
<1>2. (ConfigInv /\ ReportInv) /\ [Next]_vars => (ConfigInv /\ ReportInv)'
  BY ConfigStep, ReportStep
<1>3. ReportInv => RestoredRowsAreSkipped
  BY DEF ReportInv
<1> QED
  BY <1>1, <1>2, <1>3, PTL DEF Spec

-----------------------------------------------------------------------------
(* What a sync goes over.                                                  *)

Chars == STRING \cup {"*"}

(* A filter of an accepted file is a set of patterns, and selects what     *)
(* they denote.                                                            *)
LEMMA SelectsDenoted ==
  ASSUME NEW filter, filter \subseteq Seq(Chars), NEW v \in Volumes
  PROVE  Selected(filter, v) <=> Denoted(filter, v)
<1>1. v \in Seq(Chars)
  <2>1. v \in Seq(STRING)
    BY VolumeNames
  <2> QED
    BY <2>1 DEF Chars
<1>2. \A p \in filter : WildcardMatch(p, v) <=> Denotes(p, v)
  BY <1>1, MatchesWhatItDenotes
<1> QED
  BY <1>2 DEF Selected, Denoted

LEMMA FilterGiven ==
  ASSUME NEW f, IsFilter(f)
  PROVE  Given(f, Everything) \subseteq Seq(Chars)
<1>1. <<"*">> \in Seq(Chars)
  BY DEF Chars
<1>2. Seq(STRING) \subseteq Seq(Chars)
  BY DEF Chars
<1> QED
  BY <1>1, <1>2 DEF Given, Everything, IsFilter

LEMMA FiltersArePatterns ==
  ASSUME ConfigInv, ~Idle, sync \in DOMAIN config.sync
  PROVE  /\ Source \in Sources
         /\ config.source[Source].filter \subseteq Seq(Chars)
         /\ config.sync[sync].filter \subseteq Seq(Chars)
<1> DEFINE file == setting.file
           src == config.sync[sync].source
<1>1. setting \in Settings /\ file # None /\ config = Filled(file) /\ Accepted(config)
  BY DEF ConfigInv
<1>2. /\ \A n \in DOMAIN file.source : IsFilter(file.source[n].filter)
      /\ \A n \in DOMAIN file.sync : IsFilter(file.sync[n].filter)
  BY <1>1, SettingsAssumption DEF IsSourceSpec, IsSyncSpec
<1>3. /\ DOMAIN config.source = DOMAIN file.source
      /\ \A n \in DOMAIN file.source :
           config.source[n].filter = Given(file.source[n].filter, Everything)
  BY <1>1 DEF Filled
<1>4. /\ DOMAIN config.sync = DOMAIN file.sync
      /\ \A n \in DOMAIN file.sync : config.sync[n] = FillSync(file.sync[n])
  BY <1>1 DEF Filled
<1>5. src \in DOMAIN config.source
  BY <1>1 DEF Accepted, RefersToExisting
<1>6. config.sync[sync].filter = Given(file.sync[sync].filter, Everything)
  <2>1. "filter" \in DOMAIN file.sync[sync]
    BY <1>1, <1>4, SettingsAssumption DEF IsSyncSpec
  <2> QED
    BY <1>4, <2>1 DEF FillSync
<1> HIDE DEF src
<1>7. src \in Sources
  BY <1>1, <1>3, <1>5 DEF Sources
<1>8. config.source[src].filter \subseteq Seq(Chars)
  BY <1>2, <1>3, <1>5, FilterGiven
<1>9. config.sync[sync].filter \subseteq Seq(Chars)
  BY <1>2, <1>4, <1>6, FilterGiven
<1> QED
  BY <1>7, <1>8, <1>9 DEF Source, src

(* What a process starts from, and that of the one sync an accepted file   *)
(* has.                                                                    *)
FreshCache == source_cache = [n \in Sources |-> None] /\ report = {}

(* While an ls goes over the volumes and no snapshot appears, it has       *)
(* printed the selected ones among those it has come to.                   *)
Shown ==
  /\ source_cache[Source] = Listing(config.source[Source])
  /\ todo \subseteq Found(source_cache[Source])
  /\ {row.volume : row \in report} = {v \in Found(source_cache[Source]) \ todo : Matches(v)}

Watched == cmd = "ls" /\ told # None

VisitInv ==
  /\ Idle => FreshCache
  /\ cmd = "ls" => pc \notin {"step", "send"}
  /\ pc \in {"sync", "volumes", "step", "send"} => todo_syncs = {}
  /\ Watched => /\ pc = "sync" \/ todo_syncs # {} => FreshCache
                /\ pc = "volumes" => Shown

LEMMA VisitInit == Init => VisitInv
BY DEF Init, VisitInv, Idle, FreshCache

LEMMA VisitExit ==
  ASSUME Exit
  PROVE  VisitInv'
<1>1. FreshCache'
  BY DEF Exit, FreshCache
<1>2. pc' = "idle" /\ cmd' = None /\ todo_syncs' = {}
  BY DEF Exit
<1> QED
  BY <1>1, <1>2 DEF VisitInv

(* A table has a line for each snapshot of a volume, and none of another.  *)
LEMMA TableVolume ==
  ASSUME NEW v, NEW listed \in SUBSET Snaps, listed # {}, NEW m
  PROVE  {row.volume : row \in SnapshotTable(v, listed, m)} = {v}
<1> DEFINE Line(t) == [volume |-> v, snap |-> t,
                       state |-> CASE t \notin Archived(m) -> "local-only"
                                   [] t \notin listed -> "remote-only"
                                   [] OTHER -> "synced"]
<1>1. SnapshotTable(v, listed, m) = {Line(t) : t \in listed \cup Archived(m)}
  BY DEF SnapshotTable
<1>2. \A t : Line(t).volume = v
  OBVIOUS
<1> HIDE DEF Line
<1> QED
  BY <1>1, <1>2

LEMMA VisitInspect ==
  ASSUME ConfigInv, VisitInv, InspectSource
  PROVE  VisitInv'
<1>1. /\ pc = "sync" /\ pc' = "volumes"
      /\ todo' = Found(source_cache'[Source])
      /\ source_cache' = [source_cache EXCEPT
           ![Source] = IF @ = None THEN Listing(config.source[Source]) ELSE @]
      /\ UNCHANGED <<dir, cmd, config, todo_syncs, sync, report, told>>
  BY DEF InspectSource, stats
<1>2. Source \in Sources /\ Source' = Source
  BY <1>1, FiltersArePatterns DEF ConfigInv, Idle, Source
<1>3. ASSUME Watched
      PROVE  Shown'
  <2>1. source_cache = [n \in Sources |-> None] /\ report = {}
    BY <1>1, <1>3 DEF VisitInv, FreshCache
  <2>2. source_cache'[Source] = Listing(config.source[Source])
    BY <1>1, <1>2, <2>1
  <2>3. Listing(config.source[Source])' = Listing(config.source[Source])
    BY <1>1, <1>2 DEF Listing, Snapshots
  <2>4. todo' = Found(source_cache'[Source])
    BY <1>1
  <2>5. {row.volume : row \in report'} = {}
    BY <1>1, <2>1
  <2>6. source_cache'[Source'] = Listing(config.source[Source])'
    BY <1>2, <2>2, <2>3
  <2>7. todo' = Found(source_cache[Source])'
    BY <1>2, <2>4 DEF Found
  <2> QED
    BY <2>5, <2>6, <2>7 DEF Shown
<1>4. Watched' => Watched
  BY <1>1 DEF Watched
<1>5. cmd' = "ls" => pc' \notin {"step", "send"}
  BY <1>1
<1>6. todo_syncs' = {}
  BY <1>1 DEF VisitInv
<1> QED
  BY <1>1, <1>3, <1>4, <1>5, <1>6 DEF VisitInv, Idle

(* Nothing that Shown speaks of has changed, but the volumes to come to    *)
(* and the lines printed.                                                  *)
LEMMA ShownFrame ==
  ASSUME UNCHANGED <<dir, config, sync, source_cache>>
  PROVE  /\ Source' = Source
         /\ Listing(config.source[Source])' = Listing(config.source[Source])
         /\ Found(source_cache[Source])' = Found(source_cache[Source])
         /\ \A v : Matches(v)' = Matches(v)
BY DEF Source, Listing, Snapshots, Found, Matches

LEMMA VisitSkip ==
  ASSUME VisitInv, NEW v \in todo, SkipVolume(v)
  PROVE  VisitInv'
<1>1. /\ pc = "volumes" /\ ~Matches(v) /\ todo' = todo \ {v}
      /\ UNCHANGED <<dir, pc, cmd, config, todo_syncs, sync, source_cache, report, told>>
  BY DEF SkipVolume, stats
<1>2. ASSUME Watched
      PROVE  Shown'
  <2>1. Shown
    BY <1>1, <1>2 DEF VisitInv
  <2>2. {w \in Found(source_cache[Source]) \ todo' : Matches(w)} =
          {w \in Found(source_cache[Source]) \ todo : Matches(w)}
    BY <1>1
  <2> QED
    BY <1>1, <2>1, <2>2, ShownFrame DEF Shown
<1>3. Watched' => Watched
  BY <1>1 DEF Watched
<1> QED
  BY <1>1, <1>2, <1>3 DEF VisitInv, Idle

LEMMA VisitShow ==
  ASSUME VisitInv, NEW v \in todo, ShowVolume(v)
  PROVE  VisitInv'
<1>1. /\ pc = "volumes" /\ Matches(v) /\ todo' = todo \ {v}
      /\ report' = report \cup Printed(v)
      /\ UNCHANGED <<dir, pc, cmd, config, todo_syncs, sync, source_cache, told>>
  BY DEF ShowVolume, Enter
<1>2. ASSUME Watched
      PROVE  Shown'
  <2>1. Shown
    BY <1>1, <1>2 DEF VisitInv
  <2>2. v \in Found(source_cache[Source])
    BY <2>1 DEF Shown
  <2>3. Listed(v) # {} /\ Listed(v) \in SUBSET Snaps
    <3>1. v \in Volumes /\ source_cache[Source][v] # {}
      BY <2>2 DEF Found
    <3>2. source_cache[Source][v] \subseteq Snaps
      BY <2>1, <3>1 DEF Shown, Listing, Snapshots
    <3> QED
      BY <3>1, <3>2 DEF Listed
  <2>4. Printed(v) = SnapshotTable(v, Listed(v), archives[v])
    BY <1>2 DEF Printed, Watched
  <2>5. {row.volume : row \in Printed(v)} = {v}
    BY <2>3, <2>4, TableVolume
  <2>6. {row.volume : row \in report'} = {row.volume : row \in report} \cup {v}
    BY <1>1, <2>5
  <2>7. {w \in Found(source_cache[Source]) \ todo' : Matches(w)} =
          {w \in Found(source_cache[Source]) \ todo : Matches(w)} \cup {v}
    BY <1>1, <2>2
  <2>8. {row.volume : row \in report'} = {w \in Found(source_cache[Source]) \ todo' : Matches(w)}
    BY <2>1, <2>6, <2>7, Zenon DEF Shown
  <2> QED
    BY <1>1, <2>1, <2>8, ShownFrame DEF Shown
<1>3. Watched' => Watched
  BY <1>1 DEF Watched
<1> QED
  BY <1>1, <1>2, <1>3 DEF VisitInv, Idle

(* A step of a command that is not ls, or that does not concern it.        *)
LEMMA VisitOther ==
  ASSUME VisitInv, cmd # "ls", cmd' = cmd, ~Idle, ~Idle',
         todo_syncs = {}, todo_syncs' = todo_syncs
  PROVE  VisitInv'
BY DEF VisitInv, Watched

LEMMA VisitStep == ConfigInv /\ VisitInv /\ [Next]_vars => VisitInv'
<1> SUFFICES ASSUME ConfigInv, VisitInv, [Next]_vars
             PROVE  VisitInv'
  OBVIOUS
<1> USE DEF loop, stats
<1>1. ASSUME NEW e \in setting.later, SnapCreate(e)
      PROVE  VisitInv'
  BY <1>1 DEF SnapCreate, VisitInv, Idle, FreshCache, Watched
<1>2. ASSUME NEW c \in setting.commands, Start(c)
      PROVE  VisitInv'
  BY <1>2 DEF Start, ConfigInv, VisitInv, Idle, FreshCache
<1>3. CASE LoadConfig
  BY <1>3 DEF LoadConfig, VisitInv, Idle, FreshCache
<1>4. CASE RefuseConfig \/ RefuseSudo \/ FinishCommand \/ Fail \/ \E v \in todo : BrokenVolume(v)
  BY <1>4, VisitExit DEF RefuseConfig, RefuseSudo, FinishCommand, Fail, BrokenVolume
<1>5. ASSUME NEW s \in todo_syncs, NextSync(s)
      PROVE  VisitInv'
  <2>1. todo_syncs' = {}
    <3>1. pc = "syncs" /\ ~Idle
      BY <1>5 DEF NextSync, Idle
    <3>2. AtMostOne(DOMAIN config.sync) /\ todo_syncs \subseteq DOMAIN config.sync
      BY <3>1 DEF ConfigInv, Accepted
    <3> QED
      BY <1>5, <3>2 DEF AtMostOne, NextSync
  <2> QED
    BY <1>5, <2>1 DEF NextSync, VisitInv, Idle, FreshCache, Watched
<1>6. CASE InspectSource
  BY <1>6, VisitInspect
<1>7. CASE FinishSync
  BY <1>7 DEF FinishSync, VisitInv, Idle
<1>8. CASE FinishVolume \/ EnsureSudo \/ StartSend
  BY <1>8 DEF FinishVolume, EnsureSudo, StartSend, VisitInv, Idle, Watched
<1>9. CASE FinishSend
  BY <1>9 DEF FinishSend, VisitInv, Idle, Watched
<1>10. ASSUME NEW v \in todo, SkipVolume(v)
       PROVE  VisitInv'
  BY <1>10, VisitSkip
<1>11. ASSUME NEW v \in todo, RunVolume(v) \/ MeasureVolume(v) \/ DryrunVolume(v)
       PROVE  VisitInv'
  <2>1. cmd # "ls" /\ cmd' = cmd /\ ~Idle /\ ~Idle' /\ todo_syncs' = todo_syncs
        /\ todo_syncs = {}
    BY <1>11 DEF RunVolume, MeasureVolume, DryrunVolume, Enter, Idle, VisitInv
  <2> QED
    BY <2>1, VisitOther
<1>12. ASSUME NEW v \in todo, ShowVolume(v)
       PROVE  VisitInv'
  BY <1>12, VisitShow
<1>13. CASE Time \/ UNCHANGED vars
  <2>1. UNCHANGED <<dir, pc, cmd, loop, report, told>>
    BY <1>13 DEF Time, vars
  <2>2. Shown' = Shown
    BY <2>1, ShownFrame DEF Shown
  <2> QED
    BY <2>1, <2>2 DEF VisitInv, Idle, FreshCache, Watched
<1> QED
  BY <1>1, <1>2, <1>3, <1>4, <1>5, <1>6, <1>7, <1>8, <1>9, <1>10, <1>11, <1>12, <1>13
  DEF Next, Work

LEMMA VisitEnd ==
  ConfigInv /\ VisitInv => (FinishSync /\ cmd = "ls" /\ told # None =>
    {row.volume : row \in report} =
      {v \in Volumes : /\ Snapshots(v) # {}
                       /\ Denoted(config.source[Source].filter, v)
                       /\ Denoted(config.sync[sync].filter, v)})
<1> SUFFICES ASSUME ConfigInv, VisitInv, FinishSync, cmd = "ls", told # None
             PROVE  {row.volume : row \in report} =
                      {v \in Volumes : /\ Snapshots(v) # {}
                                       /\ Denoted(config.source[Source].filter, v)
                                       /\ Denoted(config.sync[sync].filter, v)}
  OBVIOUS
<1>1. pc = "volumes" /\ todo = {} /\ ~Idle /\ sync \in DOMAIN config.sync
  BY DEF FinishSync, ConfigInv, Idle
<1>2. Shown
  BY <1>1 DEF VisitInv, Watched
<1>3. /\ config.source[Source].filter \subseteq Seq(Chars)
      /\ config.sync[sync].filter \subseteq Seq(Chars)
  BY <1>1, FiltersArePatterns
<1>4. \A v \in Volumes : /\ Matches(v) <=> Denoted(config.sync[sync].filter, v)
                         /\ Selected(config.source[Source].filter, v) <=>
                              Denoted(config.source[Source].filter, v)
  BY <1>3, SelectsDenoted DEF Matches
<1>5. Found(source_cache[Source]) =
        {v \in Volumes : Selected(config.source[Source].filter, v) /\ Snapshots(v) # {}}
  BY <1>2 DEF Shown, Found, Listing
<1>6. {row.volume : row \in report} = {v \in Found(source_cache[Source]) : Matches(v)}
  BY <1>1, <1>2 DEF Shown
<1> QED
  BY <1>4, <1>5, <1>6

(* For all filters, names, snapshots and orders of a hash map: a sync goes *)
(* over the volumes that have snapshots and that both filters denote, over *)
(* all of them and no others (inspect_source.rs:70, mod.rs:164).    *)
THEOREM AlwaysVisitsSelected == Spec => VisitsSelected
<1>1. Init => ConfigInv /\ VisitInv
  BY ConfigInit, VisitInit
<1>2. (ConfigInv /\ VisitInv) /\ [Next]_vars => (ConfigInv /\ VisitInv)'
  BY ConfigStep, VisitStep
<1> QED
  BY <1>1, <1>2, VisitEnd, PTL DEF Spec, VisitsSelected

-----------------------------------------------------------------------------
(* Plans.                                                                  *)

OlderStep == {x \in Step : x.parent = None \/ x.parent < x.snap}

LEMMA NoneIsNoSnap == None \notin Snaps /\ None \notin Nat
<1>1. None \notin Int
  BY UMaxAssumption
<1>2. None \notin Nat
  BY <1>1
<1> QED
  BY <1>2, SnapsAssumption

(* A nonempty set of snapshots has a newest one.                           *)
LEMMA NewestIs ==
  ASSUME NEW s \in SUBSET Snaps, s # {}
  PROVE  Newest(s) \in s /\ \A u \in s : u <= Newest(s)
<1> DEFINE pick == [x \in SUBSET Snaps |-> CHOOSE t \in x : TRUE]
           Q == {x \in SUBSET Snaps : x # {} => \E t \in x : \A u \in x : u <= t}
<1>1. Picks(pick, Snaps)
  <2>1. ASSUME NEW x \in SUBSET Snaps, x # {}
        PROVE  (CHOOSE t \in x : TRUE) \in x
    BY <2>1, Zenon
  <2> QED
    BY <2>1 DEF Picks
<1>2. ASSUME NEW x \in SUBSET Snaps, x # {}, x \ {pick[x]} \in Q
      PROVE  x \in Q
  <2>1. pick[x] \in x
    BY <1>1, <1>2 DEF Picks
  <2> HIDE DEF pick
  <2>2. x \subseteq Nat
    BY SnapsAssumption
  <2>3. CASE x \ {pick[x]} = {}
    <3>1. \A u \in x : u = pick[x] /\ u <= pick[x]
      BY <2>1, <2>2, <2>3
    <3> QED
      BY <2>1, <3>1
  <2>4. CASE x \ {pick[x]} # {}
    <3>1. PICK t \in x \ {pick[x]} : \A u \in x \ {pick[x]} : u <= t
      BY <1>2, <2>4
    <3>2. CASE t <= pick[x]
      <4> HIDE DEF Q
      <4>1. ASSUME NEW u \in x
            PROVE  u <= pick[x]
        <5>1. u \in Nat /\ t \in Nat /\ pick[x] \in Nat
          BY <2>1, <2>2
        <5>2. u = pick[x] \/ u <= t
          BY <3>1
        <5> QED
          BY <3>2, <5>1, <5>2
      <4>2. \E w \in x : \A u \in x : u <= w
        BY <2>1, <4>1, Zenon
      <4> QED
        BY <4>2 DEF Q
    <3>3. CASE ~(t <= pick[x])
      <4>1. \A u \in x : u <= t
        BY <2>1, <2>2, <3>1, <3>3
      <4> QED
        BY <3>1, <4>1
    <3> QED
      BY <3>2, <3>3
  <2> QED
    BY <2>3, <2>4
<1>3. SUBSET Snaps \subseteq Q
  <2>1. {} \in Q
    OBVIOUS
  <2>2. IsFiniteSet(Snaps)
    BY SnapsAssumption
  <2> HIDE DEF pick, Q
  <2> QED
    BY <1>1, <1>2, <2>1, <2>2, SubsetInduction
<1>4. \E t \in s : \A u \in s : u <= t
  BY <1>3
<1> QED
  BY <1>4, Zenon DEF Newest

OlderParents(m) == \A t \in Archived(m) : m[t].parent = None \/ m[t].parent < t

(* compute_depth is defined on metadata whose parents are older.           *)
LEMMA DepthsAre ==
  ASSUME NEW m \in [Snaps -> Archive \cup {None}], OlderParents(m)
  PROVE  /\ Depths(m) \in [Snaps -> Nat]
         /\ \A t \in Snaps : Depths(m)[t] = IF m[t] = None \/ m[t].parent = None THEN 0
                                            ELSE Depths(m)[m[t].parent] + 1
<1> DEFINE Root(t) == m[t] = None \/ m[t].parent = None
           pick == [x \in SUBSET Snaps |-> Newest(x)]
           Fits(d, s) == \A t \in s : d[t] = IF Root(t) THEN 0 ELSE d[m[t].parent] + 1
           Q == {s \in SUBSET Snaps : \E d \in [Snaps -> 0 .. Cardinality(s)] : Fits(d, s)}
<1>1. Picks(pick, Snaps)
  BY NewestIs DEF Picks
<1>2. IsFiniteSet(Snaps) /\ Snaps \subseteq Nat
  BY SnapsAssumption
<1>3. {} \in Q
  <2>1. Cardinality({}) = 0
    BY FS_EmptySet
  <2>2. [t \in Snaps |-> 0] \in [Snaps -> 0 .. Cardinality({})]
    BY <2>1
  <2> QED
    BY <2>2
<1>4. ASSUME NEW t \in Snaps, ~Root(t)
      PROVE  m[t].parent \in Snaps /\ m[t].parent < t
  BY <1>4 DEF Archive, OlderParents, Archived
<1>5. ASSUME NEW s \in SUBSET Snaps, s # {}, s \ {pick[s]} \in Q
      PROVE  s \in Q
  <2> DEFINE x == pick[s]
             k == Cardinality(s)
  <2>1. x \in s /\ k \in Nat \ {0} /\ Cardinality(s \ {x}) = k - 1
    <3>1. /\ pick[s] \in s /\ s \ {pick[s]} \in SUBSET Snaps
          /\ Cardinality(s) \in Nat \ {0}
          /\ Cardinality(s \ {pick[s]}) = Cardinality(s) - 1
      <4> HIDE DEF pick, Q, x, k
      <4>1. s # {} /\ IsFiniteSet(Snaps)
        BY <1>2, <1>5
      <4> QED
        BY <1>1, <4>1, PickSmaller
    <3> HIDE DEF pick
    <3> QED
      BY <3>1
  <2>2. \A u \in s : u <= x
    BY <1>5, NewestIs
  <2>3. PICK d \in [Snaps -> 0 .. k - 1] : Fits(d, s \ {x})
    BY <1>5, <2>1
  <2> HIDE DEF pick, x, k
  <2> DEFINE e == [d EXCEPT ![x] = IF Root(x) THEN 0 ELSE d[m[x].parent] + 1]
  <2>4. e \in [Snaps -> 0 .. k]
    <3>1. ~Root(x) => d[m[x].parent] \in 0 .. k - 1
      BY <1>4, <2>1, <2>3
    <3>2. (IF Root(x) THEN 0 ELSE d[m[x].parent] + 1) \in 0 .. k
      <4> HIDE DEF Root
      <4> QED
        BY <2>1, <3>1
    <3>3. \A t \in Snaps : d[t] \in 0 .. k
      BY <2>1, <2>3
    <3> HIDE DEF Root
    <3> QED
      BY <2>3, <3>2, <3>3
  <2>5. ASSUME NEW t \in s
        PROVE  e[t] = IF Root(t) THEN 0 ELSE e[m[t].parent] + 1
    <3>1. t <= x /\ t \in Nat /\ x \in Nat /\ t \in Snaps /\ x \in Snaps
      BY <1>2, <2>1, <2>2
    <3>2. ~Root(t) => m[t].parent # x /\ m[t].parent \in Snaps
      BY <1>2, <1>4, <3>1
    <3>3. ~Root(t) => e[m[t].parent] = d[m[t].parent]
      BY <2>3, <3>2
    <3>4. e[t] = IF t = x THEN (IF Root(x) THEN 0 ELSE d[m[x].parent] + 1) ELSE d[t]
      BY <2>3, <3>1
    <3>5. t # x => d[t] = IF Root(t) THEN 0 ELSE d[m[t].parent] + 1
      BY <2>3
    <3> HIDE DEF e, Root
    <3>6. CASE t = x
      BY <3>3, <3>4, <3>6, Zenon
    <3>7. CASE t # x
      BY <3>3, <3>4, <3>5, <3>7, Zenon
    <3> QED
      BY <3>6, <3>7
  <2> HIDE DEF e, Root
  <2> QED
    BY <2>4, <2>5 DEF k
<1>6. Snaps \in Q
  <2>1. SUBSET Snaps \subseteq Q
    <3> HIDE DEF pick, Q
    <3> QED
      BY <1>1, <1>2, <1>3, <1>5, SubsetInduction
  <2> QED
    BY <2>1
<1>7. Depths(m) = CHOOSE d \in [Snaps -> 0 .. Cardinality(Snaps)] : Fits(d, Snaps)
  BY Zenon DEF Depths
<1>8. \E d \in [Snaps -> 0 .. Cardinality(Snaps)] : Fits(d, Snaps)
  BY <1>6
<1>9. Depths(m) \in [Snaps -> 0 .. Cardinality(Snaps)] /\ Fits(Depths(m), Snaps)
  <2> HIDE DEF Fits
  <2> QED
    BY <1>7, <1>8, Zenon
<1>10. Cardinality(Snaps) \in Nat
  BY <1>2, FS_CardinalityType
<1> QED
  BY <1>9, <1>10

Acc == [steps : Seq(OlderStep), dest_set : SUBSET Snaps, depth : [Snaps -> Nat],
        last_full : Snaps \cup {None}]

(* A step of the loop adds one step, for its snapshot: a full send, or an  *)
(* incremental one that no limit forbids.                                  *)
Adding(acc, new, x, policy) ==
  /\ new.steps = Append(acc.steps, x)
  /\ new.dest_set = acc.dest_set \cup {x.snap}
  /\ \/ /\ x.parent = None
        /\ new.depth = [acc.depth EXCEPT ![x.snap] = 0]
        /\ new.last_full = x.snap
     \/ /\ x.parent \in acc.dest_set
        /\ new.depth = [acc.depth EXCEPT ![x.snap] = acc.depth[x.parent] + 1]
        /\ new.last_full = acc.last_full
        /\ ~ForceFull(acc, x.parent, x.snap, policy)

LEMMA PlanStepIs ==
  ASSUME NEW acc \in Acc, NEW t \in Snaps, NEW listed \in SUBSET Snaps, NEW policy
  PROVE  /\ PlanStep(acc, t, listed, policy) \in Acc
         /\ \E x \in OlderStep : /\ x.snap = t
                                 /\ Adding(acc, PlanStep(acc, t, listed, policy), x, policy)
<1> DEFINE older == {p \in listed : p \in acc.dest_set /\ p < t}
           full == older = {} \/ ForceFull(acc, Newest(older), t, policy)
           par == IF full THEN None ELSE Newest(older)
           x == [snap |-> t, parent |-> par]
           depth == [acc.depth EXCEPT ![t] = IF full THEN 0 ELSE acc.depth[par] + 1]
           last == IF full THEN t ELSE acc.last_full
           new == PlanStep(acc, t, listed, policy)
<1>1. new = [steps |-> Append(acc.steps, x), dest_set |-> acc.dest_set \cup {t},
             depth |-> depth, last_full |-> last]
  BY DEF PlanStep
<1>2. ~full => Newest(older) \in older
  <2>1. older \in SUBSET Snaps
    OBVIOUS
  <2>2. ~full => older # {}
    OBVIOUS
  <2> HIDE DEF older
  <2> QED
    BY <2>1, <2>2, NewestIs
<1>3. ~full => /\ par \in Snaps /\ par < t /\ par \in acc.dest_set
               /\ ~ForceFull(acc, par, t, policy)
  BY <1>2
<1>4. full => par = None
  OBVIOUS
<1> HIDE DEF older, full, par, new
<1>5. x \in OlderStep /\ x.snap = t /\ x.parent = par
  BY <1>3, <1>4 DEF OlderStep, Step
<1>6. /\ acc.steps \in Seq(OlderStep) /\ acc.dest_set \in SUBSET Snaps
      /\ acc.depth \in [Snaps -> Nat] /\ acc.last_full \in Snaps \cup {None}
  BY DEF Acc
<1>7. Append(acc.steps, x) \in Seq(OlderStep)
  <2> HIDE DEF x
  <2> QED
    BY <1>5, <1>6, AppendProperties
<1>8. depth \in [Snaps -> Nat]
  <2>1. (IF full THEN 0 ELSE acc.depth[par] + 1) \in Nat
    BY <1>3, <1>6
  <2> QED
    BY <1>6, <2>1
<1>9. last \in Snaps \cup {None} /\ acc.dest_set \cup {t} \in SUBSET Snaps
  BY <1>6
<1>10. CASE full
  <2>1. depth = [acc.depth EXCEPT ![t] = 0] /\ last = t /\ par = None
    BY <1>4, <1>10
  <2> HIDE DEF x, depth, last
  <2>2. new \in Acc
    BY <1>1, <1>7, <1>8, <1>9 DEF Acc
  <2>3. Adding(acc, new, x, policy)
    BY <1>1, <1>5, <2>1 DEF Adding
  <2> QED
    BY <1>5, <2>2, <2>3 DEF new
<1>11. CASE ~full
  <2>1. depth = [acc.depth EXCEPT ![t] = acc.depth[par] + 1] /\ last = acc.last_full
    BY <1>11
  <2> HIDE DEF x, depth, last
  <2>2. new \in Acc
    BY <1>1, <1>7, <1>8, <1>9 DEF Acc
  <2>3. Adding(acc, new, x, policy)
    BY <1>1, <1>3, <1>5, <1>11, <2>1 DEF Adding
  <2> QED
    BY <1>5, <2>2, <2>3 DEF new
<1> QED
  BY <1>10, <1>11

SnapsOf(plan) == {plan[i].snap : i \in DOMAIN plan}

(* No snapshot is sent twice.                                              *)
Distinct(plan) == \A i, j \in DOMAIN plan : plan[i].snap = plan[j].snap => i = j

LEMMA SnapsOfAppend ==
  ASSUME NEW s \in Seq(OlderStep), NEW x \in OlderStep
  PROVE  /\ SnapsOf(Append(s, x)) = SnapsOf(s) \cup {x.snap}
         /\ Distinct(s) /\ x.snap \notin SnapsOf(s) => Distinct(Append(s, x))
<1>1. /\ Append(s, x) \in Seq(OlderStep) /\ Len(Append(s, x)) = Len(s) + 1
      /\ \A i \in 1 .. Len(s) : Append(s, x)[i] = s[i]
      /\ Append(s, x)[Len(s) + 1] = x
  BY AppendProperties
<1>2. Len(s) \in Nat /\ DOMAIN s = 1 .. Len(s) /\ DOMAIN Append(s, x) = 1 .. Len(s) + 1
  BY <1>1
<1> DEFINE a == Append(s, x)
<1> HIDE DEF a
<1>3. 1 .. Len(s) + 1 = (1 .. Len(s)) \cup {Len(s) + 1}
  BY <1>2
<1>4. SnapsOf(a) = {a[i].snap : i \in 1 .. Len(s)} \cup {a[Len(s) + 1].snap}
  BY <1>2, <1>3 DEF SnapsOf, a
<1>5. {a[i].snap : i \in 1 .. Len(s)} = {s[i].snap : i \in 1 .. Len(s)}
  BY <1>1 DEF a
<1>6. SnapsOf(a) = SnapsOf(s) \cup {x.snap}
  BY <1>1, <1>2, <1>4, <1>5 DEF SnapsOf, a
<1>7. ASSUME Distinct(s), x.snap \notin SnapsOf(s)
      PROVE  Distinct(a)
  <2> SUFFICES ASSUME NEW i \in 1 .. Len(s) + 1, NEW j \in 1 .. Len(s) + 1, a[i].snap = a[j].snap
               PROVE  i = j
    BY <1>2 DEF Distinct, a
  <2>1. \A k \in 1 .. Len(s) : a[k].snap # x.snap
    BY <1>1, <1>2, <1>7 DEF SnapsOf, a
  <2>2. a[Len(s) + 1].snap = x.snap
    BY <1>1 DEF a
  <2>3. CASE i \in 1 .. Len(s) /\ j \in 1 .. Len(s)
    BY <1>1, <1>2, <1>7, <2>3 DEF Distinct, a
  <2> QED
    BY <1>3, <2>1, <2>2, <2>3
<1> QED
  BY <1>6, <1>7 DEF a

(* The fold over what is missing, and where it begins.                     *)
Fulls(m) == {t \in Archived(m) : m[t].parent = None}
PlanStart(m) ==
  [steps |-> <<>>, dest_set |-> Archived(m), depth |-> Depths(m),
   last_full |-> IF Fulls(m) = {} THEN None ELSE Newest(Fulls(m))]

LEMMA PlanStartType ==
  ASSUME NEW m \in [Snaps -> Archive \cup {None}], OlderParents(m)
  PROVE  PlanStart(m) \in Acc
<1>1. (IF Fulls(m) = {} THEN None ELSE Newest(Fulls(m))) \in Snaps \cup {None}
  <2>1. Fulls(m) \in SUBSET Snaps
    BY DEF Fulls, Archived
  <2> QED
    BY <2>1, NewestIs
<1>2. Archived(m) \in SUBSET Snaps
  BY DEF Archived
<1>3. <<>> \in Seq(OlderStep)
  BY EmptySeq
<1> QED
  BY <1>1, <1>2, <1>3, DepthsAre DEF Acc, PlanStart

IsPlanFold(f, listed, m, policy) ==
  /\ f \in [SUBSET (listed \ Archived(m)) -> Acc]
  /\ f[{}] = PlanStart(m)
  /\ \A s \in SUBSET (listed \ Archived(m)) :
       s # {} => f[s] = PlanStep(f[s \ {Newest(s)}], Newest(s), listed, policy)
  /\ BuildPlan(listed, m, policy) = f[listed \ Archived(m)].steps

LEMMA PlanFold ==
  ASSUME NEW listed \in SUBSET Snaps, NEW m \in [Snaps -> Archive \cup {None}],
         OlderParents(m), NEW policy
  PROVE  \E f : IsPlanFold(f, listed, m, policy)
<1> DEFINE missing == listed \ Archived(m)
           start == PlanStart(m)
           next(t, acc) == PlanStep(acc, t, listed, policy)
           iter[s \in SUBSET missing] ==
             IF s = {} THEN start ELSE next(Newest(s), iter[s \ {Newest(s)}])
           pick == [s \in SUBSET missing |-> Newest(s)]
           F == [x \in missing \X Acc |-> next(x[1], x[2])]
<1>1. BuildPlan(listed, m, policy) = iter[missing].steps
  BY Zenon DEF BuildPlan, MapThenFoldSet, PlanStart, Fulls
<1>2. missing \in SUBSET Snaps
  OBVIOUS
<1>3. IsFiniteSet(missing)
  BY <1>2, SnapsAssumption, FS_Subset
<1>4. start \in Acc
  BY PlanStartType
<1>5. \A t \in missing : \A acc \in Acc : next(t, acc) \in Acc
  BY <1>2, PlanStepIs
<1>6. F \in [missing \X Acc -> Acc] /\ \A t \in missing : \A acc \in Acc : F[<<t, acc>>] = next(t, acc)
  <2> HIDE DEF next, missing
  <2> QED
    BY <1>5
<1>7. Picks(pick, missing)
  BY <1>2, NewestIs DEF Picks
<1>8. PICK g \in [SUBSET missing -> Acc] : IsFold(g, start, F, pick, missing)
  <2> HIDE DEF start, F, pick, missing
  <2> QED
    BY <1>3, <1>4, <1>6, <1>7, FoldExists
<1>9. ASSUME NEW s \in SUBSET missing, s # {}
      PROVE  /\ Newest(s) \in missing /\ Newest(s) \in s /\ s \ {Newest(s)} \in SUBSET missing
             /\ pick[s] = Newest(s)
  BY <1>2, <1>9, NewestIs
<1>10. ASSUME NEW s \in SUBSET missing
       PROVE  g[s] = IF s = {} THEN start ELSE next(Newest(s), g[s \ {Newest(s)}])
  <2> HIDE DEF start, F, missing, pick, next
  <2>1. g[s] = IF s = {} THEN start ELSE F[<<pick[s], g[s \ {pick[s]}]>>]
    BY <1>8 DEF IsFold
  <2>2. CASE s = {}
    BY <2>1, <2>2
  <2>3. CASE s # {}
    <3>1. g[s] = F[<<Newest(s), g[s \ {Newest(s)}]>>]
      BY <1>9, <2>1, <2>3
    <3>2. g[s \ {Newest(s)}] \in Acc
      BY <1>9, <2>3
    <3> QED
      BY <1>6, <1>9, <2>3, <3>1, <3>2
  <2> QED
    BY <2>2, <2>3
<1>11. \E h : h = [s \in SUBSET missing |->
                     IF s = {} THEN start ELSE next(Newest(s), h[s \ {Newest(s)}])]
  <2> HIDE DEF start, F, missing, pick, next
  <2>1. g = [s \in SUBSET missing |->
               IF s = {} THEN start ELSE next(Newest(s), g[s \ {Newest(s)}])]
    BY <1>10
  <2> QED
    BY <2>1
<1>12. iter = [s \in SUBSET missing |->
                 IF s = {} THEN start ELSE next(Newest(s), iter[s \ {Newest(s)}])]
  <2> HIDE DEF start, F, missing, pick, next
  <2> QED
    BY <1>11, Zenon
<1>13. \A s \in SUBSET missing :
         iter[s] = IF s = {} THEN start ELSE next(Newest(s), iter[s \ {Newest(s)}])
  <2> HIDE DEF start, F, missing, pick, next, iter
  <2> QED
    BY <1>12, Zenon
<1> DEFINE Q == {s \in SUBSET missing : iter[s] \in Acc}
<1>14. {} \in Q
  <2>1. iter[{}] = start
    <3> HIDE DEF start, next, iter, missing
    <3> QED
      BY <1>13
  <2> HIDE DEF start, iter, missing
  <2> QED
    BY <1>4, <2>1
<1>15. ASSUME NEW s \in SUBSET missing, s # {}, s \ {pick[s]} \in Q
       PROVE  s \in Q
  <2> HIDE DEF iter, missing, pick, next, start
  <2>1. iter[s] = next(Newest(s), iter[s \ {Newest(s)}])
    BY <1>13, <1>15
  <2>2. iter[s \ {Newest(s)}] \in Acc
    BY <1>9, <1>15
  <2> QED
    BY <1>5, <1>9, <1>15, <2>1, <2>2
<1>16. SUBSET missing \subseteq Q
  <2> HIDE DEF Q, pick, missing
  <2> QED
    BY <1>3, <1>7, <1>14, <1>15, SubsetInduction
<1>17. iter \in [SUBSET missing -> Acc]
  <2>1. \A s \in SUBSET missing : iter[s] \in Acc
    <3> HIDE DEF iter, missing
    <3> QED
      BY <1>16
  <2> HIDE DEF start, missing, next, iter
  <2> QED
    BY <1>12, <2>1
<1>18. iter[{}] = start /\ \A s \in SUBSET missing :
                             s # {} => iter[s] = next(Newest(s), iter[s \ {Newest(s)}])
  <2> HIDE DEF start, missing, next, iter
  <2> QED
    BY <1>13
<1> HIDE DEF iter
<1>19. IsPlanFold(iter, listed, m, policy)
  BY <1>1, <1>17, <1>18 DEF IsPlanFold
<1> QED
  BY <1>19, Zenon

(* What a plan is for.                                                     *)
LEMMA PlanIs ==
  ASSUME NEW listed \in SUBSET Snaps, NEW m \in [Snaps -> Archive \cup {None}],
         OlderParents(m), NEW policy
  PROVE  /\ BuildPlan(listed, m, policy) \in Seq(OlderStep)
         /\ SnapsOf(BuildPlan(listed, m, policy)) = listed \ Archived(m)
         /\ Distinct(BuildPlan(listed, m, policy))
<1> DEFINE missing == listed \ Archived(m)
           pick == [s \in SUBSET missing |-> Newest(s)]
<1>1. missing \in SUBSET Snaps
  OBVIOUS
<1>2. IsFiniteSet(missing)
  BY <1>1, SnapsAssumption, FS_Subset
<1>3. Picks(pick, missing)
  BY <1>1, NewestIs DEF Picks
<1>0. PICK f : IsPlanFold(f, listed, m, policy)
  BY PlanFold
<1>4. /\ f \in [SUBSET missing -> Acc] /\ f[{}] = PlanStart(m)
      /\ \A s \in SUBSET missing :
           s # {} => f[s] = PlanStep(f[s \ {Newest(s)}], Newest(s), listed, policy)
      /\ BuildPlan(listed, m, policy) = f[missing].steps
  BY <1>0, Zenon DEF IsPlanFold
<1> DEFINE Q == {s \in SUBSET missing : SnapsOf(f[s].steps) = s /\ Distinct(f[s].steps)}
<1>5. {} \in Q
  <2>1. f[{}].steps = <<>>
    BY <1>4 DEF PlanStart
  <2> QED
    BY <2>1 DEF SnapsOf, Distinct
<1>6. ASSUME NEW s \in SUBSET missing, s # {}, s \ {pick[s]} \in Q
      PROVE  s \in Q
  <2> DEFINE t == Newest(s)
             acc == f[s \ {t}]
  <2>1. t \in s /\ t \in Snaps /\ pick[s] = t
    BY <1>1, <1>6, NewestIs
  <2>2. acc \in Acc /\ SnapsOf(acc.steps) = s \ {t} /\ Distinct(acc.steps)
    <3> HIDE DEF missing, pick
    <3> QED
      BY <1>4, <1>6, <2>1
  <2>3. f[s] = PlanStep(acc, t, listed, policy)
    BY <1>4, <1>6
  <2> HIDE DEF missing, pick, t, acc
  <2>4. PICK x \in OlderStep : x.snap = t /\ Adding(acc, f[s], x, policy)
    BY <2>1, <2>2, <2>3, PlanStepIs
  <2>5. acc.steps \in Seq(OlderStep)
    BY <2>2 DEF Acc
  <2>6. SnapsOf(f[s].steps) = (s \ {t}) \cup {t} /\ Distinct(f[s].steps)
    BY <2>2, <2>4, <2>5, SnapsOfAppend DEF Adding
  <2> QED
    BY <2>1, <2>6
<1>7. missing \in Q
  <2> HIDE DEF Q, pick, missing
  <2> QED
    BY <1>2, <1>3, <1>5, <1>6, SubsetInduction
<1>8. f[missing] \in Acc /\ SnapsOf(f[missing].steps) = missing /\ Distinct(f[missing].steps)
  BY <1>4, <1>7
<1> QED
  BY <1>4, <1>8 DEF Acc

-----------------------------------------------------------------------------
(* Types.                                                                  *)

Working == pc \in {"step", "send"}

(* What is cached of a source, and what ensure_sudo has been called for.   *)
CacheTyped ==
  /\ \A n \in Sources : source_cache[n] \in [Volumes -> SUBSET Snaps] \cup {None}
  /\ DOMAIN source_cache = Sources
  /\ pc \in {"volumes", "step", "send"} => source_cache[Source] \in [Volumes -> SUBSET Snaps]

TypeInv ==
  /\ dir \subseteq Entry
  /\ archives \in [Volumes -> [Snaps -> Archive \cup {None}]]
  /\ \A v \in Volumes : OlderParents(archives[v])
  /\ pc \in {"idle", "load", "syncs", "sync", "volumes", "step", "send"}
  /\ cmd \in Commands \cup {None}
  /\ config = None <=> Idle
  /\ todo \subseteq Volumes
  /\ volume \in Volumes \cup {None}
  /\ volume # None <=> Working
  /\ steps \in Seq(OlderStep)
  /\ pc = "send" => steps # <<>>
  /\ ready => pc = "step" /\ steps # <<>>
  /\ DOMAIN sent_stats = DOMAIN NoStats /\ DOMAIN remote_stats = DOMAIN NoStats
  /\ fails \in 0 .. MaxFails
  /\ CacheTyped

LEMMA EntryOf ==
  ASSUME NEW s \in Settings, NEW e \in s.now \cup s.later
  PROVE  e \in Entry
<1>1. e \in DirEntry /\ e.volume \in Volumes
  BY SettingsAssumption DEF Volumes
<1> QED
  BY <1>1 DEF DirEntry, Entry

LEMMA TypeInit == Init => TypeInv
<1> SUFFICES ASSUME Init
             PROVE  TypeInv
  OBVIOUS
<1>1. setting \in Settings /\ dir = setting.now
  BY DEF Init
<1>2. dir \subseteq Entry
  BY <1>1, EntryOf
<1>3. archives = [v \in Volumes |-> [t \in Snaps |-> None]]
  BY DEF Init
<1>4. /\ archives \in [Volumes -> [Snaps -> Archive \cup {None}]]
      /\ \A v \in Volumes : OlderParents(archives[v])
  BY <1>3 DEF OlderParents, Archived
<1>5. /\ pc = "idle" /\ cmd = None /\ config = None /\ todo = {} /\ volume = None
      /\ steps = <<>> /\ sent_stats = NoStats /\ remote_stats = NoStats /\ fails = 0
      /\ source_cache = [n \in Sources |-> None] /\ ~ready
  BY DEF Init, S!SessionInit
<1>6. fails \in 0 .. MaxFails
  BY <1>5, SnapsAssumption
<1>7. CacheTyped
  BY <1>5 DEF CacheTyped
<1>8. steps \in Seq(OlderStep)
  BY <1>5, EmptySeq
<1> QED
  BY <1>2, <1>4, <1>5, <1>6, <1>7, <1>8 DEF TypeInv, Working, Idle

LEMMA TypeExit ==
  ASSUME TypeInv, Exit, fails' \in 0 .. MaxFails
  PROVE  TypeInv'
<1>1. /\ pc' = "idle" /\ cmd' = None /\ config' = None /\ todo' = {} /\ volume' = None
      /\ steps' = <<>> /\ sent_stats' = NoStats /\ remote_stats' = NoStats
      /\ source_cache' = [n \in Sources |-> None] /\ ~ready'
      /\ UNCHANGED <<dir, archives>>
  BY DEF Exit, S!Quit
<1>2. CacheTyped'
  BY <1>1 DEF CacheTyped
<1>3. steps' \in Seq(OlderStep)
  BY <1>1, EmptySeq
<1>4. DOMAIN sent_stats' = DOMAIN NoStats /\ DOMAIN remote_stats' = DOMAIN NoStats
  BY <1>1
<1> QED
  BY <1>1, <1>2, <1>3, <1>4 DEF TypeInv, Working, Idle

(* The listing of a source, and what is planned from it.                   *)
LEMMA ListingType ==
  ASSUME NEW src
  PROVE  Listing(src) \in [Volumes -> SUBSET Snaps] /\ Found(Listing(src)) \subseteq Volumes
BY DEF Listing, Snapshots, Found

LEMMA PlanForIs ==
  ASSUME TypeInv, pc = "volumes", NEW v \in todo
  PROVE  /\ v \in Volumes
         /\ Listed(v) \in SUBSET Snaps
         /\ PlanFor(v) \in Seq(OlderStep)
         /\ SnapsOf(PlanFor(v)) = Listed(v) \ Archived(archives[v])
         /\ Distinct(PlanFor(v))
<1>1. v \in Volumes /\ source_cache[Source] \in [Volumes -> SUBSET Snaps]
  BY DEF TypeInv, CacheTyped
<1>2. Listed(v) \in SUBSET Snaps
  BY <1>1 DEF Listed
<1>3. archives[v] \in [Snaps -> Archive \cup {None}] /\ OlderParents(archives[v])
  BY <1>1 DEF TypeInv
<1> QED
  BY <1>1, <1>2, <1>3, PlanIs DEF PlanFor

(* The step at the head of a plan.                                         *)
LEMMA HeadIs ==
  ASSUME TypeInv, steps # <<>>
  PROVE  /\ Head(steps) \in OlderStep
         /\ Tail(steps) \in Seq(OlderStep)
         /\ Head(steps).snap \in Snaps
         /\ Head(steps).parent \in Snaps \cup {None}
         /\ Size[Head(steps).snap][Head(steps).parent] \in Nat
<1>1. steps \in Seq(OlderStep)
  BY DEF TypeInv
<1>2. Head(steps) \in OlderStep /\ Tail(steps) \in Seq(OlderStep)
  BY <1>1, HeadTailProperties
<1> DEFINE x == Head(steps)
<1> HIDE DEF x
<1>3. /\ x \in OlderStep => /\ x.snap \in Snaps /\ x.parent \in Snaps \cup {None}
                            /\ x.parent = None \/ x.parent < x.snap
  BY DEF OlderStep, Step
<1>4. x \in OlderStep => Size[x.snap][x.parent] \in Nat
  BY <1>3, SizeAssumption
<1> QED
  BY <1>2, <1>3, <1>4 DEF x

LEMMA TypeFinishSend ==
  ASSUME TypeInv, FinishSend
  PROVE  TypeInv'
<1> DEFINE x == Head(steps)
           size == Size[x.snap][x.parent]
           new == [parent |-> x.parent, size |-> size]
<1>1. /\ pc = "send" /\ pc' = "step" /\ steps' = Tail(steps)
      /\ sent_stats' = AddSize(sent_stats, x.parent, size)
      /\ \/ remote_stats' = remote_stats
         \/ remote_stats' = AddSize(remote_stats, x.parent, size)
      /\ \/ archives' = archives
         \/ archives' = [archives EXCEPT ![volume][x.snap] = new]
      /\ UNCHANGED <<dir, cmd, config, sync, source_cache, todo, volume, fails, ready>>
  BY DEF FinishSend, sudo
<1>2. steps # <<>> /\ volume \in Volumes /\ ~ready
  BY <1>1 DEF TypeInv, Working
<1>3. /\ x \in OlderStep /\ Tail(steps) \in Seq(OlderStep)
      /\ x.snap \in Snaps /\ x.parent \in Snaps \cup {None} /\ size \in Nat
      /\ x.parent = None \/ x.parent < x.snap
  BY <1>2, HeadIs DEF OlderStep
<1>4. new \in Archive /\ new.parent = x.parent
  <2> HIDE DEF x, size
  <2> QED
    BY <1>3 DEF Archive
<1> HIDE DEF x, new, size
<1>5. /\ archives' \in [Volumes -> [Snaps -> Archive \cup {None}]]
      /\ \A v \in Volumes : OlderParents(archives'[v])
  <2>1. CASE archives' = archives
    BY <2>1 DEF TypeInv
  <2>2. CASE archives' = [archives EXCEPT ![volume][x.snap] = new]
    <3>1. archives' \in [Volumes -> [Snaps -> Archive \cup {None}]]
      BY <1>2, <1>3, <1>4, <2>2 DEF TypeInv
    <3>2. ASSUME NEW v \in Volumes, NEW t \in Archived(archives'[v])
          PROVE  archives'[v][t].parent = None \/ archives'[v][t].parent < t
      <4>1. t \in Snaps /\ archives'[v][t] # None
        BY DEF Archived
      <4>2. archives'[v][t] = IF v = volume /\ t = x.snap THEN new ELSE archives[v][t]
        BY <1>2, <1>3, <2>2, <4>1 DEF TypeInv
      <4>3. CASE v = volume /\ t = x.snap
        BY <1>3, <1>4, <4>2, <4>3
      <4>4. CASE ~(v = volume /\ t = x.snap)
        BY <4>1, <4>2, <4>4 DEF TypeInv, OlderParents, Archived
      <4> QED
        BY <4>3, <4>4
    <3> QED
      BY <3>1, <3>2 DEF OlderParents
  <2> QED
    BY <1>1, <2>1, <2>2
<1>6. DOMAIN sent_stats' = DOMAIN NoStats /\ DOMAIN remote_stats' = DOMAIN NoStats
  BY <1>1 DEF TypeInv, AddSize
<1>7. CacheTyped'
  BY <1>1 DEF TypeInv, CacheTyped, Source
<1> QED
  BY <1>1, <1>2, <1>3, <1>5, <1>6, <1>7 DEF TypeInv, Working, Idle, OlderParents

LEMMA TypeInspect ==
  ASSUME ConfigInv, TypeInv, InspectSource
  PROVE  TypeInv'
<1> DEFINE list == Listing(config.source[Source])
<1>1. /\ pc = "sync" /\ pc' = "volumes"
      /\ todo' = Found(source_cache'[Source])
      /\ source_cache' = [source_cache EXCEPT ![Source] = IF @ = None THEN list ELSE @]
      /\ UNCHANGED <<dir, archives, cmd, config, sync, volume, steps, sent_stats,
                     remote_stats, fails, ready>>
  BY DEF InspectSource, stats, sudo
<1>2. Source \in Sources /\ Source' = Source
  BY <1>1, FiltersArePatterns DEF ConfigInv, Idle, Source
<1>3. list \in [Volumes -> SUBSET Snaps]
  BY ListingType
<1> HIDE DEF list
<1>4. /\ \A n \in Sources : source_cache[n] \in [Volumes -> SUBSET Snaps] \cup {None}
      /\ DOMAIN source_cache = Sources
  BY DEF TypeInv, CacheTyped
<1>5. source_cache'[Source] = IF source_cache[Source] = None THEN list ELSE source_cache[Source]
  BY <1>1, <1>2, <1>4
<1>6. source_cache'[Source] \in [Volumes -> SUBSET Snaps]
  BY <1>2, <1>3, <1>4, <1>5
<1>7. /\ \A n \in Sources : source_cache'[n] \in [Volumes -> SUBSET Snaps] \cup {None}
      /\ DOMAIN source_cache' = Sources
  BY <1>1, <1>4, <1>6
<1>8. CacheTyped'
  BY <1>2, <1>6, <1>7 DEF CacheTyped
<1>9. todo' \subseteq Volumes
  BY <1>1 DEF Found
<1> QED
  BY <1>1, <1>8, <1>9 DEF TypeInv, Working, Idle, OlderParents

LEMMA TypePlan ==
  ASSUME TypeInv, NEW v \in todo, RunVolume(v) \/ MeasureVolume(v)
  PROVE  TypeInv'
<1>1. /\ pc = "volumes" /\ pc' = "step"
      /\ volume' = v /\ steps' = PlanFor(v) /\ todo' = todo \ {v}
      /\ \/ remote_stats' = remote_stats
         \/ remote_stats' = Merge(remote_stats, FromMeta(archives[v]))
      /\ UNCHANGED <<dir, archives, cmd, config, sync, source_cache, sent_stats, fails, ready>>
  BY DEF RunVolume, MeasureVolume, Enter, sudo
<1>2. v \in Volumes /\ PlanFor(v) \in Seq(OlderStep)
  BY <1>1, PlanForIs
<1>3. v # None
  BY <1>2, VolumesAssumption
<1>4. DOMAIN remote_stats' = DOMAIN NoStats
  BY <1>1 DEF TypeInv, Merge
<1>5. CacheTyped'
  BY <1>1 DEF TypeInv, CacheTyped, Source
<1> QED
  BY <1>1, <1>2, <1>3, <1>4, <1>5 DEF TypeInv, Working, Idle, OlderParents

LEMMA TypeStep == ConfigInv /\ TypeInv /\ [Next]_vars => TypeInv'
<1> SUFFICES ASSUME ConfigInv, TypeInv, [Next]_vars
             PROVE  TypeInv'
  OBVIOUS
<1> USE DEF loop, stats, sudo
<1>1. ASSUME NEW e \in setting.later, SnapCreate(e)
      PROVE  TypeInv'
  <2>1. e \in Entry
    BY EntryOf DEF ConfigInv
  <2> QED
    BY <1>1, <2>1 DEF SnapCreate, TypeInv, CacheTyped, Source, Working, Idle, OlderParents
<1>2. ASSUME NEW c \in setting.commands, Start(c)
      PROVE  TypeInv'
  <2>1. c \in Commands
    BY SettingsAssumption DEF ConfigInv
  <2> QED
    BY <1>2, <2>1 DEF Start, TypeInv, CacheTyped, Working, Idle, OlderParents
<1>3. CASE LoadConfig
  BY <1>3 DEF LoadConfig, Usable, TypeInv, CacheTyped, Working, Idle, OlderParents
<1>4. CASE RefuseConfig \/ RefuseSudo \/ FinishCommand \/ \E v \in todo : BrokenVolume(v)
  <2>1. Exit /\ fails' = fails
    BY <1>4 DEF RefuseConfig, RefuseSudo, FinishCommand, BrokenVolume
  <2>2. fails' \in 0 .. MaxFails
    BY <2>1 DEF TypeInv
  <2> QED
    BY <2>1, <2>2, TypeExit
<1>5. CASE Fail
  <2>1. fails' \in 0 .. MaxFails
    BY <1>5, SnapsAssumption DEF Fail, TypeInv
  <2> QED
    BY <1>5, <2>1, TypeExit DEF Fail
<1>6. ASSUME NEW s \in todo_syncs, NextSync(s)
      PROVE  TypeInv'
  BY <1>6 DEF NextSync, TypeInv, CacheTyped, Working, Idle, OlderParents
<1>7. CASE InspectSource
  BY <1>7, TypeInspect
<1>8. ASSUME NEW v \in todo, SkipVolume(v) \/ ShowVolume(v)
      PROVE  TypeInv'
  BY <1>8 DEF SkipVolume, ShowVolume, Enter, TypeInv, CacheTyped, Source, Working, Idle, OlderParents
<1>9. ASSUME NEW v \in todo, DryrunVolume(v)
      PROVE  TypeInv'
  <2>1. DOMAIN remote_stats' = DOMAIN NoStats
    BY <1>9 DEF DryrunVolume, TypeInv, Merge
  <2> QED
    BY <1>9, <2>1
    DEF DryrunVolume, Enter, TypeInv, CacheTyped, Source, Working, Idle, OlderParents
<1>10. ASSUME NEW v \in todo, RunVolume(v) \/ MeasureVolume(v)
       PROVE  TypeInv'
  BY <1>10, TypePlan
<1>11. CASE EnsureSudo
  BY <1>11 DEF EnsureSudo, TypeInv, CacheTyped, Source, Working, Idle, OlderParents
<1>12. CASE StartSend
  BY <1>12 DEF StartSend, S!Spawn, TypeInv, CacheTyped, Source, Working, Idle, OlderParents
<1>13. CASE FinishSend
  BY <1>13, TypeFinishSend
<1>14. CASE FinishVolume
  <2>1. DOMAIN remote_stats' = DOMAIN NoStats
    BY <1>14 DEF FinishVolume, TypeInv, Merge
  <2> QED
    BY <1>14, <2>1
    DEF FinishVolume, TypeInv, CacheTyped, Source, Working, Idle, OlderParents
<1>15. CASE FinishSync
  BY <1>15 DEF FinishSync, TypeInv, CacheTyped, Working, Idle, OlderParents
<1>16. CASE Time \/ UNCHANGED vars
  <2>1. /\ UNCHANGED <<dir, archives, pc, cmd, config, sync, source_cache, todo, volume, steps,
                       sent_stats, remote_stats, fails>>
        /\ ready' => ready
    BY <1>16 DEF Time, S!Tick, S!Suspend, vars
  <2> QED
    BY <2>1 DEF TypeInv, CacheTyped, Source, Working, Idle, OlderParents
<1> QED
  BY <1>1, <1>2, <1>3, <1>4, <1>5, <1>6, <1>7, <1>8, <1>9, <1>10, <1>11, <1>12, <1>13, <1>14,
     <1>15, <1>16
  DEF Next, Work

LEMMA TypeInvariant == Spec => [](ConfigInv /\ TypeInv)
<1>1. Init => ConfigInv /\ TypeInv
  BY ConfigInit, TypeInit
<1>2. (ConfigInv /\ TypeInv) /\ [Next]_vars => (ConfigInv /\ TypeInv)'
  BY ConfigStep, TypeStep
<1> QED
  BY <1>1, <1>2, PTL DEF Spec

(* Every variable keeps its type, a volume is being worked on exactly      *)
(* while its steps are, and nothing is sent that is not the head of a      *)
(* plan.                                                                   *)
THEOREM DriverTypeCorrect == Spec => []TypeOK
<1>1. ConfigInv /\ TypeInv /\ S!TypeOK => TypeOK
  <2> SUFFICES ASSUME ConfigInv, TypeInv, S!TypeOK
               PROVE  TypeOK
    OBVIOUS
  <2>1. \A i \in DOMAIN steps : steps[i] \in Step
    <3>1. steps \in Seq(OlderStep)
      BY DEF TypeInv
    <3>2. \A i \in DOMAIN steps : steps[i] \in OlderStep
      BY <3>1
    <3> QED
      BY <3>2 DEF OlderStep
  <2>2. setting \in Settings
    BY DEF ConfigInv
  <2> QED
    BY <2>1, <2>2 DEF TypeInv, TypeOK, Working, Idle
<1>2. S!Spec => []S!TypeOK
  BY SudoTypeCorrect
<1> QED
  BY <1>1, <1>2, TypeInvariant, DriverImplementsSession, PTL

-----------------------------------------------------------------------------
(* What a run sends, and what was said of it.                              *)

Inside == pc \in {"volumes", "step", "send"}
Before == pc \in {"load", "sync"} \/ todo_syncs # {}

(* The syncs a command goes over: at most one.                             *)
Chosen == IF Loaded = None THEN {} ELSE {n \in DOMAIN Loaded.sync : setting.name \in {None, n}}

(* Where a process is.                                                     *)
PlaceInv ==
  /\ ~Working => steps = <<>>
  /\ Working => volume \notin todo
  /\ pc = "load" => todo_syncs = {}
  /\ pc = "syncs" => todo_syncs \in {Chosen, {}}
  /\ pc \in {"sync", "volumes", "step", "send"} => sync \in Chosen
  /\ Before => FreshCache
  /\ told # None /\ Inside => source_cache[Source] = Listing(config.source[Source])

LEMMA ChosenIs ==
  ASSUME ConfigInv, TypeInv, ~Idle
  PROVE  /\ Loaded = config /\ Loaded # None
         /\ Chosen = {n \in DOMAIN config.sync : setting.name \in {None, n}}
         /\ \A a, b \in Chosen : a = b
<1>1. setting \in Settings /\ setting.file # None /\ config = Filled(setting.file) /\ Accepted(config)
  BY DEF ConfigInv
<1>2. Loaded = FromToml(setting.file)
  BY <1>1 DEF Loaded, Loads
<1>3. Loaded = config
  BY <1>1, <1>2 DEF FromToml
<1>4. config # None
  BY DEF TypeInv
<1>5. AtMostOne(DOMAIN config.sync)
  BY <1>1 DEF Accepted
<1> QED
  BY <1>3, <1>4, <1>5 DEF Chosen, AtMostOne

LEMMA ChosenFrame ==
  ASSUME setting' = setting
  PROVE  Chosen' = Chosen /\ Loaded' = Loaded
BY DEF Chosen, Loaded

LEMMA PlaceInit == Init => PlaceInv
BY DEF Init, PlaceInv, Working, Inside, Before

LEMMA PlaceExit ==
  ASSUME Exit
  PROVE  PlaceInv'
<1>1. pc' = "idle" /\ todo_syncs' = {} /\ steps' = <<>>
  BY DEF Exit
<1> QED
  BY <1>1 DEF PlaceInv, Working, Inside, Before

LEMMA PlaceInspect ==
  ASSUME ConfigInv, PlaceInv, VisitInv, InspectSource
  PROVE  PlaceInv'
<1>1. /\ pc = "sync" /\ pc' = "volumes"
      /\ source_cache' = [source_cache EXCEPT
           ![Source] = IF @ = None THEN Listing(config.source[Source]) ELSE @]
      /\ UNCHANGED <<setting, dir, config, todo_syncs, sync, steps, told>>
  BY DEF InspectSource
<1>2. Source \in Sources /\ Source' = Source
  BY <1>1, FiltersArePatterns DEF ConfigInv, Idle, Source
<1>3. source_cache = [n \in Sources |-> None]
  BY <1>1 DEF PlaceInv, Before, FreshCache
<1>4. source_cache'[Source] = Listing(config.source[Source])
  BY <1>1, <1>2, <1>3
<1>5. Listing(config.source[Source])' = Listing(config.source[Source])
  BY <1>1, <1>2 DEF Listing, Snapshots
<1>6. source_cache'[Source'] = Listing(config.source[Source])'
  BY <1>2, <1>4, <1>5
<1>7. todo_syncs' = {}
  BY <1>1 DEF VisitInv
<1> QED
  BY <1>1, <1>6, <1>7, ChosenFrame DEF PlaceInv, Working, Inside, Before

LEMMA PlaceStep == ConfigInv /\ TypeInv /\ VisitInv /\ PlaceInv /\ [Next]_vars => PlaceInv'
<1> SUFFICES ASSUME ConfigInv, TypeInv, VisitInv, PlaceInv, [Next]_vars
             PROVE  PlaceInv'
  OBVIOUS
<1> USE DEF loop, stats
<1>1. ASSUME NEW e \in setting.later, SnapCreate(e)
      PROVE  PlaceInv'
  <2>1. /\ told' = None
        /\ UNCHANGED <<setting, pc, todo_syncs, sync, source_cache, todo, volume, steps, report>>
    BY <1>1 DEF SnapCreate
  <2> QED
    BY <2>1, ChosenFrame DEF PlaceInv, Working, Inside, Before, FreshCache
<1>2. ASSUME NEW c \in setting.commands, Start(c)
      PROVE  PlaceInv'
  <2>1. FreshCache /\ todo_syncs = {}
    BY <1>2 DEF Start, VisitInv, ConfigInv, Idle
  <2> QED
    BY <1>2, <2>1 DEF Start, PlaceInv, Working, Inside, Before, FreshCache
<1>3. CASE LoadConfig
  <2>1. todo_syncs' = Chosen
    BY <1>3 DEF LoadConfig, Usable, Chosen
  <2>2. FreshCache' = FreshCache /\ FreshCache
    BY <1>3 DEF LoadConfig, PlaceInv, Before, FreshCache
  <2>3. Chosen' = Chosen
    BY <1>3, ChosenFrame DEF LoadConfig
  <2> QED
    BY <1>3, <2>1, <2>2, <2>3 DEF LoadConfig, PlaceInv, Working, Inside, Before
<1>4. CASE RefuseConfig \/ RefuseSudo \/ FinishCommand \/ Fail \/ \E v \in todo : BrokenVolume(v)
  BY <1>4, PlaceExit DEF RefuseConfig, RefuseSudo, FinishCommand, Fail, BrokenVolume
<1>5. ASSUME NEW s \in todo_syncs, NextSync(s)
      PROVE  PlaceInv'
  <2>1. s \in Chosen /\ FreshCache
    BY <1>5 DEF NextSync, PlaceInv, Before
  <2>2. Chosen' = Chosen /\ FreshCache'
    BY <1>5, <2>1, ChosenFrame DEF NextSync, FreshCache
  <2> QED
    BY <1>5, <2>1, <2>2 DEF NextSync, PlaceInv, Working, Inside
<1>6. CASE InspectSource
  BY <1>6, PlaceInspect
<1>7. ASSUME \/ FinishVolume \/ EnsureSudo \/ StartSend \/ FinishSend \/ Time \/ UNCHANGED vars
             \/ \E v \in todo : SkipVolume(v) \/ DryrunVolume(v) \/ ShowVolume(v),
             ~(pc \in {"volumes", "step", "send"})
      PROVE  PlaceInv'
  <2>1. UNCHANGED <<setting, dir, pc, config, todo_syncs, sync, source_cache, todo, volume,
                    steps, report, told>>
    BY <1>7 DEF FinishVolume, EnsureSudo, StartSend, FinishSend, Time, SkipVolume, DryrunVolume,
                ShowVolume, Enter, vars
  <2> QED
    BY <2>1, ChosenFrame DEF PlaceInv, Working, Inside, Before, FreshCache, Source, Listing, Snapshots
<1>8. ASSUME Inside, Inside',
             UNCHANGED <<setting, dir, config, todo_syncs, sync, source_cache, told>>,
             ~Working' => steps' = <<>>, Working' => volume' \notin todo'
      PROVE  PlaceInv'
  <2>1. todo_syncs = {} /\ todo_syncs' = {}
    BY <1>8 DEF VisitInv, Inside
  <2>2. ~Before'
    BY <1>8, <2>1 DEF Inside, Before
  <2>3. /\ Source' = Source /\ Chosen' = Chosen
        /\ Listing(config.source[Source])' = Listing(config.source[Source])
    BY <1>8, ShownFrame, ChosenFrame
  <2> QED
    BY <1>8, <2>2, <2>3 DEF PlaceInv, Inside
<1>9. ASSUME \/ FinishVolume \/ EnsureSudo \/ StartSend \/ FinishSend \/ Time \/ UNCHANGED vars
             \/ \E v \in todo : SkipVolume(v) \/ DryrunVolume(v) \/ ShowVolume(v),
             pc \in {"volumes", "step", "send"}
      PROVE  PlaceInv'
  <2>1. UNCHANGED <<setting, dir, config, todo_syncs, sync, source_cache, told>>
    BY <1>9 DEF FinishVolume, EnsureSudo, StartSend, FinishSend, Time, SkipVolume, DryrunVolume,
                ShowVolume, Enter, vars
  <2>2. pc' \in {"volumes", "step", "send"}
    BY <1>9 DEF FinishVolume, EnsureSudo, StartSend, FinishSend, Time, SkipVolume, DryrunVolume,
                ShowVolume, Enter, vars
  <2>3. ~Working' => steps' = <<>>
    BY <1>9 DEF FinishVolume, EnsureSudo, StartSend, FinishSend, Time, SkipVolume, DryrunVolume,
                ShowVolume, Enter, vars, Working, PlaceInv
  <2>4. Working' => volume' \notin todo'
    BY <1>9 DEF FinishVolume, EnsureSudo, StartSend, FinishSend, Time, SkipVolume, DryrunVolume,
                ShowVolume, Enter, vars, Working, PlaceInv
  <2> QED
    BY <1>8, <1>9, <2>1, <2>2, <2>3, <2>4 DEF Inside
<1>10. ASSUME NEW v \in todo, RunVolume(v) \/ MeasureVolume(v)
       PROVE  PlaceInv'
  <2>1. /\ pc = "volumes" /\ pc' = "step" /\ volume' = v /\ todo' = todo \ {v}
        /\ UNCHANGED <<setting, dir, config, todo_syncs, sync, source_cache, told>>
    BY <1>10 DEF RunVolume, MeasureVolume, Enter
  <2> QED
    BY <1>8, <2>1 DEF Inside, Working
<1>11. CASE FinishSync
  <2>1. /\ pc = "volumes" /\ pc' = "syncs"
        /\ UNCHANGED <<setting, todo_syncs, steps>>
    BY <1>11 DEF FinishSync
  <2>2. todo_syncs' = {} /\ steps' = <<>>
    BY <2>1 DEF VisitInv, PlaceInv, Working
  <2> QED
    BY <2>1, <2>2 DEF PlaceInv, Working, Inside, Before
<1> QED
  BY <1>1, <1>2, <1>3, <1>4, <1>5, <1>6, <1>7, <1>9, <1>10, <1>11 DEF Next, Work

(* What a run would send if it started now, or would be asked now what it  *)
(* is going to send.                                                       *)
ListOf(n) == Listing(Loaded.source[Loaded.sync[n].source])
Covered(n) == {v \in Found(ListOf(n)) : Selected(Loaded.sync[n].filter, v)}
PlanAt(n, v) == BuildPlan(ListOf(n)[v], archives[v], Resolve(Loaded.sync[n]))
ForSync(n) == UNION {PlanLines(v, PlanAt(n, v)) : v \in Covered(n)}
Forecast == UNION {ForSync(n) : n \in Chosen}

(* What the process has yet to report.                                     *)
Ahead == UNION {PlanLines(v, PlanFor(v)) : v \in {w \in todo : Matches(w)}}
Pending == IF Inside THEN PlanLines(volume, steps) \cup Ahead
           ELSE IF Before THEN Forecast
           ELSE {}

(* A dryrun prints the lines of a run, ls its snapshots.                   *)
Pairs(lines) == {<<x.volume, x.snap>> : x \in lines}
LocalOnly(rows) == Pairs({x \in rows : x.state = "local-only"})
Agrees(by, said, lines) == IF by = "ls" THEN LocalOnly(said) = Pairs(lines) ELSE said = lines

Doing(c) == pc # "idle" /\ cmd = c
Telling == \E c \in {"run", "dryrun", "measure", "ls"} : Doing(c)

LineInv ==
  told # None =>
    /\ Doing("run") => Agrees(told.by, told.said, report \cup Pending)
    /\ Doing("dryrun") \/ Doing("measure") => report \cup Pending = Forecast
    /\ Doing("ls") => LocalOnly(report) \cup Pairs(Pending) = Pairs(Forecast)
    /\ ~Telling => Agrees(told.by, told.said, Forecast)

LEMMA ForecastFrame ==
  ASSUME UNCHANGED <<setting, dir, archives>>
  PROVE  Forecast' = Forecast
BY ChosenFrame DEF Forecast, ForSync, Covered, PlanAt, ListOf, Listing, Snapshots, Found

LEMMA ForecastIs ==
  ASSUME ConfigInv, TypeInv, ~Idle, sync \in Chosen
  PROVE  LET list == Listing(config.source[Source])
         IN  /\ Chosen = {sync}
             /\ Covered(sync) = {v \in Found(list) : Matches(v)}
             /\ Forecast = UNION {PlanLines(v, BuildPlan(list[v], archives[v], Policy)) :
                                    v \in Covered(sync)}
<1>1. Chosen = {sync} /\ Loaded = config
  BY ChosenIs
<1>2. Forecast = ForSync(sync)
  BY <1>1 DEF Forecast
<1> QED
  BY <1>1, <1>2 DEF ForSync, Covered, PlanAt, ListOf, Source, Policy, Matches

(* The lines of a plan.                                                    *)
LEMMA PairsOf ==
  ASSUME NEW v, NEW plan
  PROVE  \A z : z \in Pairs(PlanLines(v, plan)) <=> \E t \in SnapsOf(plan) : z = <<v, t>>
<1> DEFINE Line(x) == [volume |-> v, snap |-> x.snap, parent |-> x.parent]
<1>1. \A x : Line(x).volume = v /\ Line(x).snap = x.snap
  OBVIOUS
<1>2. PlanLines(v, plan) = {Line(plan[i]) : i \in DOMAIN plan}
  BY DEF PlanLines
<1> HIDE DEF Line
<1>3. \A z : z \in Pairs(PlanLines(v, plan)) <=>
               \E i \in DOMAIN plan : z = <<Line(plan[i]).volume, Line(plan[i]).snap>>
  BY <1>2 DEF Pairs
<1>4. \A z : z \in Pairs(PlanLines(v, plan)) <=> \E i \in DOMAIN plan : z = <<v, plan[i].snap>>
  BY <1>1, <1>3
<1> QED
  BY <1>4 DEF SnapsOf

LEMMA LinesOf ==
  ASSUME NEW v, NEW plan \in Seq(OlderStep)
  PROVE  /\ PlanLines(v, <<>>) = {}
         /\ plan # <<>> => PlanLines(v, plan) =
              PlanLines(v, <<Head(plan)>>) \cup PlanLines(v, Tail(plan))
<1> DEFINE Line(x) == [volume |-> v, snap |-> x.snap, parent |-> x.parent]
<1>1. \A p : PlanLines(v, p) = {Line(p[i]) : i \in DOMAIN p}
  BY DEF PlanLines
<1> HIDE DEF Line
<1>3. PlanLines(v, <<>>) = {}
  BY <1>1
<1>4. ASSUME plan # <<>>
      PROVE  PlanLines(v, plan) = PlanLines(v, <<Head(plan)>>) \cup PlanLines(v, Tail(plan))
  <2>1. /\ Len(plan) \in Nat \ {0} /\ DOMAIN plan = 1 .. Len(plan)
        /\ Head(plan) = plan[1]
        /\ DOMAIN Tail(plan) = 1 .. Len(plan) - 1
        /\ \A i \in 1 .. Len(plan) - 1 : Tail(plan)[i] = plan[i + 1]
    BY <1>4
  <2>2. PlanLines(v, <<Head(plan)>>) = {Line(plan[1])}
    BY <1>1, <2>1
  <2>3. PlanLines(v, Tail(plan)) = {Line(plan[i + 1]) : i \in 1 .. Len(plan) - 1}
    <3>1. PlanLines(v, Tail(plan)) = {Line(Tail(plan)[i]) : i \in 1 .. Len(plan) - 1}
      BY <1>1, <2>1
    <3>2. {Line(Tail(plan)[i]) : i \in 1 .. Len(plan) - 1} =
            {Line(plan[i + 1]) : i \in 1 .. Len(plan) - 1}
      BY <2>1, Zenon
    <3> QED
      BY <3>1, <3>2
  <2>4. 1 .. Len(plan) = {1} \cup {i + 1 : i \in 1 .. Len(plan) - 1}
    <3>1. ASSUME NEW j \in 1 .. Len(plan), j # 1
          PROVE  \E i \in 1 .. Len(plan) - 1 : j = i + 1
      <4>1. j - 1 \in 1 .. Len(plan) - 1 /\ j = (j - 1) + 1
        BY <2>1, <3>1
      <4> QED
        BY <4>1
    <3>2. \A i \in 1 .. Len(plan) - 1 : i + 1 \in 1 .. Len(plan)
      BY <2>1
    <3>3. 1 \in 1 .. Len(plan)
      BY <2>1
    <3> QED
      BY <3>1, <3>2, <3>3, Zenon
  <2>5. PlanLines(v, plan) = {Line(plan[j]) : j \in 1 .. Len(plan)}
    <3>1. PlanLines(v, plan) = {Line(plan[j]) : j \in DOMAIN plan}
      BY <1>1
    <3>2. DOMAIN plan = 1 .. Len(plan)
      BY <2>1
    <3> QED
      BY <3>1, <3>2, Zenon
  <2> DEFINE D == 1 .. Len(plan) - 1
  <2>6. 1 .. Len(plan) = {1} \cup {i + 1 : i \in D}
    BY <2>4
  <2> HIDE DEF D
  <2>7. \A z : (\E j \in {1} \cup {i + 1 : i \in D} : z = Line(plan[j])) <=>
                 (z = Line(plan[1]) \/ \E i \in D : z = Line(plan[i + 1]))
    OBVIOUS
  <2>8. {Line(plan[j]) : j \in {1} \cup {i + 1 : i \in D}} =
          {Line(plan[1])} \cup {Line(plan[i + 1]) : i \in D}
    BY <2>7
  <2> QED
    BY <2>2, <2>3, <2>5, <2>6, <2>8 DEF D
<1> QED
  BY <1>3, <1>4

LEMMA PairsUnion ==
  ASSUME NEW x, NEW y
  PROVE  /\ Pairs(x \cup y) = Pairs(x) \cup Pairs(y)
         /\ LocalOnly(x \cup y) = LocalOnly(x) \cup LocalOnly(y)
         /\ Pairs({}) = {} /\ LocalOnly({}) = {}
BY DEF Pairs, LocalOnly

(* The lines that ls marks as local-only are those of the plan.            *)
LEMMA TablePairs ==
  ASSUME TypeInv, pc = "volumes", NEW v \in todo
  PROVE  LocalOnly(SnapshotTable(v, Listed(v), archives[v])) = Pairs(PlanLines(v, PlanFor(v)))
<1> DEFINE listed == Listed(v)
           m == archives[v]
           Line(t) == [volume |-> v, snap |-> t,
                       state |-> CASE t \notin Archived(m) -> "local-only"
                                   [] t \notin listed -> "remote-only"
                                   [] OTHER -> "synced"]
           State(t) == CASE t \notin Archived(m) -> "local-only"
                         [] t \notin listed -> "remote-only"
                         [] OTHER -> "synced"
<1>1. /\ PlanFor(v) \in Seq(OlderStep) /\ SnapsOf(PlanFor(v)) = listed \ Archived(m)
  BY PlanForIs
<1>2. SnapshotTable(v, listed, m) = {Line(t) : t \in listed \cup Archived(m)}
  BY DEF SnapshotTable
<1>3. ASSUME NEW t \in listed \cup Archived(m)
      PROVE  State(t) = "local-only" <=> t \in listed \ Archived(m)
  <2> HIDE DEF listed, m
  <2>1. CASE t \notin Archived(m)
    <3>1. t \in listed
      BY <1>3, <2>1
    <3>2. State(t) = "local-only"
      BY <2>1, <3>1
    <3> QED
      BY <2>1, <3>1, <3>2
  <2>2. CASE t \in Archived(m)
    <3>1. State(t) # "local-only"
      BY <2>2
    <3> QED
      BY <2>2, <3>1
  <2> QED
    BY <2>1, <2>2
<1>4. \A t : Line(t).volume = v /\ Line(t).snap = t /\ Line(t).state = State(t)
  OBVIOUS
<1> HIDE DEF Line, State, listed, m
<1>5. LocalOnly(SnapshotTable(v, listed, m)) =
        {<<v, t>> : t \in {u \in listed \cup Archived(m) : State(u) = "local-only"}}
  BY <1>2, <1>4 DEF LocalOnly, Pairs
<1>6. {u \in listed \cup Archived(m) : State(u) = "local-only"} = listed \ Archived(m)
  BY <1>3
<1>7. \A z : z \in Pairs(PlanLines(v, PlanFor(v))) <=> \E t \in SnapsOf(PlanFor(v)) : z = <<v, t>>
  BY PairsOf
<1> QED
  BY <1>1, <1>5, <1>6, <1>7 DEF listed, m

(* The volumes the loop has not come to, without one of them.              *)
LEMMA AheadSplit ==
  ASSUME NEW v \in todo
  PROVE  Ahead = (IF Matches(v) THEN PlanLines(v, PlanFor(v)) ELSE {})
                   \cup UNION {PlanLines(w, PlanFor(w)) : w \in {w \in todo \ {v} : Matches(w)}}
<1>1. CASE Matches(v)
  <2>1. {w \in todo : Matches(w)} = {v} \cup {w \in todo \ {v} : Matches(w)}
    BY <1>1
  <2> QED
    BY <1>1, <2>1 DEF Ahead
<1>2. CASE ~Matches(v)
  <2>1. {w \in todo : Matches(w)} = {w \in todo \ {v} : Matches(w)}
    BY <1>2
  <2> QED
    BY <1>2, <2>1 DEF Ahead
<1> QED
  BY <1>1, <1>2

LEMMA PlanForFrame ==
  ASSUME UNCHANGED <<config, sync, source_cache>>, NEW v, archives'[v] = archives[v]
  PROVE  PlanFor(v)' = PlanFor(v) /\ Matches(v)' = Matches(v)
BY DEF PlanFor, Listed, Source, Policy, Matches

-----------------------------------------------------------------------------
(* A step of the work of a command.                                        *)
LEMMA LineKeep ==
  ASSUME LineInv, pc # "idle", pc' # "idle", UNCHANGED <<told, cmd>>,
         cmd = "run" \/ Forecast' = Forecast,
         cmd \in {"run", "dryrun", "measure"} => (report \cup Pending)' = report \cup Pending,
         cmd = "ls" => (LocalOnly(report) \cup Pairs(Pending))' = LocalOnly(report) \cup Pairs(Pending)
  PROVE  LineInv'
<1> SUFFICES ASSUME told' # None
             PROVE  /\ Doing("run")' => Agrees(told.by, told.said, report \cup Pending)'
                    /\ (Doing("dryrun") \/ Doing("measure"))' => (report \cup Pending = Forecast)'
                    /\ Doing("ls")' => (LocalOnly(report) \cup Pairs(Pending) = Pairs(Forecast))'
                    /\ ~Telling' => Agrees(told.by, told.said, Forecast)'
  BY DEF LineInv
<1>1. \A c : Doing(c)' = Doing(c)
  BY DEF Doing
<1>2. Telling' = Telling
  BY <1>1 DEF Telling
<1>3. ASSUME Doing("run")
      PROVE  Agrees(told.by, told.said, report \cup Pending)'
  <2>1. Agrees(told.by, told.said, report \cup Pending) /\ cmd = "run"
    BY <1>3 DEF LineInv, Doing
  <2> QED
    BY <2>1 DEF Agrees
<1>4. ASSUME Doing("dryrun") \/ Doing("measure")
      PROVE  (report \cup Pending = Forecast)'
  BY <1>4 DEF LineInv, Doing
<1>5. ASSUME Doing("ls")
      PROVE  (LocalOnly(report) \cup Pairs(Pending) = Pairs(Forecast))'
  <2>1. /\ LocalOnly(report) \cup Pairs(Pending) = Pairs(Forecast)
        /\ cmd = "ls" /\ Forecast' = Forecast
    BY <1>5 DEF LineInv, Doing
  <2> QED
    BY <2>1
<1>6. ASSUME ~Telling
      PROVE  Agrees(told.by, told.said, Forecast)'
  <2>1. Agrees(told.by, told.said, Forecast) /\ Forecast' = Forecast
    BY <1>6 DEF LineInv, Telling, Doing
  <2> QED
    BY <2>1 DEF Agrees
<1> QED
  BY <1>1, <1>2, <1>3, <1>4, <1>5, <1>6

(* With the same lines printed and still to come, no more need be said.    *)
LEMMA LineSame ==
  ASSUME LineInv, pc # "idle", pc' # "idle", UNCHANGED <<setting, dir, archives, told, cmd, report>>,
         Pending' = Pending
  PROVE  LineInv'
<1>1. Forecast' = Forecast
  BY ForecastFrame
<1> QED
  BY <1>1, LineKeep DEF LocalOnly, Pairs

LEMMA LineInit == Init => LineInv
BY DEF Init, LineInv

(* The first line of a command is still to come.                           *)
LEMMA LineStart ==
  ASSUME ConfigInv, VisitInv, LineInv, NEW c \in setting.commands, Start(c)
  PROVE  LineInv'
<1>1. /\ pc = "idle" /\ pc' = "load" /\ cmd' = c
      /\ told' = IF Foretells(c) THEN [by |-> c] ELSE told
      /\ UNCHANGED <<setting, dir, archives, report>>
  BY DEF Start
<1>2. report' = {} /\ Forecast' = Forecast
  BY <1>1, ForecastFrame DEF VisitInv, FreshCache, Idle
<1>3. Pending' = Forecast'
  BY <1>1 DEF Pending, Inside, Before
<1>4. \A x : Doing(x)' <=> c = x
  BY <1>1 DEF Doing
<1>5. LocalOnly(report)' \cup Pairs(Pending)' = Pairs(Forecast)'
  BY <1>2, <1>3, PairsUnion DEF LocalOnly, Pairs
<1>6. (report \cup Pending)' = Forecast'
  BY <1>2, <1>3
<1>7. CASE Foretells(c)
  <2>1. c \in {"dryrun", "measure", "ls"}
    BY <1>7 DEF Foretells
  <2>2. ~Doing("run")' /\ Telling'
    BY <1>4, <2>1 DEF Telling
  <2> QED
    BY <1>5, <1>6, <2>2 DEF LineInv
<1>8. CASE ~Foretells(c)
  <2>1. told' # None => Agrees(told.by, told.said, Forecast)'
    BY <1>1, <1>2, <1>8 DEF LineInv, Telling, Doing, Agrees
  <2>2. told' # None => Agrees(told.by, told.said, report \cup Pending)'
    BY <1>6, <2>1 DEF Agrees
  <2>3. ~Doing("dryrun")' /\ ~Doing("measure")' /\ ~Doing("ls")'
    BY <1>4, <1>8 DEF Foretells
  <2> QED
    BY <2>1, <2>2, <2>3 DEF LineInv
<1> QED
  BY <1>7, <1>8

(* Listing a source tells what there is to do.                             *)
LEMMA PendingInspect ==
  ASSUME ConfigInv, TypeInv, PlaceInv, InspectSource
  PROVE  /\ todo' = Found(Listing(config.source[Source])) /\ \A v : Matches(v)' = Matches(v)
         /\ Pending = Forecast /\ Pending' = Forecast
<1> DEFINE list == Listing(config.source[Source])
<1>1. /\ pc = "sync" /\ pc' = "volumes"
      /\ source_cache' = [source_cache EXCEPT ![Source] = IF @ = None THEN list ELSE @]
      /\ todo' = Found(source_cache'[Source])
      /\ UNCHANGED <<setting, dir, archives, config, sync, volume, steps>>
  BY DEF InspectSource, stats
<1>2. Source \in Sources /\ Source' = Source
  BY <1>1, FiltersArePatterns DEF ConfigInv, Idle, Source
<1>3. source_cache = [n \in Sources |-> None] /\ sync \in Chosen /\ steps = <<>>
  BY <1>1 DEF PlaceInv, Before, FreshCache, Working
<1>4. source_cache'[Source'] = list
  BY <1>1, <1>2, <1>3
<1>5. Pending = Forecast
  BY <1>1 DEF Pending, Inside, Before
<1>6. Forecast = UNION {PlanLines(v, BuildPlan(list[v], archives[v], Policy)) :
                          v \in {w \in Found(list) : Matches(w)}}
  BY <1>1, <1>3, ForecastIs DEF Idle
<1> HIDE DEF list
<1>7. todo' = Found(list) /\ Policy' = Policy
  BY <1>1, <1>2, <1>4 DEF Policy
<1>8. \A v : PlanFor(v)' = BuildPlan(list[v], archives[v], Policy) /\ Matches(v)' = Matches(v)
  BY <1>1, <1>4, <1>7 DEF PlanFor, Listed, Matches
<1>9. Ahead' = Forecast
  BY <1>6, <1>7, <1>8 DEF Ahead
<1>10. PlanLines(volume, steps)' = {}
  BY <1>1, <1>3, LinesOf, EmptySeq DEF PlanLines
<1>11. Pending' = Forecast
  BY <1>1, <1>9, <1>10 DEF Pending, Inside
<1> QED
  BY <1>5, <1>7, <1>8, <1>11 DEF list

LEMMA LineInspect ==
  ASSUME ConfigInv, TypeInv, PlaceInv, LineInv, InspectSource
  PROVE  LineInv'
<1>1. /\ pc = "sync" /\ pc' = "volumes"
      /\ UNCHANGED <<setting, dir, archives, cmd, report, told>>
  BY DEF InspectSource, stats
<1>2. Pending' = Pending
  BY PendingInspect
<1> QED
  BY <1>1, <1>2, LineSame

(* From here on, what is still to come are the lines of the steps and of   *)
(* the volumes to come to.                                                 *)
LEMMA PendingVolume ==
  ASSUME TypeInv, PlaceInv, NEW v \in todo,
         SkipVolume(v) \/ RunVolume(v) \/ DryrunVolume(v) \/ MeasureVolume(v) \/ ShowVolume(v)
  PROVE  /\ \A w : Matches(w)' = Matches(w)
         /\ Pending = (IF Matches(v) THEN PlanLines(v, PlanFor(v)) ELSE {}) \cup
                        UNION {PlanLines(w, PlanFor(w)) : w \in {w \in todo \ {v} : Matches(w)}}
         /\ Pending' = (IF pc' = "step" THEN PlanLines(volume', steps') ELSE {}) \cup
                        UNION {PlanLines(w, PlanFor(w)) : w \in {w \in todo \ {v} : Matches(w)}}
<1> DEFINE rest == UNION {PlanLines(w, PlanFor(w)) : w \in {w \in todo \ {v} : Matches(w)}}
           lines == PlanLines(v, PlanFor(v))
<1>1. /\ pc = "volumes" /\ pc' \in {"volumes", "step"} /\ todo' = todo \ {v}
      /\ UNCHANGED <<setting, dir, archives, cmd, config, sync, source_cache, told>>
  BY DEF SkipVolume, RunVolume, DryrunVolume, MeasureVolume, ShowVolume, Enter, stats
<1>2. Pending = (IF Matches(v) THEN lines ELSE {}) \cup rest
  <2>1. steps = <<>> /\ PlanLines(volume, steps) = {}
    BY <1>1, LinesOf, EmptySeq DEF PlaceInv, Working, PlanLines
  <2> QED
    BY <1>1, <2>1, AheadSplit DEF Pending, Inside
<1>3. \A w : PlanFor(w)' = PlanFor(w) /\ Matches(w)' = Matches(w)
  BY <1>1, PlanForFrame
<1>4. Ahead' = rest
  BY <1>1, <1>3 DEF Ahead
<1>5. Pending' = PlanLines(volume', steps') \cup rest
  BY <1>1, <1>4 DEF Pending, Inside
<1>6. pc' # "step" => PlanLines(volume', steps') = {}
  <2>1. ASSUME pc' # "step"
        PROVE  steps' = <<>>
    <3>1. steps = <<>> /\ ~RunVolume(v) /\ ~MeasureVolume(v)
      BY <1>1, <2>1 DEF RunVolume, MeasureVolume, PlaceInv, Working
    <3> QED
      BY <3>1 DEF SkipVolume, DryrunVolume, ShowVolume
  <2> QED
    BY <2>1, LinesOf, EmptySeq DEF PlanLines
<1> HIDE DEF rest, lines
<1>7. Pending' = (IF pc' = "step" THEN PlanLines(volume', steps') ELSE {}) \cup rest
  BY <1>5, <1>6
<1> QED
  BY <1>2, <1>3, <1>7 DEF rest, lines

LEMMA LineVolume ==
  ASSUME TypeInv, PlaceInv, LineInv, NEW v \in todo,
         SkipVolume(v) \/ RunVolume(v) \/ DryrunVolume(v) \/ MeasureVolume(v) \/ ShowVolume(v)
  PROVE  LineInv'
<1> DEFINE rest == UNION {PlanLines(w, PlanFor(w)) : w \in {w \in todo \ {v} : Matches(w)}}
           lines == PlanLines(v, PlanFor(v))
<1>1. /\ pc = "volumes" /\ pc' \in {"volumes", "step"} /\ todo' = todo \ {v}
      /\ UNCHANGED <<setting, dir, archives, cmd, config, sync, source_cache, told>>
  BY DEF SkipVolume, RunVolume, DryrunVolume, MeasureVolume, ShowVolume, Enter, stats
<1>2. /\ Pending = (IF Matches(v) THEN lines ELSE {}) \cup rest
      /\ Pending' = (IF pc' = "step" THEN PlanLines(volume', steps') ELSE {}) \cup rest
  BY PendingVolume
<1>4. Pending' = (IF pc' = "step" THEN PlanLines(volume', steps') ELSE {}) \cup rest
  BY <1>2
<1>5. Forecast' = Forecast
  BY <1>1, ForecastFrame
<1> HIDE DEF rest, lines
<1>7. CASE SkipVolume(v)
  <2>1. ~Matches(v) /\ UNCHANGED <<volume, steps, report>> /\ pc' = "volumes"
    BY <1>7 DEF SkipVolume
  <2>2. Pending' = Pending
    BY <1>2, <1>4, <2>1
  <2> QED
    BY <1>1, <2>1, <2>2, LineSame
<1>8. CASE RunVolume(v) \/ MeasureVolume(v)
  <2>1. Matches(v) /\ volume' = v /\ steps' = PlanFor(v) /\ UNCHANGED report /\ pc' = "step"
    BY <1>8 DEF RunVolume, MeasureVolume, Enter
  <2>2. Pending' = Pending
    BY <1>2, <1>4, <2>1 DEF lines
  <2> QED
    BY <1>1, <2>1, <2>2, LineSame
<1>9. CASE DryrunVolume(v)
  <2>1. /\ Matches(v) /\ cmd = "dryrun" /\ pc' = "volumes"
        /\ report' = report \cup lines
    BY <1>9 DEF DryrunVolume, Enter, lines
  <2>2. (report \cup Pending)' = report \cup Pending
    BY <1>2, <1>4, <2>1
  <2> QED
    BY <1>1, <1>5, <2>1, <2>2, LineKeep
<1>10. CASE ShowVolume(v)
  <2>1. /\ Matches(v) /\ cmd \in {"ls", "ls_restore", "status"} /\ pc' = "volumes"
        /\ report' = report \cup Printed(v)
    BY <1>10 DEF ShowVolume, Enter
  <2>2. ASSUME cmd = "ls"
        PROVE  (LocalOnly(report) \cup Pairs(Pending))' = LocalOnly(report) \cup Pairs(Pending)
    <3>1. Printed(v) = SnapshotTable(v, Listed(v), archives[v])
      BY <2>2 DEF Printed
    <3>2. LocalOnly(Printed(v)) = Pairs(lines)
      BY <1>1, <3>1, TablePairs DEF lines
    <3>3. LocalOnly(report') = LocalOnly(report) \cup Pairs(lines)
      <4>1. LocalOnly(report \cup Printed(v)) = LocalOnly(report) \cup LocalOnly(Printed(v))
        BY PairsUnion
      <4> QED
        BY <2>1, <3>2, <4>1
    <3>4. Pending = lines \cup rest /\ Pending' = rest
      BY <1>2, <1>4, <2>1
    <3>5. Pairs(Pending) = Pairs(lines) \cup Pairs(rest) /\ Pairs(Pending') = Pairs(rest)
      <4>1. Pairs(lines \cup rest) = Pairs(lines) \cup Pairs(rest)
        BY PairsUnion
      <4> QED
        BY <3>4, <4>1
    <3> QED
      BY <3>3, <3>5 DEF LocalOnly, Pairs
  <2> QED
    BY <1>1, <1>5, <2>1, <2>2, LineKeep
<1> QED
  BY <1>7, <1>8, <1>9, <1>10

(* A step that is done is no longer to come.                               *)
LEMMA PendingSend ==
  ASSUME TypeInv, PlaceInv, FinishSend
  PROVE  /\ \A w : Matches(w)' = Matches(w)
         /\ Pending = PlanLines(volume, <<Head(steps)>>) \cup Pending'
<1> DEFINE x == Head(steps)
<1>1. /\ pc = "send" /\ pc' = "step" /\ steps' = Tail(steps)
      /\ archives' = archives \/ archives' = [archives EXCEPT ![volume][x.snap] =
                       [parent |-> x.parent, size |-> Size[x.snap][x.parent]]]
      /\ UNCHANGED <<config, sync, source_cache, todo, volume>>
  BY DEF FinishSend
<1>2. steps # <<>> /\ volume \notin todo /\ steps \in Seq(OlderStep) /\ todo \subseteq Volumes
  BY <1>1 DEF TypeInv, PlaceInv, Working
<1>3. PlanLines(volume, steps) = PlanLines(volume, <<x>>) \cup PlanLines(volume, Tail(steps))
  BY <1>2, LinesOf
<1>4. \A w : Matches(w)' = Matches(w)
  BY <1>1 DEF Matches
<1>5. Ahead' = Ahead
  <2>1. DOMAIN archives = Volumes
    BY DEF TypeInv
  <2> HIDE DEF x
  <2>2. ASSUME NEW w \in todo
        PROVE  archives'[w] = archives[w]
    BY <1>1, <1>2, <2>1
  <2>3. \A w \in todo : PlanFor(w)' = PlanFor(w)
    BY <1>1, <2>2, PlanForFrame
  <2> QED
    BY <1>1, <1>4, <2>3 DEF Ahead
<1> HIDE DEF x
<1>6. Pending = PlanLines(volume, <<x>>) \cup Pending'
  BY <1>1, <1>3, <1>5 DEF Pending, Inside
<1> QED
  BY <1>4, <1>6 DEF x

LEMMA LineSend ==
  ASSUME TypeInv, PlaceInv, LineInv, FinishSend
  PROVE  LineInv'
<1>1. /\ pc = "send" /\ pc' = "step" /\ cmd \in {"run", "measure"}
      /\ report' = report \cup PlanLines(volume, <<Head(steps)>>)
      /\ cmd = "measure" => archives' = archives
      /\ UNCHANGED <<setting, dir, cmd, told>>
  BY DEF FinishSend
<1>2. Pending = PlanLines(volume, <<Head(steps)>>) \cup Pending'
  BY PendingSend
<1>3. (report \cup Pending)' = report \cup Pending
  BY <1>1, <1>2
<1>4. cmd = "run" \/ Forecast' = Forecast
  BY <1>1, ForecastFrame
<1> QED
  BY <1>1, <1>3, <1>4, LineKeep

(* Nothing was to come of a volume or sync that is done.                   *)
LEMMA PendingDone ==
  ASSUME PlaceInv, VisitInv, FinishVolume \/ FinishSync
  PROVE  /\ \A w : Matches(w)' = Matches(w)
         /\ Pending' = Pending
         /\ FinishSync => Pending = {}
<1>1. /\ UNCHANGED <<archives, config, todo_syncs, sync, source_cache, todo, steps>>
      /\ pc \in {"step", "volumes"} /\ pc' \in {"volumes", "syncs"}
      /\ steps = <<>>
      /\ pc' = "syncs" => todo = {}
      /\ FinishSync => pc' = "syncs"
  BY DEF FinishVolume, FinishSync, loop, stats, PlaceInv, Working
<1>2. todo_syncs = {}
  BY <1>1 DEF VisitInv
<1>3. Ahead' = Ahead /\ \A w : Matches(w)' = Matches(w)
  BY <1>1, PlanForFrame DEF Ahead
<1>4. PlanLines(volume, steps) = {} /\ PlanLines(volume', steps') = {}
  BY <1>1, LinesOf, EmptySeq DEF PlanLines
<1>5. Pending = Ahead
  BY <1>1, <1>4 DEF Pending, Inside
<1>6. CASE pc' = "volumes"
  <2>1. Pending' = Pending
    BY <1>3, <1>4, <1>5, <1>6 DEF Pending, Inside
  <2> QED
    BY <1>1, <1>3, <1>6, <2>1
<1>7. CASE pc' = "syncs"
  <2>1. Ahead = {}
    BY <1>1, <1>7 DEF Ahead
  <2>2. Pending' = {}
    BY <1>1, <1>2, <1>7 DEF Pending, Inside, Before
  <2> QED
    BY <1>3, <1>5, <2>1, <2>2
<1> QED
  BY <1>1, <1>6, <1>7

LEMMA LineDone ==
  ASSUME PlaceInv, VisitInv, LineInv, FinishVolume \/ FinishSync
  PROVE  LineInv'
<1>1. /\ UNCHANGED <<setting, dir, archives, cmd, report, told>>
      /\ pc \in {"step", "volumes"} /\ pc' \in {"volumes", "syncs"}
  BY DEF FinishVolume, FinishSync, loop, stats
<1>2. Pending' = Pending
  BY PendingDone
<1> QED
  BY <1>1, <1>2, LineSame

(* A command has ended well: all it had to say has been said.              *)
LEMMA LineEnd ==
  ASSUME ConfigInv, VisitInv, LineInv, FinishCommand
  PROVE  LineInv'
<1> SUFFICES ASSUME told' # None
             PROVE  Agrees(told.by, told.said, Forecast)' /\ ~Telling'
                    /\ \A c : ~Doing(c)'
  BY DEF LineInv
<1>1. /\ pc = "syncs" /\ todo_syncs = {} /\ pc' = "idle"
      /\ UNCHANGED <<setting, dir, archives>>
  BY DEF FinishCommand, Exit
<1>2. Pending = {} /\ Forecast' = Forecast
  BY <1>1, ForecastFrame DEF Pending, Inside, Before
<1>3. \A c : ~Doing(c)'
  BY <1>1 DEF Doing
<1>4. ~Telling'
  BY <1>3 DEF Telling
<1>5. cmd # "run" /\ told # None
  BY DEF FinishCommand, Foretells
<1>6. CASE Foretells(cmd)
  <2>1. told'.by = cmd /\ told'.said = report
    BY <1>5, <1>6 DEF FinishCommand
  <2>2. CASE cmd = "ls"
    <3>1. LocalOnly(report) \cup Pairs(Pending) = Pairs(Forecast)
      BY <1>1, <1>5, <2>2 DEF LineInv, Doing
    <3>2. LocalOnly(report) = Pairs(Forecast)
      <4>1. Pairs(Pending) = {}
        BY <1>2 DEF Pairs
      <4> QED
        BY <3>1, <4>1
    <3> QED
      BY <1>2, <1>3, <1>4, <2>1, <2>2, <3>2 DEF Agrees
  <2>3. CASE cmd # "ls"
    <3>1. cmd \in {"dryrun", "measure"}
      BY <1>6, <2>3 DEF Foretells
    <3>2. report = Forecast
      BY <1>1, <1>2, <1>5, <3>1 DEF LineInv, Doing
    <3> QED
      BY <1>2, <1>3, <1>4, <2>1, <2>3, <3>2 DEF Agrees
  <2> QED
    BY <2>2, <2>3
<1>7. CASE ~Foretells(cmd)
  <2>1. told' = told
    BY <1>5, <1>7 DEF FinishCommand
  <2>2. ~Telling
    BY <1>5, <1>7 DEF Telling, Doing, Foretells
  <2>3. Agrees(told.by, told.said, Forecast)
    BY <1>5, <2>2 DEF LineInv
  <2> QED
    BY <1>2, <1>3, <1>4, <2>1, <2>3 DEF Agrees
<1> QED
  BY <1>6, <1>7

(* A command that has not begun has said nothing and changed nothing.      *)
LEMMA LineRefuse ==
  ASSUME PlaceInv, LineInv, RefuseConfig
  PROVE  LineInv'
<1> SUFFICES ASSUME told' # None
             PROVE  Agrees(told.by, told.said, Forecast)' /\ ~Telling'
                    /\ \A c : ~Doing(c)'
  BY DEF LineInv
<1>1. /\ pc = "load" /\ pc' = "idle" /\ ~Foretells(cmd) /\ told' = told
      /\ UNCHANGED <<setting, dir, archives>>
  BY DEF RefuseConfig, Exit
<1>2. report = {} /\ Pending = Forecast
  BY <1>1 DEF PlaceInv, Before, FreshCache, Pending, Inside
<1>3. Forecast' = Forecast
  BY <1>1, ForecastFrame
<1>4. \A c : ~Doing(c)'
  BY <1>1 DEF Doing
<1>5. ~Telling'
  BY <1>4 DEF Telling
<1>6. Agrees(told.by, told.said, Forecast)
  <2>1. CASE cmd = "run"
    <3>1. Agrees(told.by, told.said, report \cup Pending)
      BY <1>1, <2>1 DEF LineInv, Doing
    <3>2. report \cup Pending = Forecast
      BY <1>2
    <3> QED
      BY <3>1, <3>2
  <2>2. CASE cmd # "run"
    <3>1. ~Telling
      BY <1>1, <2>2 DEF Telling, Doing, Foretells
    <3> QED
      BY <1>1, <3>1 DEF LineInv
  <2> QED
    BY <2>1, <2>2
<1> QED
  BY <1>1, <1>3, <1>4, <1>5, <1>6 DEF Agrees

LEMMA LineStep ==
  ConfigInv /\ TypeInv /\ VisitInv /\ PlaceInv /\ LineInv /\ [Next]_vars => LineInv'
<1> SUFFICES ASSUME ConfigInv, TypeInv, VisitInv, PlaceInv, LineInv, [Next]_vars
             PROVE  LineInv'
  OBVIOUS
<1> USE DEF loop, stats
<1>1. ASSUME told' = None
      PROVE  LineInv'
  BY <1>1 DEF LineInv
<1>2. CASE \/ RefuseSudo \/ Fail
           \/ \E e \in setting.later : SnapCreate(e)
           \/ \E v \in todo : BrokenVolume(v)
  BY <1>1, <1>2 DEF RefuseSudo, Fail, SnapCreate, BrokenVolume
<1>3. ASSUME NEW c \in setting.commands, Start(c)
      PROVE  LineInv'
  BY <1>3, LineStart
<1>4. CASE LoadConfig
  <2>1. /\ pc = "load" /\ pc' = "syncs" /\ todo_syncs' = Chosen
        /\ UNCHANGED <<setting, dir, archives, cmd, report, told>>
    BY <1>4 DEF LoadConfig, Usable, Chosen
  <2>2. Forecast' = Forecast
    BY <2>1, ForecastFrame
  <2>3. Chosen = {} => Forecast = {}
    BY DEF Forecast
  <2>4. Pending' = Pending
    BY <2>1, <2>2, <2>3 DEF Pending, Inside, Before
  <2> QED
    BY <2>1, <2>4, LineSame
<1>5. CASE RefuseConfig
  BY <1>5, LineRefuse
<1>6. ASSUME NEW s \in todo_syncs, NextSync(s)
      PROVE  LineInv'
  <2>1. /\ pc = "syncs" /\ pc' = "sync"
        /\ UNCHANGED <<setting, dir, archives, cmd, report, told>>
    BY <1>6 DEF NextSync
  <2>2. Forecast' = Forecast
    BY <2>1, ForecastFrame
  <2>3. Pending' = Pending
    BY <2>1, <2>2 DEF Pending, Inside, Before
  <2> QED
    BY <2>1, <2>3, LineSame
<1>7. CASE InspectSource
  BY <1>7, LineInspect
<1>8. CASE \E v \in todo : \/ SkipVolume(v) \/ RunVolume(v) \/ DryrunVolume(v)
                           \/ MeasureVolume(v) \/ ShowVolume(v)
  BY <1>8, LineVolume
<1>9. CASE FinishSend
  BY <1>9, LineSend
<1>10. CASE FinishVolume \/ FinishSync
  BY <1>10, LineDone
<1>11. CASE FinishCommand
  BY <1>11, LineEnd
<1>12. CASE EnsureSudo \/ StartSend
  <2>1. /\ pc = "step" /\ pc' \in {"step", "send"}
        /\ UNCHANGED <<setting, dir, archives, cmd, loop, report, told>>
    BY <1>12 DEF EnsureSudo, StartSend
  <2>2. Ahead' = Ahead
    BY <2>1, PlanForFrame DEF Ahead
  <2>3. Pending' = Pending
    BY <2>1, <2>2 DEF Pending, Inside
  <2> QED
    BY <2>1, <2>3, LineSame
<1>13. CASE Time \/ UNCHANGED vars
  <2>1. UNCHANGED <<setting, dir, archives, pc, cmd, loop, report, told>>
    BY <1>13 DEF Time, vars
  <2>2. Ahead' = Ahead /\ Forecast' = Forecast
    BY <2>1, PlanForFrame, ForecastFrame DEF Ahead
  <2>3. Pending' = Pending
    BY <2>1, <2>2 DEF Pending, Inside, Before
  <2>4. /\ Telling' = Telling
        /\ \A c : Doing(c)' = Doing(c)
    BY <2>1 DEF Telling, Doing
  <2> QED
    BY <2>1, <2>2, <2>3, <2>4 DEF LineInv, Agrees, LocalOnly, Pairs
<1> QED
  BY <1>2, <1>3, <1>4, <1>5, <1>6, <1>7, <1>8, <1>9, <1>10, <1>11, <1>12, <1>13 DEF Next, Work

-----------------------------------------------------------------------------
(* Statistics are the statistics of a set.                                 *)

Stats == [full_count : Nat, full_size : Nat, incremental_count : Nat, incremental_size : Nat]

(* The bytes of the archives in L, one by one.                             *)
Units(L) == {p \in L \X Nat : p[2] \in 1 .. p[1].size}
Countable(L) == IsFiniteSet(L) /\ IsFiniteSet(Units(L))
Full(L) == {x \in L : x.parent = None}
StatsOf(L) ==
  [full_count |-> Cardinality(Full(L)), full_size |-> Cardinality(Units(Full(L))),
   incremental_count |-> Cardinality(L \ Full(L)),
   incremental_size |-> Cardinality(Units(L \ Full(L)))]

LEMMA UnitsParts ==
  ASSUME NEW L, NEW M
  PROVE  /\ Units(L \cup M) = Units(L) \cup Units(M)
         /\ L \cap M = {} => Units(L) \cap Units(M) = {}
         /\ L \subseteq M => Units(L) \subseteq Units(M)
         /\ Units({}) = {}
BY DEF Units

(* A part of something countable.                                          *)
LEMMA CountPart ==
  ASSUME NEW M, Countable(M), NEW L \in SUBSET M
  PROVE  /\ Countable(L)
         /\ Cardinality(L) \in Nat /\ Cardinality(Units(L)) \in Nat
<1>1. IsFiniteSet(M) /\ IsFiniteSet(Units(M)) /\ Units(L) \in SUBSET Units(M)
  BY UnitsParts DEF Countable
<1>2. IsFiniteSet(L) /\ IsFiniteSet(Units(L))
  BY <1>1, FS_Subset
<1> QED
  BY <1>2, FS_CardinalityType DEF Countable

(* Two sets without common elements.                                       *)
LEMMA CountUnion ==
  ASSUME NEW L, Countable(L), NEW M, Countable(M), L \cap M = {}
  PROVE  /\ Countable(L \cup M)
         /\ Cardinality(L \cup M) = Cardinality(L) + Cardinality(M)
         /\ Cardinality(Units(L \cup M)) = Cardinality(Units(L)) + Cardinality(Units(M))
<1>1. /\ IsFiniteSet(L) /\ IsFiniteSet(M) /\ IsFiniteSet(Units(L)) /\ IsFiniteSet(Units(M))
      /\ Cardinality(L) \in Nat /\ Cardinality(M) \in Nat
      /\ Cardinality(Units(L)) \in Nat /\ Cardinality(Units(M)) \in Nat
  BY FS_CardinalityType DEF Countable
<1>2. Cardinality({}) = 0
  BY FS_EmptySet
<1>3. IsFiniteSet(L \cup M) /\ Cardinality(L \cup M) = Cardinality(L) + Cardinality(M)
  <2>1. /\ IsFiniteSet(L \cup M)
        /\ Cardinality(L \cup M) = Cardinality(L) + Cardinality(M) - Cardinality(L \cap M)
    BY <1>1, FS_Union
  <2>2. Cardinality(L \cap M) = 0
    BY <1>2, Zenon
  <2> QED
    BY <1>1, <2>1, <2>2
<1>4. Units(L) \cap Units(M) = {} /\ Units(L \cup M) = Units(L) \cup Units(M)
  BY UnitsParts
<1>5. /\ IsFiniteSet(Units(L \cup M))
      /\ Cardinality(Units(L \cup M)) = Cardinality(Units(L)) + Cardinality(Units(M))
  <2>1. /\ IsFiniteSet(Units(L) \cup Units(M))
        /\ Cardinality(Units(L) \cup Units(M)) =
             Cardinality(Units(L)) + Cardinality(Units(M)) - Cardinality(Units(L) \cap Units(M))
    BY <1>1, FS_Union
  <2>2. Cardinality(Units(L) \cap Units(M)) = 0
    BY <1>2, <1>4, Zenon
  <2>3. Cardinality(Units(L) \cup Units(M)) = Cardinality(Units(L)) + Cardinality(Units(M))
    BY <1>1, <2>1, <2>2
  <2> QED
    BY <1>4, <2>1, <2>3, Zenon
<1> QED
  BY <1>3, <1>5 DEF Countable

LEMMA StatsEmpty == Countable({}) /\ StatsOf({}) = NoStats
<1>1. Units({}) = {}
  BY UnitsParts
<1>2. IsFiniteSet({}) /\ Cardinality({}) = 0
  BY FS_EmptySet
<1>3. Full({}) = {}
  BY DEF Full
<1> QED
  BY <1>1, <1>2, <1>3 DEF Countable, StatsOf, NoStats

LEMMA StatsMerge ==
  ASSUME NEW L, Countable(L), NEW M, Countable(M), L \cap M = {}
  PROVE  /\ Countable(L \cup M)
         /\ StatsOf(L \cup M) = Merge(StatsOf(L), StatsOf(M))
<1> DEFINE x == Full(L)
           y == Full(M)
           u == L \ x
           w == M \ y
<1>1. /\ x \in SUBSET L /\ u \in SUBSET L /\ y \in SUBSET M /\ w \in SUBSET M
  BY DEF Full
<1>2. /\ Full(L \cup M) = x \cup y
      /\ (L \cup M) \ Full(L \cup M) = u \cup w
      /\ x \cap y = {} /\ u \cap w = {}
  BY DEF Full
<1> HIDE DEF x, y, u, w
<1>3. Countable(x) /\ Countable(u) /\ Countable(y) /\ Countable(w)
  BY <1>1, CountPart
<1>4. /\ Cardinality(x \cup y) = Cardinality(x) + Cardinality(y)
      /\ Cardinality(Units(x \cup y)) = Cardinality(Units(x)) + Cardinality(Units(y))
  BY <1>2, <1>3, CountUnion
<1>5. /\ Cardinality(u \cup w) = Cardinality(u) + Cardinality(w)
      /\ Cardinality(Units(u \cup w)) = Cardinality(Units(u)) + Cardinality(Units(w))
  BY <1>2, <1>3, CountUnion
<1>6. StatsOf(L) = [full_count |-> Cardinality(x), full_size |-> Cardinality(Units(x)),
                    incremental_count |-> Cardinality(u),
                    incremental_size |-> Cardinality(Units(u))]
  BY DEF StatsOf, x, u
<1>7. StatsOf(M) = [full_count |-> Cardinality(y), full_size |-> Cardinality(Units(y)),
                    incremental_count |-> Cardinality(w),
                    incremental_size |-> Cardinality(Units(w))]
  BY DEF StatsOf, y, w
<1>8. StatsOf(L \cup M) =
        [full_count |-> Cardinality(x) + Cardinality(y),
         full_size |-> Cardinality(Units(x)) + Cardinality(Units(y)),
         incremental_count |-> Cardinality(u) + Cardinality(w),
         incremental_size |-> Cardinality(Units(u)) + Cardinality(Units(w))]
  BY <1>2, <1>4, <1>5 DEF StatsOf
<1>9. Countable(L \cup M)
  BY CountUnion
<1> QED
  BY <1>6, <1>7, <1>8, <1>9 DEF Merge

LEMMA StatsType ==
  ASSUME NEW L, Countable(L)
  PROVE  StatsOf(L) \in Stats
<1>1. Full(L) \in SUBSET L /\ L \ Full(L) \in SUBSET L
  BY DEF Full
<1>2. /\ Cardinality(Full(L)) \in Nat /\ Cardinality(Units(Full(L))) \in Nat
      /\ Cardinality(L \ Full(L)) \in Nat /\ Cardinality(Units(L \ Full(L))) \in Nat
  BY <1>1, CountPart
<1> QED
  BY <1>2 DEF StatsOf, Stats

(* Records of four numbers.                                                *)
Counts(a, b, c, d) ==
  [full_count |-> a, full_size |-> b, incremental_count |-> c, incremental_size |-> d]

LEMMA AddSizeIs ==
  ASSUME NEW a \in Nat, NEW b \in Nat, NEW c \in Nat, NEW d \in Nat, NEW parent, NEW n \in Nat
  PROVE  AddSize(Counts(a, b, c, d), parent, n) =
           IF parent = None THEN Counts(a + 1, b + n, c, d) ELSE Counts(a, b, c + 1, d + n)
<1> DEFINE st == Counts(a, b, c, d)
<1>1. /\ st.full_count = a /\ st.full_size = b
      /\ st.incremental_count = c /\ st.incremental_size = d
  BY DEF Counts
<1>2. CASE parent = None
  <2>1. AddSize(st, parent, n) = [st EXCEPT !.full_count = a + 1, !.full_size = b + n]
    BY <1>1, <1>2 DEF AddSize
  <2>2. [Counts(a, b, c, d) EXCEPT !.full_count = a + 1] = Counts(a + 1, b, c, d)
    BY DEF Counts
  <2>3. [Counts(a + 1, b, c, d) EXCEPT !.full_size = b + n] = Counts(a + 1, b + n, c, d)
    BY DEF Counts
  <2> QED
    BY <1>2, <2>1, <2>2, <2>3
<1>3. CASE parent # None
  <2>1. AddSize(st, parent, n) = [st EXCEPT !.incremental_count = c + 1, !.incremental_size = d + n]
    BY <1>1, <1>3 DEF AddSize
  <2>2. [Counts(a, b, c, d) EXCEPT !.incremental_count = c + 1] = Counts(a, b, c + 1, d)
    BY DEF Counts
  <2>3. [Counts(a, b, c + 1, d) EXCEPT !.incremental_size = d + n] = Counts(a, b, c + 1, d + n)
    BY DEF Counts
  <2> QED
    BY <1>3, <2>1, <2>2, <2>3
<1> QED
  BY <1>2, <1>3

LEMMA AddSizeFirst ==
  ASSUME NEW parent, NEW n \in Nat
  PROVE  AddSize(NoStats, parent, n) =
           IF parent = None THEN Counts(1, n, 0, 0) ELSE Counts(0, 0, 1, n)
<1>1. NoStats = Counts(0, 0, 0, 0)
  BY DEF NoStats, Counts
<1>2. AddSize(Counts(0, 0, 0, 0), parent, n) =
        IF parent = None THEN Counts(0 + 1, 0 + n, 0, 0) ELSE Counts(0, 0, 0 + 1, 0 + n)
  BY AddSizeIs
<1> QED
  BY <1>1, <1>2

LEMMA StatsOne ==
  ASSUME NEW x, x.size \in Nat
  PROVE  Countable({x}) /\ StatsOf({x}) = AddSize(NoStats, x.parent, x.size)
<1> DEFINE n == x.size
           f == [i \in 1 .. n |-> <<x, i>>]
<1>1. IsFiniteSet(1 .. n) /\ Cardinality(1 .. n) = n
  BY FS_Interval
<1>2. f \in Bijection(1 .. n, Units({x}))
  <2>1. \A i \in 1 .. n : f[i] = <<x, i>> /\ f[i] \in Units({x})
    BY DEF Units
  <2>2. \A p \in Units({x}) : p[2] \in 1 .. n /\ p = <<x, p[2]>>
    BY DEF Units
  <2>3. f \in [1 .. n -> Units({x})]
    BY <2>1
  <2>4. \A i, j \in 1 .. n : f[i] = f[j] => i = j
    BY <2>1
  <2>5. \A p \in Units({x}) : \E i \in 1 .. n : f[i] = p
    BY <2>1, <2>2
  <2> HIDE DEF f
  <2> QED
    BY <2>3, <2>4, <2>5 DEF Bijection, Injection, Surjection, IsInjective
<1>3. IsFiniteSet(Units({x})) /\ Cardinality(Units({x})) = n
  BY <1>1, <1>2, FS_Bijection DEF ExistsBijection
<1>4. IsFiniteSet({x}) /\ Cardinality({x}) = 1
  BY FS_Singleton
<1>5. Units({}) = {} /\ Cardinality({}) = 0
  BY UnitsParts, FS_EmptySet
<1>8. AddSize(NoStats, x.parent, n) =
        IF x.parent = None THEN Counts(1, n, 0, 0) ELSE Counts(0, 0, 1, n)
  BY AddSizeFirst
<1>6. CASE x.parent = None
  <2>1. Full({x}) = {x} /\ {x} \ Full({x}) = {}
    BY <1>6 DEF Full
  <2> QED
    BY <1>3, <1>4, <1>5, <1>6, <1>8, <2>1 DEF StatsOf, Countable, Counts
<1>7. CASE x.parent # None
  <2>1. Full({x}) = {} /\ {x} \ Full({x}) = {x}
    BY <1>7 DEF Full
  <2> QED
    BY <1>3, <1>4, <1>5, <1>7, <1>8, <2>1 DEF StatsOf, Countable, Counts
<1> QED
  BY <1>6, <1>7

LEMMA StatsAdd ==
  ASSUME NEW L, Countable(L), NEW x, x.size \in Nat, x \notin L
  PROVE  /\ Countable(L \cup {x})
         /\ StatsOf(L \cup {x}) = AddSize(StatsOf(L), x.parent, x.size)
<1>1. /\ Countable(L \cup {x})
      /\ StatsOf(L \cup {x}) = Merge(StatsOf(L), StatsOf({x}))
  BY StatsOne, StatsMerge
<1>2. StatsOf(L) \in Stats
  BY StatsType
<1>3. StatsOf({x}) = AddSize(NoStats, x.parent, x.size)
  BY StatsOne
<1>4. \A n \in Nat : \A st \in Stats :
        Merge(st, AddSize(NoStats, x.parent, n)) = AddSize(st, x.parent, n)
  <2> SUFFICES ASSUME NEW n \in Nat, NEW st \in Stats
               PROVE  Merge(st, AddSize(NoStats, x.parent, n)) = AddSize(st, x.parent, n)
    OBVIOUS
  <2>1. PICK a \in Nat, b \in Nat, c \in Nat, d \in Nat : st = Counts(a, b, c, d)
    BY DEF Stats, Counts
  <2>3. CASE x.parent = None
    <3>1. AddSize(NoStats, x.parent, n) = Counts(1, n, 0, 0)
      BY <2>3, AddSizeFirst
    <3>2. AddSize(st, x.parent, n) = Counts(a + 1, b + n, c, d)
      BY <2>1, <2>3, AddSizeIs
    <3>3. Merge(Counts(a, b, c, d), Counts(1, n, 0, 0)) = Counts(a + 1, b + n, c + 0, d + 0)
      BY DEF Merge, Counts
    <3>4. c + 0 = c /\ d + 0 = d
      OBVIOUS
    <3> QED
      BY <2>1, <3>1, <3>2, <3>3, <3>4, Zenon
  <2>4. CASE x.parent # None
    <3>1. AddSize(NoStats, x.parent, n) = Counts(0, 0, 1, n)
      BY <2>4, AddSizeFirst
    <3>2. AddSize(st, x.parent, n) = Counts(a, b, c + 1, d + n)
      BY <2>1, <2>4, AddSizeIs
    <3>3. Merge(Counts(a, b, c, d), Counts(0, 0, 1, n)) = Counts(a + 0, b + 0, c + 1, d + n)
      BY DEF Merge, Counts
    <3>4. a + 0 = a /\ b + 0 = b
      OBVIOUS
    <3> QED
      BY <2>1, <3>1, <3>2, <3>3, <3>4, Zenon
  <2> QED
    BY <2>3, <2>4
<1> QED
  BY <1>1, <1>2, <1>3, <1>4

(* The archives of a volume.                                               *)
Item(v, m, t) == [volume |-> v, snap |-> t, parent |-> m[t].parent, size |-> m[t].size]
Items(v, m) == {Item(v, m, t) : t \in Archived(m)}

LEMMA AddSizeType ==
  ASSUME NEW st \in Stats, NEW parent, NEW n \in Nat
  PROVE  AddSize(st, parent, n) \in Stats
<1>1. PICK a \in Nat, b \in Nat, c \in Nat, d \in Nat : st = Counts(a, b, c, d)
  BY DEF Stats, Counts
<1>2. AddSize(st, parent, n) =
        IF parent = None THEN Counts(a + 1, b + n, c, d) ELSE Counts(a, b, c + 1, d + n)
  BY <1>1, AddSizeIs
<1> QED
  BY <1>2 DEF Counts, Stats

(* The fold over the archives of a volume gives their statistics, in       *)
(* whatever order it takes them.                                           *)
LEMMA FromMetaIs ==
  ASSUME NEW v, NEW m \in [Snaps -> Archive \cup {None}]
  PROVE  Countable(Items(v, m)) /\ FromMeta(m) = StatsOf(Items(v, m))
<1> DEFINE all == Archived(m)
           any(s) == CHOOSE t \in s : TRUE
           next(t, st) == AddSize(st, m[t].parent, m[t].size)
           iter[s \in SUBSET all] ==
             IF s = {} THEN NoStats ELSE next(any(s), iter[s \ {any(s)}])
           pick == [s \in SUBSET all |-> any(s)]
           F == [x \in all \X Stats |-> next(x[1], x[2])]
           Part(s) == {Item(v, m, t) : t \in s}
<1>1. FromMeta(m) = iter[all]
  BY Zenon DEF FromMeta, FoldSet, MapThenFoldSet
<1>2. all \in SUBSET Snaps /\ \A t \in all : m[t].size \in Nat
  BY DEF Archived, Archive
<1>3. IsFiniteSet(all)
  BY <1>2, SnapsAssumption, FS_Subset
<1>4. \A t \in all : \A st \in Stats : next(t, st) \in Stats
  <2> HIDE DEF all
  <2> QED
    BY <1>2, AddSizeType
<1>5. NoStats \in Stats
  BY DEF NoStats, Stats
<1>6. F \in [all \X Stats -> Stats] /\ \A t \in all : \A st \in Stats : F[<<t, st>>] = next(t, st)
  <2> HIDE DEF next, all
  <2> QED
    BY <1>4
<1>7. ASSUME NEW s \in SUBSET all, s # {}
      PROVE  /\ any(s) \in all /\ any(s) \in s /\ s \ {any(s)} \in SUBSET all
             /\ pick[s] = any(s)
  <2>1. any(s) \in s
    <3>1. \E t : t \in s
      BY <1>7
    <3> QED
      BY <3>1, Zenon
  <2> HIDE DEF any, all
  <2> QED
    BY <2>1
<1>8. Picks(pick, all)
  <2> HIDE DEF pick, all, any
  <2> QED
    BY <1>7 DEF Picks
<1>9. PICK g \in [SUBSET all -> Stats] : IsFold(g, NoStats, F, pick, all)
  <2> HIDE DEF F, pick, all
  <2> QED
    BY <1>3, <1>5, <1>6, <1>8, FoldExists
<1>10. ASSUME NEW s \in SUBSET all
       PROVE  g[s] = IF s = {} THEN NoStats ELSE next(any(s), g[s \ {any(s)}])
  <2> HIDE DEF F, all, pick, next, any
  <2>1. g[s] = IF s = {} THEN NoStats ELSE F[<<pick[s], g[s \ {pick[s]}]>>]
    BY <1>9 DEF IsFold
  <2>2. CASE s = {}
    BY <2>1, <2>2
  <2>3. CASE s # {}
    <3>1. g[s] = F[<<any(s), g[s \ {any(s)}]>>]
      BY <1>7, <2>1, <2>3
    <3>2. g[s \ {any(s)}] \in Stats
      BY <1>7, <2>3
    <3> QED
      BY <1>6, <1>7, <2>3, <3>1, <3>2
  <2> QED
    BY <2>2, <2>3
<1>11. \E h : h = [s \in SUBSET all |-> IF s = {} THEN NoStats ELSE next(any(s), h[s \ {any(s)}])]
  <2> HIDE DEF F, all, pick, next, any
  <2>1. g = [s \in SUBSET all |-> IF s = {} THEN NoStats ELSE next(any(s), g[s \ {any(s)}])]
    BY <1>10
  <2> QED
    BY <2>1
<1>12. iter = [s \in SUBSET all |->
                 IF s = {} THEN NoStats ELSE next(any(s), iter[s \ {any(s)}])]
  <2> HIDE DEF F, all, pick, next, any
  <2> QED
    BY <1>11, Zenon
<1>13. \A s \in SUBSET all :
         iter[s] = IF s = {} THEN NoStats ELSE next(any(s), iter[s \ {any(s)}])
  <2> HIDE DEF F, all, pick, next, any, iter
  <2> QED
    BY <1>12, Zenon
<1> DEFINE Q == {s \in SUBSET all : Countable(Part(s)) /\ iter[s] = StatsOf(Part(s))}
<1>14. {} \in Q
  <2>1. iter[{}] = NoStats
    <3> HIDE DEF next, any, iter, all
    <3> QED
      BY <1>13
  <2>2. Part({}) = {}
    OBVIOUS
  <2> HIDE DEF iter, all, Part
  <2> QED
    BY <2>1, <2>2, StatsEmpty
<1>15. ASSUME NEW s \in SUBSET all, s # {}, s \ {pick[s]} \in Q
       PROVE  s \in Q
  <2> DEFINE t == any(s)
             x == Item(v, m, t)
             rest == s \ {t}
  <2>1. t \in s /\ t \in all /\ pick[s] = t
    BY <1>7, <1>15
  <2>2. Countable(Part(rest)) /\ iter[rest] = StatsOf(Part(rest))
    <3> HIDE DEF iter, all, pick, Part, any
    <3> QED
      BY <1>15, <2>1
  <2>3. iter[s] = next(t, iter[rest])
    <3> HIDE DEF iter, all, pick, next, any
    <3> QED
      BY <1>13, <1>15
  <2>4. x.parent = m[t].parent /\ x.size = m[t].size /\ x.snap = t
    BY DEF Item
  <2>5. x.size \in Nat
    BY <1>2, <2>1, <2>4
  <2>6. x \notin Part(rest) /\ Part(s) = Part(rest) \cup {x}
    <3>1. \A u : Item(v, m, u).snap = u
      BY DEF Item
    <3>2. s = rest \cup {t}
      BY <2>1
    <3> HIDE DEF t
    <3> QED
      BY <3>1, <3>2
  <2>7. next(t, iter[rest]) = AddSize(StatsOf(Part(rest)), x.parent, x.size)
    BY <2>2, <2>4
  <2> HIDE DEF iter, all, pick, t, x, rest, next, Part, any
  <2>8. /\ Countable(Part(rest) \cup {x})
        /\ StatsOf(Part(rest) \cup {x}) = AddSize(StatsOf(Part(rest)), x.parent, x.size)
    BY <2>2, <2>5, <2>6, StatsAdd
  <2> QED
    BY <2>3, <2>6, <2>7, <2>8
<1>16. all \in Q
  <2> HIDE DEF Q, pick, all
  <2> QED
    BY <1>3, <1>8, <1>14, <1>15, SubsetInduction
<1>17. Countable(Part(all)) /\ iter[all] = StatsOf(Part(all))
  BY <1>16
<1> HIDE DEF iter
<1> QED
  BY <1>1, <1>17 DEF Items

-----------------------------------------------------------------------------
(* What has been counted, and what is still to be.                         *)

Sized(lines) ==
  {[volume |-> x.volume, snap |-> x.snap, parent |-> x.parent,
    size |-> Size[x.snap][x.parent]] : x \in lines}
HeldOf(V) == UNION {Items(v, archives[v]) : v \in V}
HeldAhead == HeldOf({w \in todo : Matches(w)})

(* All that a run counts at the destination, if it started now: what is    *)
(* there, and what it sends.                                               *)
Total == Sized(Forecast) \cup UNION {HeldOf(Covered(n)) : n \in Chosen}

(* Of that, what the process has yet to count; a run counts a volume after *)
(* the last of its steps, a dryrun the volume before and the steps one by  *)
(* one.                                                                    *)
ToCount ==
  IF Inside THEN (IF cmd = "run" /\ Working THEN Items(volume, archives[volume]) ELSE {})
                   \cup HeldAhead \cup Sized(Pending)
  ELSE IF Before THEN Total
  ELSE {}

(* The steps are not archived yet, each is there once.                     *)
StepsInv == Working => /\ Distinct(steps)
                       /\ SnapsOf(steps) \cap Archived(archives[volume]) = {}

(* Neither of a volume to come to nor of a step to be done.                *)
Unreported(L) ==
  \A x \in L : /\ x.volume \notin todo
               /\ Working /\ x.volume = volume => x.snap \notin SnapsOf(steps)

Counted(L) ==
  /\ Countable(L)
  /\ remote_stats = StatsOf(L)
  /\ Unreported(L)
  /\ cmd = "run" /\ Working => \A x \in L : x.volume # volume
  /\ Before => L = {}

Sending == Doing("run") \/ Doing("measure")

SendInv ==
  /\ Countable(Sized(report))
  /\ sent_stats = StatsOf(Sized(report))
  /\ Unreported(report)
  /\ \E L : /\ Counted(L)
            /\ cmd = "measure" => L \cup ToCount = Total
            /\ cmd = "run" /\ told.by = "measure" => told.remote = StatsOf(L \cup ToCount)

Asking == \E c \in {"dryrun", "measure", "ls"} : Doing(c)

CountInv ==
  /\ pc = "idle" => sent_stats = NoStats /\ remote_stats = NoStats
  /\ told # None =>
       /\ Sending => SendInv
       /\ ~Asking /\ told.by = "measure" => told.sent = StatsOf(Sized(told.said))
       /\ ~Telling /\ told.by = "measure" => told.remote = StatsOf(Total)

LEMMA TotalFrame ==
  ASSUME UNCHANGED <<setting, dir, archives>>
  PROVE  Total' = Total
<1>1. Forecast' = Forecast /\ Chosen' = Chosen
  BY ForecastFrame, ChosenFrame
<1>2. \A n : Covered(n)' = Covered(n)
  BY ChosenFrame DEF Covered, ListOf, Listing, Snapshots, Found
<1> QED
  BY <1>1, <1>2 DEF Total, HeldOf, Sized

LEMMA SizedParts ==
  ASSUME NEW x, NEW y
  PROVE  Sized(x \cup y) = Sized(x) \cup Sized(y) /\ Sized({}) = {}
BY DEF Sized

LEMMA HeldSplit ==
  ASSUME NEW v \in todo
  PROVE  HeldAhead = (IF Matches(v) THEN Items(v, archives[v]) ELSE {})
                       \cup HeldOf({w \in todo \ {v} : Matches(w)})
<1>1. CASE Matches(v)
  <2>1. {w \in todo : Matches(w)} = {v} \cup {w \in todo \ {v} : Matches(w)}
    BY <1>1
  <2> QED
    BY <1>1, <2>1 DEF HeldAhead, HeldOf
<1>2. CASE ~Matches(v)
  <2>1. {w \in todo : Matches(w)} = {w \in todo \ {v} : Matches(w)}
    BY <1>2
  <2> QED
    BY <1>2, <2>1 DEF HeldAhead
<1> QED
  BY <1>1, <1>2

(* The rest of a plan.                                                     *)

(* The rest of a plan.                                                     *)
LEMMA TailIs ==
  ASSUME NEW plan \in Seq(OlderStep), plan # <<>>
  PROVE  /\ SnapsOf(plan) = {Head(plan).snap} \cup SnapsOf(Tail(plan))
         /\ Distinct(plan) => Distinct(Tail(plan)) /\ Head(plan).snap \notin SnapsOf(Tail(plan))
<1> DEFINE n == Len(plan)
           tail == Tail(plan)
<1>1. /\ n \in Nat \ {0} /\ DOMAIN plan = 1 .. n /\ Head(plan) = plan[1]
      /\ DOMAIN tail = 1 .. n - 1
      /\ \A i \in 1 .. n - 1 : tail[i] = plan[i + 1]
  OBVIOUS
<1> HIDE DEF n, tail
<1>2. /\ 1 \in 1 .. n /\ \A i \in 1 .. n - 1 : i + 1 \in 1 .. n /\ i + 1 # 1
      /\ \A j \in 1 .. n : j = 1 \/ (j - 1 \in 1 .. n - 1 /\ j = (j - 1) + 1)
      /\ \A i, j \in 1 .. n - 1 : i + 1 = j + 1 => i = j
  BY <1>1
<1>3. /\ \A t : t \in SnapsOf(plan) <=> \E i \in 1 .. n : t = plan[i].snap
      /\ \A t : t \in SnapsOf(tail) <=> \E i \in 1 .. n - 1 : t = plan[i + 1].snap
  <2>1. SnapsOf(plan) = {plan[i].snap : i \in 1 .. n}
    <3>1. SnapsOf(plan) = {plan[i].snap : i \in DOMAIN plan}
      BY DEF SnapsOf
    <3> QED
      BY <1>1, <3>1, Zenon
  <2>2. SnapsOf(tail) = {tail[i].snap : i \in 1 .. n - 1}
    <3>1. SnapsOf(tail) = {tail[i].snap : i \in DOMAIN tail}
      BY DEF SnapsOf
    <3> QED
      BY <1>1, <3>1, Zenon
  <2>3. \A i \in 1 .. n - 1 : tail[i].snap = plan[i + 1].snap
    BY <1>1
  <2>4. \A t : t \in SnapsOf(plan) <=> \E i \in 1 .. n : t = plan[i].snap
    BY <2>1
  <2>5. \A t : t \in SnapsOf(tail) <=> \E i \in 1 .. n - 1 : t = tail[i].snap
    BY <2>2
  <2>6. ASSUME NEW t
        PROVE  (\E i \in 1 .. n - 1 : t = tail[i].snap) <=>
                 \E i \in 1 .. n - 1 : t = plan[i + 1].snap
    BY <2>3, Zenon
  <2>7. \A t : t \in SnapsOf(tail) <=> \E i \in 1 .. n - 1 : t = plan[i + 1].snap
    BY <2>5, <2>6, Zenon
  <2> QED
    BY <2>4, <2>7, Zenon
<1>4. ASSUME NEW t \in SnapsOf(plan), t # Head(plan).snap
      PROVE  t \in SnapsOf(tail)
  <2>1. PICK j \in 1 .. n : t = plan[j].snap
    BY <1>3
  <2>2. j - 1 \in 1 .. n - 1 /\ j = (j - 1) + 1
    BY <1>1, <1>2, <1>4, <2>1
  <2>3. t = plan[(j - 1) + 1].snap
    BY <2>1, <2>2
  <2> QED
    BY <1>3, <2>2, <2>3
<1>5. ASSUME NEW t, t = Head(plan).snap \/ t \in SnapsOf(tail)
      PROVE  t \in SnapsOf(plan)
  BY <1>1, <1>2, <1>3, <1>5
<1>6. SnapsOf(plan) = {Head(plan).snap} \cup SnapsOf(tail)
  BY <1>4, <1>5
<1>7. ASSUME Distinct(plan)
      PROVE  Distinct(tail) /\ Head(plan).snap \notin SnapsOf(tail)
  <2>1. \A i, j \in 1 .. n : plan[i].snap = plan[j].snap => i = j
    BY <1>1, <1>7 DEF Distinct
  <2>2. Distinct(tail)
    <3> SUFFICES ASSUME NEW i \in 1 .. n - 1, NEW j \in 1 .. n - 1, tail[i].snap = tail[j].snap
                 PROVE  i = j
      BY <1>1 DEF Distinct
    <3>1. plan[i + 1].snap = plan[j + 1].snap
      BY <1>1
    <3> QED
      BY <1>2, <2>1, <3>1
  <2>3. Head(plan).snap \notin SnapsOf(tail)
    <3> SUFFICES ASSUME NEW i \in 1 .. n - 1, plan[1].snap = plan[i + 1].snap
                 PROVE  FALSE
      BY <1>1, <1>3
    <3> QED
      BY <1>2, <2>1
  <2> QED
    BY <2>2, <2>3
<1> QED
  BY <1>6, <1>7 DEF tail

(* One more archive.                                                       *)
Adds(m, n, t) ==
  /\ t \in Snaps \ Archived(m)
  /\ n[t] # None
  /\ \A u \in Snaps \ {t} : n[u] = m[u]

LEMMA ArchivedAdd ==
  ASSUME NEW m, NEW n, NEW t, Adds(m, n, t)
  PROVE  /\ Archived(n) = Archived(m) \cup {t}
         /\ \A v : Items(v, n) = Items(v, m) \cup {Item(v, n, t)}
<1>1. Archived(n) = Archived(m) \cup {t}
  BY DEF Adds, Archived
<1>2. ASSUME NEW v
      PROVE  Items(v, n) = Items(v, m) \cup {Item(v, n, t)}
  <2>1. \A u \in Archived(m) : Item(v, n, u) = Item(v, m, u)
    <3>1. \A u \in Archived(m) : u \in Snaps \ {t}
      BY DEF Adds, Archived
    <3> QED
      BY <3>1 DEF Adds, Item
  <2>2. Items(v, n) = {Item(v, n, u) : u \in Archived(m) \cup {t}}
    BY <1>1, Zenon DEF Items
  <2>3. {Item(v, n, u) : u \in Archived(m) \cup {t}} =
          {Item(v, n, u) : u \in Archived(m)} \cup {Item(v, n, t)}
    OBVIOUS
  <2>4. {Item(v, n, u) : u \in Archived(m)} = Items(v, m)
    BY <2>1, Zenon DEF Items
  <2> QED
    BY <2>2, <2>3, <2>4, Zenon
<1> QED
  BY <1>1, <1>2

(* What FinishSend takes from the plan, and where it puts it.              *)
LEMMA SendIs ==
  ASSUME TypeInv, StepsInv, FinishSend
  PROVE  LET x == Head(steps)
             line == [volume |-> volume, snap |-> x.snap, parent |-> x.parent,
                      size |-> Size[x.snap][x.parent]]
         IN  /\ volume \in Volumes /\ line.size \in Nat
             /\ Sized(PlanLines(volume, <<x>>)) = {line}
             /\ SnapsOf(steps) = {x.snap} \cup SnapsOf(Tail(steps))
             /\ Distinct(Tail(steps)) /\ x.snap \notin SnapsOf(Tail(steps))
             /\ cmd = "run" =>
                  /\ Adds(archives[volume], archives'[volume], x.snap)
                  /\ archives'[volume][x.snap].parent = x.parent
                  /\ \A w \in Volumes \ {volume} : archives'[w] = archives[w]
                  /\ Archived(archives'[volume]) = Archived(archives[volume]) \cup {x.snap}
                  /\ Items(volume, archives'[volume]) = Items(volume, archives[volume]) \cup {line}
<1> DEFINE x == Head(steps)
           a == [parent |-> x.parent, size |-> Size[x.snap][x.parent]]
           line == [volume |-> volume, snap |-> x.snap, parent |-> x.parent,
                    size |-> Size[x.snap][x.parent]]
<1>1. /\ pc = "send"
      /\ cmd = "run" => archives' = [archives EXCEPT ![volume][x.snap] = a]
  BY DEF FinishSend
<1>2. steps # <<>> /\ steps \in Seq(OlderStep) /\ volume \in Volumes
  BY <1>1 DEF TypeInv, Working
<1>3. x.snap \in Snaps /\ x.parent \in Snaps \cup {None} /\ Size[x.snap][x.parent] \in Nat
  BY <1>2, HeadIs
<1>4. a \in Archive /\ a.parent = x.parent /\ a.size = Size[x.snap][x.parent]
  <2> HIDE DEF x
  <2> QED
    BY <1>3 DEF Archive
<1>5. Distinct(steps) /\ SnapsOf(steps) \cap Archived(archives[volume]) = {}
  BY <1>1 DEF StepsInv, Working
<1>6. /\ SnapsOf(steps) = {x.snap} \cup SnapsOf(Tail(steps))
      /\ Distinct(Tail(steps)) /\ x.snap \notin SnapsOf(Tail(steps))
  BY <1>2, <1>5, TailIs
<1>7. Sized(PlanLines(volume, <<x>>)) = {line}
  <2> DEFINE l == [volume |-> volume, snap |-> x.snap, parent |-> x.parent]
  <2>1. PlanLines(volume, <<x>>) = {l}
    <3> HIDE DEF x
    <3>1. DOMAIN <<x>> = {1} /\ <<x>>[1] = x
      OBVIOUS
    <3> QED
      BY <3>1 DEF PlanLines
  <2>2. l.volume = volume /\ l.snap = x.snap /\ l.parent = x.parent
    OBVIOUS
  <2> HIDE DEF l, x
  <2>3. Sized({l}) = {[volume |-> l.volume, snap |-> l.snap, parent |-> l.parent,
                       size |-> Size[l.snap][l.parent]]}
    BY DEF Sized
  <2> QED
    BY <2>1, <2>2, <2>3
<1>8. line.size \in Nat
  BY <1>3
<1>9. ASSUME cmd = "run"
      PROVE  /\ Adds(archives[volume], archives'[volume], x.snap)
             /\ archives'[volume][x.snap].parent = x.parent
             /\ \A w \in Volumes \ {volume} : archives'[w] = archives[w]
             /\ Archived(archives'[volume]) = Archived(archives[volume]) \cup {x.snap}
             /\ Items(volume, archives'[volume]) = Items(volume, archives[volume]) \cup {line}
  <2> DEFINE m == archives[volume]
  <2>1. m \in [Snaps -> Archive \cup {None}] /\ DOMAIN archives = Volumes
    BY <1>2 DEF TypeInv
  <2>2. /\ archives'[volume] = [m EXCEPT ![x.snap] = a]
        /\ \A w \in Volumes \ {volume} : archives'[w] = archives[w]
    <3> HIDE DEF x, a
    <3> QED
      BY <1>1, <1>2, <1>9, <2>1
  <2>3. x.snap \notin Archived(m)
    <3> HIDE DEF x
    <3> QED
      BY <1>5, <1>6
  <2> DEFINE n == archives'[volume]
             t == x.snap
  <2>4. t \in Snaps /\ t \notin Archived(m) /\ n[t] = a /\ \A u \in Snaps \ {t} : n[u] = m[u]
    <3> HIDE DEF m, x, a
    <3> QED
      BY <1>3, <2>1, <2>2, <2>3
  <2>5. a # None
    BY <1>4, VolumesAssumption
  <2>6. Item(volume, n, t) = line
    <3> HIDE DEF n, x
    <3>1. Item(volume, n, t) = [volume |-> volume, snap |-> t, parent |-> a.parent, size |-> a.size]
      BY <2>4 DEF Item
    <3> QED
      BY <1>4, <3>1
  <2>7. n[t].parent = x.parent
    <3> HIDE DEF n, t, a, x
    <3> QED
      BY <1>4, <2>4
  <2> HIDE DEF m, n, t, a, line
  <2>8. Adds(m, n, t)
    BY <2>4, <2>5 DEF Adds
  <2>9. /\ Archived(n) = Archived(m) \cup {t}
        /\ Items(volume, n) = Items(volume, m) \cup {Item(volume, n, t)}
    BY <2>8, ArchivedAdd
  <2> QED
    BY <2>2, <2>6, <2>7, <2>8, <2>9 DEF m, n, t
<1> HIDE DEF x, a
<1> QED
  BY <1>2, <1>6, <1>7, <1>8, <1>9 DEF x

LEMMA StepsStep == TypeInv /\ StepsInv /\ [Next]_vars => StepsInv'
<1> SUFFICES ASSUME TypeInv, StepsInv, [Next]_vars
             PROVE  StepsInv'
  OBVIOUS
<1> USE DEF loop, stats
<1>1. ASSUME ~Working'
      PROVE  StepsInv'
  BY <1>1 DEF StepsInv
<1>2. ASSUME Working, UNCHANGED <<archives, steps, volume>>
      PROVE  StepsInv'
  BY <1>2 DEF StepsInv
<1>3. ASSUME NEW v \in todo, RunVolume(v) \/ MeasureVolume(v)
      PROVE  StepsInv'
  <2>1. /\ pc = "volumes" /\ volume' = v /\ steps' = PlanFor(v) /\ archives' = archives
    BY <1>3 DEF RunVolume, MeasureVolume, Enter
  <2>2. /\ SnapsOf(PlanFor(v)) = Listed(v) \ Archived(archives[v])
        /\ Distinct(PlanFor(v))
    BY <2>1, PlanForIs
  <2>3. Distinct(steps') /\ SnapsOf(steps') \cap Archived(archives'[volume']) = {}
    BY <2>1, <2>2
  <2> QED
    BY <2>3 DEF StepsInv
<1>4. CASE FinishSend
  <2>1. /\ SnapsOf(steps) = {Head(steps).snap} \cup SnapsOf(Tail(steps))
        /\ Distinct(Tail(steps)) /\ Head(steps).snap \notin SnapsOf(Tail(steps))
        /\ cmd = "run" =>
             Archived(archives'[volume]) = Archived(archives[volume]) \cup {Head(steps).snap}
    BY <1>4, SendIs
  <2>2. /\ pc = "send" /\ steps' = Tail(steps) /\ volume' = volume
        /\ cmd = "run" \/ archives' = archives
    BY <1>4 DEF FinishSend
  <2>3. SnapsOf(steps) \cap Archived(archives[volume]) = {}
    BY <2>2 DEF StepsInv, Working
  <2>4. Distinct(steps') /\ SnapsOf(steps') \cap Archived(archives'[volume']) = {}
    BY <2>1, <2>2, <2>3
  <2> QED
    BY <2>4 DEF StepsInv
<1>5. CASE EnsureSudo \/ StartSend
  BY <1>2, <1>5 DEF EnsureSudo, StartSend, Working
<1>6. CASE \/ \E e \in setting.later : SnapCreate(e)
           \/ Time \/ UNCHANGED vars
  <2>1. UNCHANGED <<pc, archives, steps, volume>>
    BY <1>6 DEF SnapCreate, Time, vars
  <2> QED
    BY <1>2, <1>1, <2>1 DEF Working
<1>7. CASE RefuseConfig \/ RefuseSudo \/ FinishCommand \/ Fail \/ \E v \in todo : BrokenVolume(v)
  BY <1>1, <1>7 DEF RefuseConfig, RefuseSudo, FinishCommand, Fail, BrokenVolume, Exit, Working
<1>8. CASE \/ \E c \in setting.commands : Start(c)
           \/ LoadConfig \/ \E s \in todo_syncs : NextSync(s)
           \/ InspectSource \/ FinishVolume \/ FinishSync
           \/ \E v \in todo : SkipVolume(v) \/ DryrunVolume(v) \/ ShowVolume(v)
  BY <1>1, <1>8 DEF Start, LoadConfig, NextSync, InspectSource, FinishVolume, FinishSync,
                    SkipVolume, DryrunVolume, ShowVolume, Enter, Working
<1> QED
  BY <1>3, <1>4, <1>5, <1>6, <1>7, <1>8 DEF Next, Work

-----------------------------------------------------------------------------
(* The limits that the file asks for.                                      *)

Closed(m) == \A t \in Archived(m) : m[t].parent = None \/ m[t].parent \in Archived(m)

(* A rank grows along a chain and stays below the limit of the depth.      *)
Ranked(d, t, parent, limit) == d[t] < limit /\ (parent # None => d[parent] < d[t])
RanksArchives(d, m, limit) == \A t \in Archived(m) : Ranked(d, t, m[t].parent, limit)
RanksSteps(d, plan, limit) == \A i \in DOMAIN plan : Ranked(d, plan[i].snap, plan[i].parent, limit)

(* What has been sent before step i, and what of it in full.               *)
Sent(plan, i) == {plan[j].snap : j \in 1 .. i - 1}
SentFull(plan, i) == {plan[j].snap : j \in {k \in 1 .. i - 1 : plan[k].parent = None}}

(* When a step is executed, its parent is there, and a full archive that   *)
(* is less than the interval older.                                        *)
Sound(m, plan, days) ==
  \A i \in DOMAIN plan :
    plan[i].parent # None =>
      /\ plan[i].parent \in Archived(m) \cup Sent(plan, i)
      /\ \E u \in Fulls(m) \cup SentFull(plan, i) : plan[i].snap - u < days

(* The depth is the smallest rank.                                         *)
LEMMA DepthBelowRank ==
  ASSUME NEW m \in [Snaps -> Archive \cup {None}], OlderParents(m),
         NEW limit \in Nat, NEW d \in [Snaps -> Nat], RanksArchives(d, m, limit)
  PROVE  \A t \in Archived(m) : Depths(m)[t] < limit
<1> DEFINE D == Depths(m)
           Above == {t \in Snaps : ~(D[t] <= d[t])}
<1>1. /\ D \in [Snaps -> Nat]
      /\ \A t \in Snaps : D[t] = IF m[t] = None \/ m[t].parent = None THEN 0
                                 ELSE D[m[t].parent] + 1
  BY DepthsAre
<1> HIDE DEF D
<1>2. Above = {}
  <2> SUFFICES ASSUME Above # {}
               PROVE  FALSE
    OBVIOUS
  <2>1. Snaps \subseteq Nat /\ Above \subseteq Nat
    BY SnapsAssumption
  <2>2. PICK t \in Above : \A y \in Above : t <= y
    <3> HIDE DEF Above
    <3> QED
      BY <2>1, LeastElement
  <2>3. t \in Snaps /\ D[t] \in Nat /\ d[t] \in Nat /\ ~(D[t] <= d[t])
    BY <1>1, <2>2
  <2>4. m[t] # None /\ m[t].parent # None
    BY <1>1, <2>3
  <2>5. t \in Archived(m) /\ m[t] \in Archive
    BY <2>3, <2>4 DEF Archived
  <2> DEFINE p == m[t].parent
  <2>6. p \in Snaps /\ p < t
    BY <2>4, <2>5 DEF Archive, OlderParents
  <2>7. D[t] = D[p] + 1 /\ d[p] < d[t]
    BY <1>1, <2>3, <2>4, <2>5 DEF RanksArchives, Ranked
  <2> HIDE DEF p
  <2>8. p \notin Above
    <3>1. p \in Nat /\ t \in Nat /\ ~(t <= p)
      BY <2>1, <2>3, <2>6
    <3> HIDE DEF Above
    <3> QED
      BY <2>2, <3>1
  <2>9. D[p] <= d[p] /\ D[p] \in Nat /\ d[p] \in Nat
    BY <1>1, <2>6, <2>8
  <2> QED
    BY <2>3, <2>7, <2>9
<1>3. ASSUME NEW t \in Archived(m)
      PROVE  D[t] < limit
  <2>1. t \in Snaps
    BY DEF Archived
  <2>2. D[t] <= d[t] /\ d[t] < limit /\ D[t] \in Nat /\ d[t] \in Nat
    BY <1>1, <1>2, <2>1 DEF RanksArchives, Ranked
  <2> QED
    BY <2>2
<1> QED
  BY <1>3 DEF D

(* The head of a plan has been sent.                                       *)
LEMMA TailSound ==
  ASSUME NEW m \in [Snaps -> Archive \cup {None}], NEW n \in [Snaps -> Archive \cup {None}],
         NEW plan \in Seq(OlderStep), plan # <<>>, NEW days,
         Adds(m, n, Head(plan).snap), n[Head(plan).snap].parent = Head(plan).parent,
         Closed(m), Sound(m, plan, days)
  PROVE  /\ Closed(n) /\ Sound(n, Tail(plan), days)
         /\ Fulls(m) \subseteq Fulls(n)
         /\ Head(plan).parent # None => \E u \in Fulls(n) : Head(plan).snap - u < days
<1> DEFINE k == Len(plan)
           x == Head(plan)
           tail == Tail(plan)
<1>1. /\ k \in Nat \ {0} /\ DOMAIN plan = 1 .. k /\ x = plan[1]
      /\ DOMAIN tail = 1 .. k - 1
      /\ \A i \in 1 .. k - 1 : tail[i] = plan[i + 1]
  OBVIOUS
<1> HIDE DEF k, x, tail
<1>2. /\ Archived(n) = Archived(m) \cup {x.snap} /\ x.snap \notin Archived(m)
      /\ n[x.snap].parent = x.parent
      /\ \A u \in Archived(m) : n[u] = m[u]
  BY ArchivedAdd DEF Adds, Archived, x
<1>3. Fulls(m) \subseteq Fulls(n) /\ (x.parent = None => x.snap \in Fulls(n))
  BY <1>2 DEF Fulls
<1>4. Sent(plan, 1) = {} /\ SentFull(plan, 1) = {}
  BY DEF Sent, SentFull
<1>5. x.parent # None => /\ x.parent \in Archived(m)
                         /\ \E u \in Fulls(m) : x.snap - u < days
  <2>1. 1 \in DOMAIN plan
    BY <1>1
  <2> QED
    BY <1>1, <1>4, <2>1 DEF Sound
<1>6. Closed(n)
  BY <1>2, <1>5 DEF Closed
<1>7. ASSUME NEW i \in 1 .. k - 1
      PROVE  /\ Sent(plan, i + 1) \subseteq {x.snap} \cup Sent(tail, i)
             /\ SentFull(plan, i + 1) \subseteq Fulls(n) \cup SentFull(tail, i)
  <2>1. ASSUME NEW j \in 1 .. (i + 1) - 1
        PROVE  /\ plan[j].snap \in {x.snap} \cup Sent(tail, i)
               /\ plan[j].parent = None => plan[j].snap \in Fulls(n) \cup SentFull(tail, i)
    <3>1. CASE j = 1
      BY <1>1, <1>3, <3>1
    <3>2. CASE j # 1
      <4>1. j - 1 \in 1 .. i - 1 /\ j - 1 \in 1 .. k - 1 /\ (j - 1) + 1 = j
        BY <1>1, <3>2
      <4>2. tail[j - 1] = plan[j]
        BY <1>1, <4>1
      <4> QED
        BY <4>1, <4>2 DEF Sent, SentFull
    <3> QED
      BY <3>1, <3>2
  <2> QED
    BY <2>1 DEF Sent, SentFull
<1>8. Sound(n, tail, days)
  <2> SUFFICES ASSUME NEW i \in 1 .. k - 1, tail[i].parent # None
               PROVE  /\ tail[i].parent \in Archived(n) \cup Sent(tail, i)
                      /\ \E u \in Fulls(n) \cup SentFull(tail, i) : tail[i].snap - u < days
    BY <1>1 DEF Sound
  <2>1. i + 1 \in DOMAIN plan /\ tail[i] = plan[i + 1]
    BY <1>1
  <2>2. /\ plan[i + 1].parent \in Archived(m) \cup Sent(plan, i + 1)
        /\ \E u \in Fulls(m) \cup SentFull(plan, i + 1) : plan[i + 1].snap - u < days
    BY <2>1 DEF Sound
  <2> QED
    BY <1>2, <1>3, <1>7, <2>1, <2>2
<1> QED
  BY <1>3, <1>5, <1>6, <1>8 DEF x, tail

(* What holds while a plan is being made: the depth cache ranks what has   *)
(* been planned and is otherwise that of the archives, and last_full is a  *)
(* full send that the plan knows.                                          *)
Planned(m, policy, acc, s) ==
  /\ acc.dest_set = Archived(m) \cup s
  /\ SnapsOf(acc.steps) = s
  /\ \A u \in Snaps \ s : acc.depth[u] = Depths(m)[u]
  /\ policy.max_incremental_depth # None =>
       RanksSteps(acc.depth, acc.steps, policy.max_incremental_depth)
  /\ Sound(m, acc.steps, policy.min_full_send_interval)
  /\ acc.last_full \in {None} \cup Fulls(m) \cup SentFull(acc.steps, Len(acc.steps) + 1)

(* A step of the loop keeps that.                                          *)
LEMMA PlannedStep ==
  ASSUME NEW m, NEW policy, Limiting(policy), NEW s \in SUBSET Snaps,
         NEW acc \in Acc, NEW new \in Acc, Planned(m, policy, acc, s),
         NEW x \in OlderStep, x.snap \notin Archived(m) \cup s, Adding(acc, new, x, policy)
  PROVE  Planned(m, policy, new, s \cup {x.snap})
<1> DEFINE t == x.snap
           old == acc.steps
           a == Append(old, x)
           k == Len(old)
           limit == policy.max_incremental_depth
           days == policy.min_full_send_interval
<1>1. /\ new.steps = a /\ new.dest_set = acc.dest_set \cup {t}
      /\ old \in Seq(OlderStep) /\ acc.depth \in [Snaps -> Nat] /\ new.depth \in [Snaps -> Nat]
      /\ acc.last_full \in Snaps \cup {None}
      /\ t \in Snaps /\ x.parent \in Snaps \cup {None} /\ Snaps \subseteq Nat
      /\ limit \in {None} \cup (Nat \ {0}) /\ days \in Nat
  BY SnapsAssumption DEF Adding, Acc, OlderStep, Step, Limiting
<1>2. /\ k \in Nat /\ DOMAIN old = 1 .. k /\ DOMAIN a = 1 .. k + 1 /\ Len(a) = k + 1
      /\ \A i \in 1 .. k : a[i] = old[i]
      /\ a[k + 1] = x
  <2>1. /\ a \in Seq(OlderStep) /\ Len(a) = Len(old) + 1
        /\ \A i \in 1 .. Len(old) : a[i] = old[i]
        /\ a[Len(old) + 1] = x
    BY <1>1, AppendProperties
  <2> HIDE DEF a
  <2> QED
    BY <1>1, <2>1
<1>3. SnapsOf(a) = s \cup {t}
  BY <1>1, SnapsOfAppend DEF Planned
<1> HIDE DEF old, a, k, limit, days, t
<1>4. ASSUME NEW i \in 1 .. k + 1
      PROVE  Sent(a, i) = Sent(old, i) /\ SentFull(a, i) = SentFull(old, i)
  <2>1. \A j \in 1 .. i - 1 : a[j] = old[j]
    BY <1>2
  <2> QED
    BY <2>1 DEF Sent, SentFull
<1>5. SentFull(old, k + 1) \cup (IF x.parent = None THEN {t} ELSE {}) \subseteq SentFull(a, k + 2)
  <2>1. ASSUME NEW j \in 1 .. k, old[j].parent = None
        PROVE  old[j].snap \in SentFull(a, k + 2)
    <3>1. j \in 1 .. (k + 2) - 1 /\ a[j] = old[j]
      BY <1>2
    <3> QED
      BY <2>1, <3>1 DEF SentFull
  <2>2. x.parent = None => t \in SentFull(a, k + 2)
    <3>1. k + 1 \in 1 .. (k + 2) - 1
      BY <1>2
    <3> QED
      BY <1>2, <3>1 DEF SentFull, t
  <2>3. 1 .. (k + 1) - 1 = 1 .. k
    BY <1>2
  <2> QED
    BY <2>1, <2>2, <2>3 DEF SentFull
<1>6. Sent(old, k + 1) = s
  <2>1. 1 .. (k + 1) - 1 = 1 .. k
    BY <1>2
  <2> QED
    BY <1>2, <2>1 DEF Planned, SnapsOf, Sent, old
<1>7. /\ acc.dest_set = Archived(m) \cup s
      /\ \A u \in Snaps \ s : acc.depth[u] = Depths(m)[u]
      /\ limit # None => RanksSteps(acc.depth, old, limit)
      /\ Sound(m, old, days)
      /\ acc.last_full \in {None} \cup Fulls(m) \cup SentFull(old, k + 1)
  BY DEF Planned, old, k, limit, days
<1>8. t \notin Archived(m) \cup s
  BY DEF t
<1>9. \A u \in Snaps \ {t} : new.depth[u] = acc.depth[u]
  BY <1>1 DEF Adding, t
<1>10. ASSUME NEW i \in 1 .. k
       PROVE  /\ old[i].snap \in Snaps \ {t}
              /\ old[i].parent \in (Snaps \cup {None}) \ {t}
  <2>1. old[i] \in OlderStep
    BY <1>1, <1>2
  <2>2. old[i].snap \in s
    BY <1>2, <1>10 DEF Planned, SnapsOf, old
  <2>3. Sent(old, i) \subseteq Sent(old, k + 1)
    <3>1. 1 .. i - 1 \subseteq 1 .. (k + 1) - 1
      BY <1>2
    <3> QED
      BY <3>1 DEF Sent
  <2>4. old[i].parent = None \/ old[i].parent \in Archived(m) \cup s
    BY <1>2, <1>6, <1>7, <2>3 DEF Sound
  <2>5. old[i].snap \in Snaps /\ old[i].parent \in Snaps \cup {None} /\ t # None
    BY <1>1, <2>1, NoneIsNoSnap DEF OlderStep, Step
  <2> QED
    BY <1>8, <2>2, <2>4, <2>5
<1>11. CASE x.parent = None
  <2>1. new.depth[t] = 0 /\ new.last_full = t
    <3>1. x.parent \notin acc.dest_set
      BY <1>11, NoneIsNoSnap DEF Acc
    <3> QED
      BY <1>1, <3>1 DEF Adding, t
  <2>2. limit # None => RanksSteps(new.depth, a, limit)
    <3> SUFFICES ASSUME limit # None, NEW i \in 1 .. k + 1
                 PROVE  Ranked(new.depth, a[i].snap, a[i].parent, limit)
      BY <1>2 DEF RanksSteps
    <3>1. CASE i = k + 1
      BY <1>1, <1>2, <1>11, <2>1, <3>1 DEF Ranked, t
    <3>2. CASE i # k + 1
      <4>1. i \in 1 .. k /\ a[i] = old[i]
        BY <1>2, <3>2
      <4> QED
        BY <1>2, <1>7, <1>9, <1>10, <4>1 DEF RanksSteps, Ranked
    <3> QED
      BY <3>1, <3>2
  <2>3. Sound(m, a, days)
    <3> SUFFICES ASSUME NEW i \in 1 .. k + 1, a[i].parent # None
                 PROVE  /\ a[i].parent \in Archived(m) \cup Sent(a, i)
                        /\ \E u \in Fulls(m) \cup SentFull(a, i) : a[i].snap - u < days
      BY <1>2 DEF Sound
    <3>1. i \in 1 .. k /\ a[i] = old[i]
      BY <1>2, <1>11
    <3> QED
      BY <1>2, <1>4, <1>7, <3>1 DEF Sound
  <2>4. new.last_full \in {None} \cup Fulls(m) \cup SentFull(a, Len(a) + 1)
    BY <1>2, <1>5, <1>11, <2>1
  <2>5. \A u \in Snaps \ (s \cup {t}) : new.depth[u] = Depths(m)[u]
    BY <1>7, <1>9
  <2> QED
    BY <1>1, <1>3, <1>7, <2>2, <2>3, <2>4, <2>5 DEF Planned, limit, days, t
<1>12. CASE x.parent # None
  <2> DEFINE p == x.parent
  <2>1. /\ p \in acc.dest_set /\ new.depth[t] = acc.depth[p] + 1
        /\ new.last_full = acc.last_full /\ ~ForceFull(acc, p, t, policy)
    BY <1>1, <1>12 DEF Adding, t
  <2>2. /\ p \in Snaps \ {t} /\ new.depth[p] = acc.depth[p] /\ acc.depth[p] \in Nat
        /\ acc.last_full # None /\ acc.last_full \in Nat /\ t \in Nat
    BY <1>1, <1>7, <1>8, <1>9, <1>12, <2>1 DEF ForceFull
  <2>3. limit # None => acc.depth[p] + 1 < limit
    <3>1. limit # None => ~(acc.depth[p] + 1 >= limit)
      BY <2>1 DEF ForceFull, limit
    <3> QED
      BY <1>1, <2>2, <3>1
  <2>4. t - acc.last_full < days
    <3>1. ~(t - acc.last_full >= days)
      BY <2>1 DEF ForceFull, days
    <3> QED
      BY <1>1, <2>2, <3>1
  <2>5. limit # None => RanksSteps(new.depth, a, limit)
    <3> SUFFICES ASSUME limit # None, NEW i \in 1 .. k + 1
                 PROVE  Ranked(new.depth, a[i].snap, a[i].parent, limit)
      BY <1>2 DEF RanksSteps
    <3>1. CASE i = k + 1
      <4>1. new.depth[p] < new.depth[t] /\ new.depth[t] < limit
        BY <2>1, <2>2, <2>3
      <4> QED
        BY <1>2, <3>1, <4>1 DEF Ranked, t
    <3>2. CASE i # k + 1
      <4>1. i \in 1 .. k /\ a[i] = old[i]
        BY <1>2, <3>2
      <4> QED
        BY <1>2, <1>7, <1>9, <1>10, <4>1 DEF RanksSteps, Ranked
    <3> QED
      BY <3>1, <3>2
  <2>6. Sound(m, a, days)
    <3> SUFFICES ASSUME NEW i \in 1 .. k + 1, a[i].parent # None
                 PROVE  /\ a[i].parent \in Archived(m) \cup Sent(a, i)
                        /\ \E u \in Fulls(m) \cup SentFull(a, i) : a[i].snap - u < days
      BY <1>2 DEF Sound
    <3>1. CASE i = k + 1
      <4>1. p \in Archived(m) \cup Sent(a, i)
        BY <1>2, <1>4, <1>6, <1>7, <2>1, <3>1
      <4>2. acc.last_full \in Fulls(m) \cup SentFull(a, i)
        BY <1>2, <1>4, <1>7, <2>2, <3>1
      <4>3. a[i].parent = p /\ a[i].snap = t
        BY <1>2, <3>1 DEF t
      <4> HIDE DEF p
      <4> QED
        BY <2>4, <4>1, <4>2, <4>3
    <3>2. CASE i # k + 1
      <4>1. i \in 1 .. k /\ a[i] = old[i]
        BY <1>2, <3>2
      <4> QED
        BY <1>2, <1>4, <1>7, <4>1 DEF Sound
    <3> QED
      BY <3>1, <3>2
  <2>7. new.last_full \in {None} \cup Fulls(m) \cup SentFull(a, Len(a) + 1)
    <3>1. Len(a) + 1 = k + 2
      BY <1>2
    <3> QED
      BY <1>5, <1>7, <2>1, <3>1
  <2>8. \A u \in Snaps \ (s \cup {t}) : new.depth[u] = Depths(m)[u]
    BY <1>7, <1>9
  <2> QED
    BY <1>1, <1>3, <1>7, <2>5, <2>6, <2>7, <2>8 DEF Planned, limit, days, t
<1> QED
  BY <1>11, <1>12

(* A plan keeps to the policy it is made with.                             *)
LEMMA PlanRanks ==
  ASSUME NEW listed \in SUBSET Snaps, NEW m \in [Snaps -> Archive \cup {None}],
         OlderParents(m), Closed(m), NEW policy, Limiting(policy)
  PROVE  LET plan == BuildPlan(listed, m, policy)
             limit == policy.max_incremental_depth
         IN  /\ Sound(m, plan, policy.min_full_send_interval)
             /\ limit # None /\ (\A t \in Archived(m) : Depths(m)[t] < limit) =>
                  \E d \in [Snaps -> Nat] : RanksArchives(d, m, limit) /\ RanksSteps(d, plan, limit)
<1> DEFINE missing == listed \ Archived(m)
           pick == [s \in SUBSET missing |-> Newest(s)]
           plan == BuildPlan(listed, m, policy)
           limit == policy.max_incremental_depth
<1>1. missing \in SUBSET Snaps /\ IsFiniteSet(missing)
  <2>1. missing \in SUBSET Snaps
    OBVIOUS
  <2> QED
    BY <2>1, SnapsAssumption, FS_Subset
<1>2. Picks(pick, missing)
  BY <1>1, NewestIs DEF Picks
<1>3. PICK f : IsPlanFold(f, listed, m, policy)
  BY PlanFold
<1>4. /\ f \in [SUBSET missing -> Acc] /\ f[{}] = PlanStart(m)
      /\ \A s \in SUBSET missing :
           s # {} => f[s] = PlanStep(f[s \ {Newest(s)}], Newest(s), listed, policy)
      /\ plan = f[missing].steps
  BY <1>3, Zenon DEF IsPlanFold
<1> HIDE DEF plan
<1> DEFINE Q == {s \in SUBSET missing : Planned(m, policy, f[s], s)}
<1>5. {} \in Q
  <2> DEFINE start == PlanStart(m)
  <2>1. /\ start.steps = <<>> /\ start.dest_set = Archived(m) /\ start.depth = Depths(m)
        /\ start.last_full = IF Fulls(m) = {} THEN None ELSE Newest(Fulls(m))
    BY DEF PlanStart
  <2>2. start.last_full \in {None} \cup Fulls(m)
    <3>1. Fulls(m) \in SUBSET Snaps
      BY DEF Fulls, Archived
    <3> QED
      BY <2>1, <3>1, NewestIs
  <2> HIDE DEF start
  <2>3. Planned(m, policy, start, {})
    BY <2>1, <2>2 DEF Planned, SnapsOf, RanksSteps, Sound
  <2> QED
    BY <1>4, <2>3 DEF start
<1>6. ASSUME NEW s \in SUBSET missing, s # {}, s \ {pick[s]} \in Q
      PROVE  s \in Q
  <2> DEFINE t == Newest(s)
             r == s \ {t}
  <2>1. t \in s /\ t \in Snaps /\ t \notin Archived(m) /\ pick[s] = t
    BY <1>1, <1>6, NewestIs
  <2>2. f[r] \in Acc /\ Planned(m, policy, f[r], r)
    <3>1. r \in SUBSET missing
      OBVIOUS
    <3> HIDE DEF missing, pick
    <3> QED
      BY <1>4, <1>6, <2>1, <3>1
  <2>3. f[s] = PlanStep(f[r], t, listed, policy)
    BY <1>4, <1>6
  <2>4. f[s] \in Acc /\ r \in SUBSET Snaps /\ r \cup {t} = s /\ t \notin r
    BY <1>1, <1>4, <2>1
  <2> HIDE DEF missing, pick, t, r
  <2>5. PICK x \in OlderStep : x.snap = t /\ Adding(f[r], f[s], x, policy)
    BY <2>1, <2>2, <2>3, PlanStepIs
  <2>6. Planned(m, policy, f[s], r \cup {x.snap})
    BY <2>1, <2>2, <2>4, <2>5, PlannedStep
  <2> QED
    BY <2>4, <2>5, <2>6
<1>7. missing \in Q
  <2> HIDE DEF Q, pick, missing
  <2> QED
    BY <1>1, <1>2, <1>5, <1>6, SubsetInduction
<1> DEFINE d == f[missing].depth
<1>8. d \in [Snaps -> Nat]
  BY <1>4 DEF Acc
<1>9. /\ \A u \in Snaps \ missing : d[u] = Depths(m)[u]
      /\ limit # None => RanksSteps(d, plan, limit)
      /\ Sound(m, plan, policy.min_full_send_interval)
  BY <1>4, <1>7 DEF Planned
<1>10. ASSUME limit # None, \A t \in Archived(m) : Depths(m)[t] < limit
       PROVE  RanksArchives(d, m, limit)
  <2> SUFFICES ASSUME NEW t \in Archived(m)
               PROVE  d[t] < limit /\ (m[t].parent # None => d[m[t].parent] < d[t])
    BY DEF RanksArchives, Ranked
  <2>1. t \in Snaps \ missing /\ m[t] # None
    BY DEF Archived
  <2>2. d[t] = Depths(m)[t]
    BY <1>9, <2>1
  <2>3. ASSUME m[t].parent # None
        PROVE  d[m[t].parent] < d[t]
    <3> DEFINE p == m[t].parent
    <3>1. p \in Archived(m)
      BY <2>3 DEF Closed
    <3>2. p \in Snaps \ missing
      BY <3>1 DEF Archived
    <3>3. Depths(m)[t] = Depths(m)[p] + 1 /\ Depths(m)[p] \in Nat
      BY <2>1, <2>3, <3>2, DepthsAre
    <3>4. d[p] = Depths(m)[p]
      BY <1>9, <3>2
    <3> HIDE DEF p, d
    <3>5. d[p] < d[t]
      BY <2>2, <3>3, <3>4
    <3> QED
      BY <3>5 DEF p
  <2> QED
    BY <1>10, <2>2, <2>3
<1> HIDE DEF d, limit
<1> QED
  BY <1>8, <1>9, <1>10 DEF plan, limit

(* A longer interval is kept when a shorter one is.                        *)
LEMMA SoundLonger ==
  ASSUME NEW m, NEW plan \in Seq(OlderStep), NEW a \in Nat, NEW b \in Nat, a <= b,
         Sound(m, plan, a)
  PROVE  Sound(m, plan, b)
<1> SUFFICES ASSUME NEW i \in DOMAIN plan, plan[i].parent # None
             PROVE  /\ plan[i].parent \in Archived(m) \cup Sent(plan, i)
                    /\ \E u \in Fulls(m) \cup SentFull(plan, i) : plan[i].snap - u < b
  BY DEF Sound
<1>1. /\ plan[i].parent \in Archived(m) \cup Sent(plan, i)
      /\ \E u \in Fulls(m) \cup SentFull(plan, i) : plan[i].snap - u < a
  BY DEF Sound
<1>2. \A j \in DOMAIN plan : plan[j].snap \in Nat
  <2>1. \A j \in DOMAIN plan : plan[j] \in OlderStep
    OBVIOUS
  <2> QED
    BY <2>1, SnapsAssumption DEF OlderStep, Step
<1>3. Fulls(m) \subseteq Nat
  BY SnapsAssumption DEF Fulls, Archived
<1>4. SentFull(plan, i) \subseteq Nat
  <2>1. DOMAIN plan = 1 .. Len(plan) /\ Len(plan) \in Nat
    OBVIOUS
  <2>2. \A j \in 1 .. i - 1 : j \in DOMAIN plan
    BY <2>1
  <2> QED
    BY <1>2, <2>2 DEF SentFull
<1> QED
  BY <1>1, <1>2, <1>3, <1>4

(* The ranks stay when a step becomes an archive.                          *)
LEMMA TailRanks ==
  ASSUME NEW m, NEW n, NEW plan \in Seq(OlderStep), plan # <<>>,
         Adds(m, n, Head(plan).snap), n[Head(plan).snap].parent = Head(plan).parent,
         NEW d, NEW limit, RanksArchives(d, m, limit), RanksSteps(d, plan, limit)
  PROVE  RanksArchives(d, n, limit) /\ RanksSteps(d, Tail(plan), limit)
<1> DEFINE x == Head(plan)
           tail == Tail(plan)
<1>1. /\ Len(plan) \in Nat \ {0} /\ DOMAIN plan = 1 .. Len(plan) /\ x = plan[1]
      /\ DOMAIN tail = 1 .. Len(plan) - 1
      /\ \A i \in 1 .. Len(plan) - 1 : tail[i] = plan[i + 1]
  OBVIOUS
<1> HIDE DEF x, tail
<1>2. /\ Archived(n) = Archived(m) \cup {x.snap} /\ x.snap \notin Archived(m)
      /\ n[x.snap].parent = x.parent
      /\ \A u \in Archived(m) : n[u] = m[u]
  BY ArchivedAdd DEF Adds, Archived, x
<1>3. Ranked(d, x.snap, x.parent, limit)
  <2>1. 1 \in DOMAIN plan
    BY <1>1
  <2> QED
    BY <1>1, <2>1 DEF RanksSteps
<1>4. RanksArchives(d, n, limit)
  BY <1>2, <1>3 DEF RanksArchives
<1>5. RanksSteps(d, tail, limit)
  <2>1. \A i \in DOMAIN tail : i + 1 \in DOMAIN plan /\ tail[i] = plan[i + 1]
    BY <1>1
  <2> QED
    BY <2>1 DEF RanksSteps
<1> QED
  BY <1>4, <1>5 DEF tail

(* What the archives and the steps to be done have in common.              *)
DepthAsked == setting.file.sync[sync].max_incremental_depth
IntervalAsked == DaysAsked(setting.file.sync[sync])

LimitsInv ==
  /\ \A v \in Volumes : Closed(archives[v])
  /\ LimitsKept
  /\ Doing("run") /\ Working =>
       /\ Sound(archives[volume], steps, IntervalAsked)
       /\ DepthAsked # None =>
            \E d \in [Snaps -> Nat] : /\ RanksArchives(d, archives[volume], DepthAsked)
                                      /\ RanksSteps(d, steps, DepthAsked)

LEMMA LimitsInit == Init => LimitsInv
<1> SUFFICES ASSUME Init
             PROVE  LimitsInv
  OBVIOUS
<1>1. pc = "idle" /\ archives = [v \in Volumes |-> [t \in Snaps |-> None]]
  BY DEF Init
<1>2. \A v \in Volumes : Archived(archives[v]) = {}
  BY <1>1 DEF Archived
<1> QED
  BY <1>1, <1>2 DEF LimitsInv, LimitsKept, WithinLimits, Closed, Doing

LEMMA LimitsFrame ==
  ASSUME LimitsInv, UNCHANGED <<setting, archives>>,
         Doing("run")' /\ Working' => Doing("run") /\ Working /\ UNCHANGED <<volume, steps, sync>>
  PROVE  LimitsInv'
<1>1. (\A v \in Volumes : Closed(archives[v]))' /\ LimitsKept'
  BY DEF LimitsInv, LimitsKept, Closed, Archived
<1>2. ASSUME Doing("run")' /\ Working'
      PROVE  (/\ Sound(archives[volume], steps, IntervalAsked)
              /\ DepthAsked # None =>
                   \E d \in [Snaps -> Nat] : /\ RanksArchives(d, archives[volume], DepthAsked)
                                             /\ RanksSteps(d, steps, DepthAsked))'
  <2>1. /\ archives'[volume'] = archives[volume] /\ steps' = steps
        /\ DepthAsked' = DepthAsked /\ IntervalAsked' = IntervalAsked
    BY <1>2 DEF DepthAsked, IntervalAsked
  <2>2. /\ Sound(archives[volume], steps, IntervalAsked)
        /\ DepthAsked # None =>
             \E d \in [Snaps -> Nat] : /\ RanksArchives(d, archives[volume], DepthAsked)
                                       /\ RanksSteps(d, steps, DepthAsked)
    BY <1>2 DEF LimitsInv
  <2> QED
    BY <2>1, <2>2
<1> QED
  BY <1>1, <1>2 DEF LimitsInv

(* A plan is made within the limits of the file.                           *)
LEMMA LimitsPlan ==
  ASSUME ConfigInv, TypeInv, LimitsInv, NEW v \in todo, RunVolume(v)
  PROVE  LimitsInv'
<1>1. /\ pc = "volumes" /\ volume' = v /\ steps' = PlanFor(v)
      /\ UNCHANGED <<setting, archives, sync>>
  BY DEF RunVolume, Enter
<1>2. /\ v \in Volumes /\ Listed(v) \in SUBSET Snaps /\ PlanFor(v) \in Seq(OlderStep)
  BY <1>1, PlanForIs
<1> DEFINE m == archives[v]
<1>3. /\ m \in [Snaps -> Archive \cup {None}] /\ OlderParents(m) /\ Closed(m)
  BY <1>2 DEF TypeInv, LimitsInv
<1>4. ~Idle /\ sync \in DOMAIN config.sync
  BY <1>1 DEF Idle, ConfigInv
<1>5. /\ Limiting(Policy) /\ setting.file # None /\ sync \in DOMAIN setting.file.sync
      /\ Policy.max_incremental_depth = DepthAsked
      /\ IntervalAsked \in Nat
      /\ Policy.min_full_send_interval <= IntervalAsked
  BY <1>4, PolicyAsked DEF DepthAsked, IntervalAsked
<1>6. DepthAsked # None => \A t \in Archived(m) : Depths(m)[t] < DepthAsked
  BY <1>2, <1>5 DEF LimitsInv, LimitsKept, WithinLimits, DepthAsked
<1> HIDE DEF m
<1> DEFINE plan == BuildPlan(Listed(v), m, Policy)
<1>7. /\ Sound(m, plan, Policy.min_full_send_interval)
      /\ DepthAsked # None =>
           \E d \in [Snaps -> Nat] : RanksArchives(d, m, DepthAsked) /\ RanksSteps(d, plan, DepthAsked)
  BY <1>2, <1>3, <1>5, <1>6, PlanRanks
<1>8. PlanFor(v) = plan
  BY DEF PlanFor, m
<1> HIDE DEF plan
<1>9. Sound(m, plan, IntervalAsked)
  BY <1>2, <1>5, <1>7, <1>8, SoundLonger DEF Limiting
<1>10. archives'[volume'] = m /\ DepthAsked' = DepthAsked /\ IntervalAsked' = IntervalAsked
  BY <1>1 DEF m, DepthAsked, IntervalAsked
<1>11. (/\ Sound(archives[volume], steps, IntervalAsked)
        /\ DepthAsked # None =>
             \E d \in [Snaps -> Nat] : /\ RanksArchives(d, archives[volume], DepthAsked)
                                       /\ RanksSteps(d, steps, DepthAsked))'
  BY <1>1, <1>7, <1>8, <1>9, <1>10
<1>12. (\A w \in Volumes : Closed(archives[w]))' /\ LimitsKept'
  BY <1>1 DEF LimitsInv, LimitsKept, Closed, Archived
<1> QED
  BY <1>11, <1>12 DEF LimitsInv

(* And executing a step of it stays within them.                           *)
LEMMA LimitsSend ==
  ASSUME ConfigInv, TypeInv, TypeInv', StepsInv, LimitsInv, FinishSend, cmd = "run"
  PROVE  LimitsInv'
<1> DEFINE x == Head(steps)
           m == archives[volume]
           n == archives'[volume]
<1>1. /\ pc = "send" /\ steps' = Tail(steps) /\ steps # <<>> /\ steps \in Seq(OlderStep)
      /\ volume \in Volumes /\ UNCHANGED <<setting, volume, sync>>
  BY DEF FinishSend, TypeInv, Working
<1>2. /\ Adds(m, n, x.snap) /\ n[x.snap].parent = x.parent
      /\ \A w \in Volumes \ {volume} : archives'[w] = archives[w]
  BY SendIs
<1>3. /\ m \in [Snaps -> Archive \cup {None}] /\ Closed(m)
      /\ n \in [Snaps -> Archive \cup {None}] /\ OlderParents(n)
  BY <1>1 DEF TypeInv, LimitsInv
<1>4. /\ Sound(m, steps, IntervalAsked)
      /\ DepthAsked # None => \E d \in [Snaps -> Nat] : /\ RanksArchives(d, m, DepthAsked)
                                                        /\ RanksSteps(d, steps, DepthAsked)
  BY <1>1 DEF LimitsInv, Working, Doing
<1>5. /\ Limiting(Policy) /\ setting.file # None /\ sync \in DOMAIN setting.file.sync
      /\ \A i \in DOMAIN setting.file.sync : i = sync
      /\ DepthAsked \in {None} \cup (Nat \ {0})
  <2>1. ~Idle /\ sync \in DOMAIN config.sync
    BY <1>1 DEF Idle, ConfigInv
  <2> QED
    BY <2>1, PolicyAsked DEF DepthAsked, Limiting
<1> HIDE DEF x, m, n
<1>6. /\ Closed(n) /\ Sound(n, Tail(steps), IntervalAsked)
      /\ Fulls(m) \subseteq Fulls(n)
      /\ x.parent # None => \E u \in Fulls(n) : x.snap - u < IntervalAsked
  BY <1>1, <1>2, <1>3, <1>4, TailSound DEF x
<1>7. DepthAsked # None => \E d \in [Snaps -> Nat] : /\ RanksArchives(d, n, DepthAsked)
                                                    /\ RanksSteps(d, Tail(steps), DepthAsked)
  BY <1>1, <1>2, <1>4, TailRanks DEF x
<1>8. DepthAsked # None => \A t \in Archived(n) : Depths(n)[t] < DepthAsked
  BY <1>3, <1>5, <1>7, DepthBelowRank
<1>9. WithinLimits(m, DepthAsked, IntervalAsked)
  BY <1>1, <1>5 DEF LimitsInv, LimitsKept, DepthAsked, IntervalAsked, m
<1>10. ASSUME NEW t \in Archived(n), n[t].parent # None
       PROVE  \E u \in Archived(n) : n[u].parent = None /\ t - u < IntervalAsked
  <2>1. \E u \in Fulls(n) : t - u < IntervalAsked
    <3>1. CASE t = x.snap
      BY <1>2, <1>6, <1>10, <3>1
    <3>2. CASE t # x.snap
      <4>1. t \in Archived(m) /\ m[t] = n[t]
        BY <1>2, <3>2 DEF Adds, Archived
      <4>2. \E u \in Fulls(m) : t - u < IntervalAsked
        BY <1>9, <1>10, <4>1 DEF WithinLimits, Fulls
      <4> QED
        BY <1>6, <4>2
    <3> QED
      BY <3>1, <3>2
  <2> QED
    BY <2>1 DEF Fulls
<1>11. WithinLimits(n, DepthAsked, IntervalAsked)
  BY <1>8, <1>10 DEF WithinLimits
<1>12. ASSUME NEW w \in Volumes
       PROVE  Closed(archives'[w]) /\ WithinLimits(archives'[w], DepthAsked, IntervalAsked)
  <2>1. CASE w = volume
    BY <1>6, <1>11, <2>1 DEF n
  <2>2. CASE w # volume
    <3>1. archives'[w] = archives[w]
      BY <1>2, <2>2
    <3>2. Closed(archives[w]) /\ WithinLimits(archives[w], DepthAsked, IntervalAsked)
      BY <1>5 DEF LimitsInv, LimitsKept, DepthAsked, IntervalAsked
    <3> QED
      BY <3>1, <3>2
  <2> QED
    BY <2>1, <2>2
<1>13. LimitsKept'
  <2> SUFFICES ASSUME NEW i \in DOMAIN setting.file.sync, NEW w \in Volumes
               PROVE  WithinLimits(archives'[w], setting.file.sync[i].max_incremental_depth,
                                   DaysAsked(setting.file.sync[i]))
    BY <1>1 DEF LimitsKept, WithinLimits, Archived
  <2>1. i = sync
    BY <1>5
  <2> QED
    BY <1>12, <2>1 DEF DepthAsked, IntervalAsked
<1>14. (\A w \in Volumes : Closed(archives[w]))'
  BY <1>12 DEF Closed, Archived
<1>15. /\ archives'[volume'] = n /\ steps' = Tail(steps)
       /\ DepthAsked' = DepthAsked /\ IntervalAsked' = IntervalAsked
  BY <1>1 DEF n, DepthAsked, IntervalAsked
<1>16. (/\ Sound(archives[volume], steps, IntervalAsked)
        /\ DepthAsked # None =>
             \E d \in [Snaps -> Nat] : /\ RanksArchives(d, archives[volume], DepthAsked)
                                       /\ RanksSteps(d, steps, DepthAsked))'
  BY <1>6, <1>7, <1>15
<1> QED
  BY <1>13, <1>14, <1>16 DEF LimitsInv

LEMMA LimitsStep ==
  ConfigInv /\ TypeInv /\ TypeInv' /\ StepsInv /\ LimitsInv /\ [Next]_vars => LimitsInv'
<1> SUFFICES ASSUME ConfigInv, TypeInv, TypeInv', StepsInv, LimitsInv, [Next]_vars
             PROVE  LimitsInv'
  OBVIOUS
<1> USE DEF loop
<1>1. ASSUME NEW v \in todo, RunVolume(v)
      PROVE  LimitsInv'
  BY <1>1, LimitsPlan
<1>2. CASE FinishSend
  <2>1. CASE cmd = "run"
    BY <1>2, <2>1, LimitsSend
  <2>2. CASE cmd # "run"
    <3>1. UNCHANGED <<setting, archives, cmd>>
      BY <1>2, <2>2 DEF FinishSend
    <3> QED
      BY <2>2, <3>1, LimitsFrame DEF Doing
  <2> QED
    BY <2>1, <2>2
<1>3. CASE EnsureSudo \/ StartSend
  <2>1. Working /\ UNCHANGED <<setting, archives, cmd, volume, steps, sync>>
    BY <1>3 DEF EnsureSudo, StartSend, Working
  <2>2. pc # "idle"
    BY <1>3 DEF EnsureSudo, StartSend
  <2> QED
    BY <2>1, <2>2, LimitsFrame DEF Doing
<1>4. CASE \/ \E e \in setting.later : SnapCreate(e)
           \/ Time \/ UNCHANGED vars
  <2>1. UNCHANGED <<setting, archives, pc, cmd, volume, steps, sync>>
    BY <1>4 DEF SnapCreate, Time, vars
  <2> QED
    BY <2>1, LimitsFrame DEF Doing, Working
<1>5. CASE RefuseConfig \/ RefuseSudo \/ FinishCommand \/ Fail \/ \E v \in todo : BrokenVolume(v)
  <2>1. UNCHANGED <<setting, archives>> /\ pc' = "idle"
    BY <1>5 DEF RefuseConfig, RefuseSudo, FinishCommand, Fail, BrokenVolume, Exit
  <2> QED
    BY <2>1, LimitsFrame DEF Doing
<1>6. ASSUME NEW v \in todo, MeasureVolume(v)
      PROVE  LimitsInv'
  <2>1. UNCHANGED <<setting, archives>> /\ cmd' = "measure"
    BY <1>6 DEF MeasureVolume, Enter
  <2> QED
    BY <2>1, LimitsFrame DEF Doing
<1>7. CASE \/ \E c \in setting.commands : Start(c)
           \/ LoadConfig \/ \E s \in todo_syncs : NextSync(s)
           \/ InspectSource \/ FinishVolume \/ FinishSync
           \/ \E v \in todo : SkipVolume(v) \/ DryrunVolume(v) \/ ShowVolume(v)
  <2>1. UNCHANGED <<setting, archives>> /\ ~Working'
    BY <1>7 DEF Start, LoadConfig, NextSync, InspectSource, FinishVolume, FinishSync,
                SkipVolume, DryrunVolume, ShowVolume, Enter, Working
  <2> QED
    BY <2>1, LimitsFrame
<1> QED
  BY <1>1, <1>2, <1>3, <1>4, <1>5, <1>6, <1>7 DEF Next, Work

LEMMA StepsInvariant == Spec => [](ConfigInv /\ TypeInv /\ StepsInv)
<1>1. Init => StepsInv
  BY DEF Init, StepsInv, Working
<1> QED
  BY <1>1, StepsStep, TypeInvariant, PTL DEF Spec

(* Whatever runs come and are aborted, the archives keep the limits that   *)
(* the file asks for, as it is written (planner/mod.rs:85-93), over the    *)
(* defaults, the rules of from_toml and the wrapping of an interval.       *)
THEOREM LimitsAlwaysKept == Spec => []LimitsKept
<1>1. Init => LimitsInv
  BY LimitsInit
<1>2. ConfigInv /\ TypeInv /\ TypeInv' /\ StepsInv /\ LimitsInv /\ [Next]_vars => LimitsInv'
  BY LimitsStep
<1>3. LimitsInv => LimitsKept
  BY DEF LimitsInv
<1> QED
  BY <1>1, <1>2, <1>3, StepsInvariant, PTL DEF Spec

-----------------------------------------------------------------------------
(* A step of the work of a command.                                        *)
LEMMA CountKeep ==
  ASSUME CountInv, pc # "idle", pc' # "idle", UNCHANGED <<told, cmd>>,
         cmd = "run" \/ Total' = Total,
         told # None /\ Sending => SendInv'
  PROVE  CountInv'
<1>1. \A c : Doing(c)' = Doing(c)
  BY DEF Doing
<1>2. Sending' = Sending /\ Asking' = Asking /\ Telling' = Telling
  BY <1>1 DEF Sending, Asking, Telling
<1>3. ~Telling => cmd # "run"
  BY DEF Telling, Doing
<1>4. Sized(told.said)' = Sized(told.said)
  BY DEF Sized
<1> QED
  BY <1>2, <1>3, <1>4 DEF CountInv

LEMMA CountInit == Init => CountInv
BY DEF Init, CountInv

LEMMA CountStart ==
  ASSUME ConfigInv, VisitInv, CountInv, NEW c \in setting.commands, Start(c)
  PROVE  CountInv'
<1> SUFFICES ASSUME told' # None
             PROVE  /\ Sending' => SendInv'
                    /\ ~Asking' /\ told'.by = "measure" => (told.sent = StatsOf(Sized(told.said)))'
                    /\ ~Telling' /\ told'.by = "measure" => (told.remote = StatsOf(Total))'
  BY DEF CountInv, Start
<1>1. /\ pc = "idle" /\ pc' = "load" /\ cmd' = c
      /\ told' = IF Foretells(c) THEN [by |-> c] ELSE told
      /\ UNCHANGED <<setting, dir, archives, stats, report, todo_syncs>>
  BY DEF Start, loop
<1>2. report' = {} /\ Total' = Total
  BY <1>1, TotalFrame DEF VisitInv, FreshCache, Idle
<1>3. sent_stats' = NoStats /\ remote_stats' = NoStats
  BY <1>1 DEF CountInv, stats
<1>4. ToCount' = Total'
  BY <1>1 DEF ToCount, Inside, Before
<1>5. \A x : Doing(x)' <=> c = x
  BY <1>1 DEF Doing
<1>6. ASSUME ~Foretells(c)
      PROVE  /\ told' = told
             /\ told'.by = "measure" => /\ (told.sent = StatsOf(Sized(told.said)))'
                                        /\ (told.remote = StatsOf(Total))'
  <2>1. told' = told /\ ~Asking /\ ~Telling
    BY <1>1, <1>6 DEF Asking, Telling, Doing
  <2>2. Sized(told.said)' = Sized(told.said)
    BY <2>1 DEF Sized
  <2> QED
    BY <1>2, <2>1, <2>2 DEF CountInv
<1>7. Sending' => SendInv'
  <2> SUFFICES ASSUME Sending'
               PROVE  SendInv'
    OBVIOUS
  <2>1. Sized(report)' = {} /\ Unreported(report)'
    BY <1>2 DEF Sized, Unreported
  <2>2. Counted({})'
    BY <1>3, StatsEmpty DEF Counted, Unreported
  <2>3. ASSUME cmd' = "run", told'.by = "measure"
        PROVE  told'.remote = StatsOf({} \cup ToCount')
    <3>1. ~Foretells(c)
      BY <1>1, <2>3 DEF Foretells
    <3>2. {} \cup ToCount' = Total'
      BY <1>4
    <3> QED
      BY <1>6, <2>3, <3>1, <3>2
  <2>4. {} \cup ToCount' = Total'
    BY <1>4
  <2>5. /\ Countable(Sized(report)')
        /\ sent_stats' = StatsOf(Sized(report)')
    BY <1>3, <2>1, StatsEmpty
  <2> QED
    BY <2>1, <2>2, <2>3, <2>4, <2>5 DEF SendInv
<1>8. ~Asking' \/ ~Telling' => ~Foretells(c)
  BY <1>5 DEF Asking, Telling, Foretells
<1> QED
  BY <1>6, <1>7, <1>8

(* Nothing has been counted until the volumes are gone over.               *)
LEMMA CountBefore ==
  ASSUME VisitInv, PlaceInv, CountInv, Before, UNCHANGED <<setting, dir, archives, told, cmd, report>>,
         pc # "idle", pc' # "idle",
         stats' = stats \/ stats' = <<NoStats, NoStats>>,
         ToCount' = Total
  PROVE  CountInv'
<1>1. Total' = Total
  BY TotalFrame
<1>2. ASSUME told # None, Sending
      PROVE  SendInv'
  <2>1. SendInv
    BY <1>2 DEF CountInv
  <2>2. PICK L : /\ Counted(L)
                 /\ cmd = "measure" => L \cup ToCount = Total
                 /\ cmd = "run" /\ told.by = "measure" => told.remote = StatsOf(L \cup ToCount)
    BY <2>1 DEF SendInv
  <2>3. L = {} /\ report = {}
    BY <2>2 DEF Counted, PlaceInv, FreshCache
  <2>4. ToCount = Total
    <3>1. ~Inside
      BY DEF Before, Inside, VisitInv
    <3> QED
      BY <3>1 DEF ToCount
  <2>5. /\ sent_stats = NoStats /\ remote_stats = NoStats
        /\ sent_stats' = NoStats /\ remote_stats' = NoStats
    <3>1. Sized(report) = {}
      BY <2>3 DEF Sized
    <3>2. sent_stats = NoStats
      BY <2>1, <3>1, StatsEmpty DEF SendInv
    <3>3. remote_stats = NoStats
      BY <2>2, <2>3, StatsEmpty DEF Counted
    <3> QED
      BY <3>2, <3>3 DEF stats
  <2>6. Sized(report)' = {} /\ Unreported(report)'
    BY <2>3 DEF Sized, Unreported
  <2>7. Counted({})'
    BY <2>5, StatsEmpty DEF Counted, Unreported
  <2>8. {} \cup ToCount' = Total' /\ {} \cup ToCount = Total
    BY <1>1, <2>4
  <2>9. /\ Countable(Sized(report)')
        /\ sent_stats' = StatsOf(Sized(report)')
    BY <2>5, <2>6, StatsEmpty
  <2> QED
    BY <1>1, <2>2, <2>3, <2>6, <2>7, <2>8, <2>9 DEF SendInv
<1> QED
  BY <1>1, <1>2, CountKeep

LEMMA CountInspect ==
  ASSUME ConfigInv, TypeInv, VisitInv, PlaceInv, CountInv, InspectSource
  PROVE  CountInv'
<1> DEFINE list == Listing(config.source[Source])
<1>1. /\ pc = "sync" /\ pc' = "volumes"
      /\ UNCHANGED <<setting, dir, archives, cmd, stats, report, told>>
  BY DEF InspectSource
<1>2. /\ todo' = Found(list) /\ \A v : Matches(v)' = Matches(v)
      /\ Pending' = Forecast
  BY PendingInspect
<1>3. Chosen = {sync} /\ Covered(sync) = {v \in Found(list) : Matches(v)}
  BY <1>1, ForecastIs DEF PlaceInv, Idle
<1> HIDE DEF list
<1>4. HeldAhead' = HeldOf(Covered(sync))
  <2>1. {w \in todo : Matches(w)}' = Covered(sync)
    BY <1>2, <1>3
  <2>2. \A V : HeldOf(V)' = HeldOf(V)
    BY <1>1 DEF HeldOf
  <2> QED
    BY <2>1, <2>2 DEF HeldAhead, HeldOf
<1>5. Total = HeldOf(Covered(sync)) \cup Sized(Forecast)
  <2>1. \A z : z \in Total <=> (\E n \in Chosen : z \in HeldOf(Covered(n))) \/ z \in Sized(Forecast)
    BY DEF Total
  <2>2. \A z : (\E n \in Chosen : z \in HeldOf(Covered(n))) <=> z \in HeldOf(Covered(sync))
    BY <1>3, Zenon
  <2>3. \A z : z \in Total <=> z \in HeldOf(Covered(sync)) \/ z \in Sized(Forecast)
    BY <2>1, <2>2, Zenon
  <2> QED
    BY <2>3
<1>6. Sized(Pending)' = Sized(Forecast)
  BY <1>2 DEF Sized
<1>7. ToCount' = Total
  <2>1. ToCount' = HeldAhead' \cup Sized(Pending)'
    BY <1>1 DEF ToCount, Inside, Working
  <2> QED
    BY <1>4, <1>5, <1>6, <2>1
<1>8. Before /\ stats' = stats
  BY <1>1 DEF Before
<1> QED
  BY <1>1, <1>7, <1>8, CountBefore

(* With the same lines printed and the same archives counted.              *)
LEMMA CountSame ==
  ASSUME CountInv, pc # "idle", pc' # "idle",
         UNCHANGED <<setting, dir, archives, told, cmd, stats, report>>,
         Sending => /\ ToCount' = ToCount
                    /\ \A L : Unreported(L) => Unreported(L)'
                    /\ cmd = "run" /\ Working' =>
                         \A L : Counted(L) => \A x \in L : x.volume # volume'
                    /\ Before' => Before
  PROVE  CountInv'
<1>1. Total' = Total
  BY TotalFrame
<1>2. ASSUME told # None, Sending
      PROVE  SendInv'
  <2>1. SendInv
    BY <1>2 DEF CountInv
  <2>2. PICK L : /\ Counted(L)
                 /\ cmd = "measure" => L \cup ToCount = Total
                 /\ cmd = "run" /\ told.by = "measure" => told.remote = StatsOf(L \cup ToCount)
    BY <2>1 DEF SendInv
  <2>3. Counted(L)'
    BY <1>2, <2>2 DEF Counted, stats
  <2>4. L \cup ToCount' = L \cup ToCount
    BY <1>2
  <2>5. Sized(report)' = Sized(report)
    BY DEF Sized
  <2>6. sent_stats' = sent_stats /\ Unreported(report)'
    BY <1>2, <2>1 DEF SendInv, stats, Unreported
  <2> QED
    BY <1>1, <2>1, <2>2, <2>3, <2>4, <2>5, <2>6 DEF SendInv
<1> QED
  BY <1>1, <1>2, CountKeep

(* A volume that a run comes to, or that is not selected.                  *)
LEMMA CountVolume ==
  ASSUME TypeInv, VisitInv, PlaceInv, CountInv, NEW v \in todo, SkipVolume(v) \/ RunVolume(v)
  PROVE  CountInv'
<1> DEFINE rest == {w \in todo \ {v} : Matches(w)}
<1>1. /\ pc = "volumes" /\ pc' \in {"volumes", "step"} /\ todo' = todo \ {v}
      /\ UNCHANGED <<setting, dir, archives, cmd, todo_syncs, told, stats, report>>
      /\ SkipVolume(v) => /\ ~Matches(v) /\ pc' = "volumes" /\ UNCHANGED <<volume, steps>>
      /\ RunVolume(v) => /\ Matches(v) /\ pc' = "step" /\ cmd = "run"
                         /\ volume' = v /\ steps' = PlanFor(v)
  BY DEF SkipVolume, RunVolume, Enter, stats
<1>2. \A w : Matches(w)' = Matches(w)
  BY PendingVolume
<1>3. Pending' = Pending
  <2> DEFINE ahead == UNION {PlanLines(w, PlanFor(w)) : w \in {w \in todo \ {v} : Matches(w)}}
  <2>1. /\ Pending = (IF Matches(v) THEN PlanLines(v, PlanFor(v)) ELSE {}) \cup ahead
        /\ Pending' = (IF pc' = "step" THEN PlanLines(volume', steps') ELSE {}) \cup ahead
    BY PendingVolume
  <2> HIDE DEF ahead
  <2> QED
    BY <1>1, <2>1
<1>4. HeldAhead = (IF Matches(v) THEN Items(v, archives[v]) ELSE {}) \cup HeldOf(rest)
  BY HeldSplit
<1>5. HeldAhead' = HeldOf(rest)
  <2>1. {w \in todo : Matches(w)}' = rest
    BY <1>1, <1>2
  <2> HIDE DEF rest
  <2> QED
    BY <1>1, <2>1 DEF HeldAhead, HeldOf
<1> HIDE DEF rest
<1>6. ToCount' = ToCount
  <2>1. Sized(Pending)' = Sized(Pending)
    BY <1>3 DEF Sized
  <2>2. ToCount = HeldAhead \cup Sized(Pending)
    BY <1>1 DEF ToCount, Inside, Working
  <2>3. ToCount' = (IF pc' = "step" /\ cmd = "run" THEN Items(volume', archives[volume']) ELSE {})
                     \cup HeldAhead' \cup Sized(Pending)
    BY <1>1, <2>1 DEF ToCount, Inside, Working
  <2> QED
    BY <1>1, <1>4, <1>5, <2>2, <2>3
<1>7. ASSUME NEW L, Unreported(L)
      PROVE  Unreported(L)' /\ \A x \in L : x.volume # v
  <2>1. \A x \in L : x.volume \notin todo
    BY <1>7 DEF Unreported
  <2> QED
    BY <1>1, <2>1 DEF Unreported, Working
<1>8. ASSUME cmd = "run", Working', NEW L, Counted(L)
      PROVE  \A x \in L : x.volume # volume'
  BY <1>1, <1>7, <1>8 DEF Counted, Working
<1>9. Before' => Before
  BY <1>1 DEF Before
<1> QED
  BY <1>1, <1>6, <1>7, <1>8, <1>9, CountSame

(* The archives that a dryrun finds of a volume it comes to.               *)
LEMMA CountMeasure ==
  ASSUME TypeInv, VisitInv, PlaceInv, CountInv, NEW v \in todo, MeasureVolume(v)
  PROVE  CountInv'
<1> DEFINE rest == {w \in todo \ {v} : Matches(w)}
<1> PICK items : items = Items(v, archives[v])
  OBVIOUS
<1>1. /\ pc = "volumes" /\ pc' = "step" /\ todo' = todo \ {v} /\ cmd = "measure" /\ Matches(v)
      /\ volume' = v /\ steps' = PlanFor(v)
      /\ remote_stats' = Merge(remote_stats, FromMeta(archives[v]))
      /\ UNCHANGED <<setting, dir, archives, cmd, todo_syncs, told, sent_stats, report>>
  BY DEF MeasureVolume, Enter
<1>2. Total' = Total
  BY <1>1, TotalFrame
<1>3. v \in Volumes /\ SnapsOf(PlanFor(v)) \cap Archived(archives[v]) = {}
  BY <1>1, PlanForIs
<1>4. \A w : Matches(w)' = Matches(w)
  BY PendingVolume
<1>5. Pending' = Pending
  <2> DEFINE ahead == UNION {PlanLines(w, PlanFor(w)) : w \in {w \in todo \ {v} : Matches(w)}}
  <2>1. /\ Pending = (IF Matches(v) THEN PlanLines(v, PlanFor(v)) ELSE {}) \cup ahead
        /\ Pending' = (IF pc' = "step" THEN PlanLines(volume', steps') ELSE {}) \cup ahead
    BY PendingVolume
  <2> HIDE DEF ahead
  <2> QED
    BY <1>1, <2>1
<1>6. HeldAhead = items \cup HeldOf(rest)
  BY <1>1, HeldSplit
<1>7. HeldAhead' = HeldOf(rest)
  <2>1. {w \in todo : Matches(w)}' = rest
    BY <1>1, <1>4
  <2> HIDE DEF rest
  <2> QED
    BY <1>1, <2>1 DEF HeldAhead, HeldOf
<1>8. ToCount = items \cup ToCount'
  <2>1. Sized(Pending)' = Sized(Pending)
    BY <1>5 DEF Sized
  <2>2. ToCount = HeldAhead \cup Sized(Pending)
    BY <1>1 DEF ToCount, Inside, Working
  <2>3. ToCount' = HeldAhead' \cup Sized(Pending)
    BY <1>1, <2>1 DEF ToCount, Inside, Working
  <2> HIDE DEF rest
  <2> QED
    BY <1>6, <1>7, <2>2, <2>3
<1>9. Countable(items) /\ FromMeta(archives[v]) = StatsOf(items)
  BY <1>3, FromMetaIs DEF TypeInv
<1>10. \A x \in items : x.volume = v /\ x.snap \in Archived(archives[v])
  <2>1. \A x \in Items(v, archives[v]) : x.volume = v /\ x.snap \in Archived(archives[v])
    BY DEF Items, Item
  <2> QED
    BY <2>1
<1> HIDE DEF rest
<1>11. ASSUME NEW L, Unreported(L)
       PROVE  Unreported(L)' /\ L \cap items = {}
  <2>1. \A x \in L : x.volume \notin todo
    BY <1>11 DEF Unreported
  <2> QED
    BY <1>1, <1>10, <2>1 DEF Unreported
<1>12. Unreported(items)'
  BY <1>1, <1>3, <1>10 DEF Unreported
<1>13. ASSUME told # None, Sending
       PROVE  SendInv'
  <2>1. SendInv
    BY <1>13 DEF CountInv
  <2>2. PICK L : Counted(L) /\ L \cup ToCount = Total
    BY <1>1, <2>1 DEF SendInv
  <2>3. PICK M : M = L \cup items
    OBVIOUS
  <2>4. Countable(L) /\ remote_stats = StatsOf(L) /\ Unreported(L)
    BY <2>2 DEF Counted
  <2>5. Countable(M) /\ StatsOf(M) = Merge(StatsOf(L), StatsOf(items))
    BY <1>9, <1>11, <2>3, <2>4, StatsMerge
  <2>6. remote_stats' = StatsOf(M)
    BY <1>1, <1>9, <2>4, <2>5
  <2>7. Unreported(M)'
    <3>1. Unreported(L)' /\ Unreported(items)'
      BY <1>11, <1>12, <2>4
    <3> QED
      BY <2>3, <3>1 DEF Unreported
  <2>8. Counted(M)'
    <3>1. ~Before'
      BY <1>1 DEF Before, VisitInv
    <3> QED
      BY <1>1, <2>5, <2>6, <2>7, <3>1 DEF Counted
  <2>9. M \cup ToCount' = Total'
    BY <1>2, <1>8, <2>2, <2>3
  <2>10. Sized(report)' = Sized(report) /\ Unreported(report)'
    BY <1>1, <1>11, <2>1 DEF Sized, SendInv, Unreported
  <2> QED
    BY <1>1, <2>1, <2>8, <2>9, <2>10 DEF SendInv
<1> QED
  BY <1>1, <1>2, <1>13, CountKeep

(* A step that is done has been reported and, by a dryrun, counted; a run  *)
(* has made an archive of it, that it counts when it is done with the      *)
(* volume.                                                                 *)
LEMMA CountSend ==
  ASSUME TypeInv, VisitInv, PlaceInv, StepsInv, CountInv, FinishSend
  PROVE  CountInv'
<1> PICK x : x = Head(steps)
  OBVIOUS
<1> PICK line : line = [volume |-> volume, snap |-> x.snap, parent |-> x.parent,
                        size |-> Size[x.snap][x.parent]]
  OBVIOUS
<1>1. /\ pc = "send" /\ pc' = "step" /\ steps' = Tail(steps)
      /\ sent_stats' = AddSize(sent_stats, x.parent, Size[x.snap][x.parent])
      /\ report' = report \cup PlanLines(volume, <<x>>)
      /\ \/ cmd = "run" /\ remote_stats' = remote_stats
         \/ /\ cmd = "measure" /\ archives' = archives
            /\ remote_stats' = AddSize(remote_stats, x.parent, Size[x.snap][x.parent])
      /\ UNCHANGED <<setting, dir, cmd, config, todo_syncs, sync, source_cache, todo, volume, told>>
  BY DEF FinishSend
<1>2. line.volume = volume /\ line.snap = x.snap /\ line.parent = x.parent
      /\ line.size = Size[x.snap][x.parent]
  OBVIOUS
<1>3. /\ volume \in Volumes /\ line.size \in Nat
      /\ Sized(PlanLines(volume, <<x>>)) = {line}
      /\ SnapsOf(steps) = {x.snap} \cup SnapsOf(Tail(steps))
      /\ x.snap \notin SnapsOf(Tail(steps))
      /\ cmd = "run" =>
           /\ \A w \in Volumes \ {volume} : archives'[w] = archives[w]
           /\ Items(volume, archives'[volume]) = Items(volume, archives[volume]) \cup {line}
  BY SendIs
<1>4. volume \notin todo /\ todo \subseteq Volumes
  BY <1>1 DEF PlaceInv, Working, TypeInv
<1>5. \A w : Matches(w)' = Matches(w)
  BY PendingSend
<1>6. Sized(report') = Sized(report) \cup {line}
  <2>1. Sized(report \cup PlanLines(volume, <<x>>)) = Sized(report) \cup Sized(PlanLines(volume, <<x>>))
    BY SizedParts
  <2> QED
    BY <1>1, <1>3, <2>1
<1>7. Sized(Pending) = Sized(Pending') \cup {line}
  <2>1. Pending = PlanLines(volume, <<x>>) \cup Pending'
    BY PendingSend
  <2>2. Sized(PlanLines(volume, <<x>>) \cup Pending') =
          Sized(PlanLines(volume, <<x>>)) \cup Sized(Pending')
    BY SizedParts
  <2> QED
    BY <1>3, <2>1, <2>2
<1>8. HeldAhead' = HeldAhead
  <2>1. \A w \in todo : archives'[w] = archives[w]
    BY <1>1, <1>3, <1>4
  <2>2. {w \in todo : Matches(w)}' = {w \in todo : Matches(w)}
    BY <1>1, <1>5
  <2>3. \A w \in {w \in todo : Matches(w)} : Items(w, archives[w])' = Items(w, archives[w])
    BY <2>1
  <2> QED
    BY <2>2, <2>3 DEF HeldAhead, HeldOf
<1>9. ASSUME NEW L, Unreported(L)
      PROVE  Unreported(L)' /\ Unreported(L \cup {line})' /\ line \notin L
  <2>1. \A y \in L : y.volume \notin todo /\ (y.volume = volume => y.snap \notin SnapsOf(steps))
    BY <1>1, <1>9 DEF Unreported, Working
  <2>2. \A y \in L \cup {line} : y.volume \notin todo /\ (y.volume = volume => y.snap \notin SnapsOf(Tail(steps)))
    BY <1>2, <1>3, <1>4, <2>1
  <2>3. line \notin L
    BY <1>2, <1>3, <2>1
  <2> QED
    BY <1>1, <2>2, <2>3 DEF Unreported, Working
<1>10. ASSUME Unreported(report)
       PROVE  Unreported(report)' /\ line \notin Sized(report)
  <2>1. \A y \in report : y.volume \notin todo /\ (y.volume = volume => y.snap \notin SnapsOf(steps))
    BY <1>1, <1>10 DEF Unreported, Working
  <2>2. \A y \in PlanLines(volume, <<x>>) : y.volume = volume /\ y.snap = x.snap
    <3> DEFINE l == [volume |-> volume, snap |-> x.snap, parent |-> x.parent]
    <3>1. PlanLines(volume, <<x>>) = {l}
      <4>1. DOMAIN <<x>> = {1} /\ <<x>>[1] = x
        OBVIOUS
      <4> QED
        BY <4>1 DEF PlanLines
    <3> QED
      BY <3>1
  <2>3. \A y \in report' : y.volume \notin todo /\ (y.volume = volume => y.snap \notin SnapsOf(Tail(steps)))
    BY <1>1, <1>3, <1>4, <2>1, <2>2
  <2>4. line \notin Sized(report)
    <3>1. \A y \in Sized(report) : \E l \in report : y.volume = l.volume /\ y.snap = l.snap
      BY DEF Sized
    <3> QED
      BY <1>2, <1>3, <2>1, <3>1
  <2> QED
    BY <1>1, <2>3, <2>4 DEF Unreported, Working
<1>11. Sending /\ ~Before'
  BY <1>1 DEF Sending, Doing, Before, VisitInv
<1>12. ASSUME told # None
       PROVE  SendInv'
  <2>1. SendInv
    BY <1>11, <1>12 DEF CountInv
  <2>2. /\ Countable(Sized(report)) /\ sent_stats = StatsOf(Sized(report)) /\ Unreported(report)
    BY <2>1 DEF SendInv
  <2>3. Unreported(report)' /\ line \notin Sized(report)
    BY <1>10, <2>2
  <2>4. Countable(Sized(report')) /\ sent_stats' = StatsOf(Sized(report'))
    <3>1. /\ Countable(Sized(report) \cup {line})
          /\ StatsOf(Sized(report) \cup {line}) = AddSize(StatsOf(Sized(report)), line.parent, line.size)
      BY <1>3, <2>2, <2>3, StatsAdd
    <3> QED
      BY <1>1, <1>2, <1>6, <2>2, <3>1
  <2>5. PICK L : /\ Counted(L)
                 /\ cmd = "measure" => L \cup ToCount = Total
                 /\ cmd = "run" /\ told.by = "measure" => told.remote = StatsOf(L \cup ToCount)
    BY <2>1 DEF SendInv
  <2>6. Countable(L) /\ remote_stats = StatsOf(L) /\ Unreported(L)
    BY <2>5 DEF Counted
  <2>7. CASE cmd = "run"
    <3>1. /\ ToCount = Items(volume, archives[volume]) \cup HeldAhead \cup Sized(Pending)
          /\ ToCount' = Items(volume, archives'[volume]) \cup HeldAhead' \cup Sized(Pending')
      BY <1>1, <2>7 DEF ToCount, Inside, Working
    <3>2. L \cup ToCount' = L \cup ToCount
      BY <1>3, <1>7, <1>8, <2>7, <3>1
    <3>3. \A y \in L : y.volume # volume
      BY <1>1, <2>5, <2>7 DEF Counted, Working
    <3>4. Counted(L)'
      BY <1>1, <1>9, <1>11, <2>6, <2>7, <3>3 DEF Counted
    <3> QED
      BY <1>1, <2>3, <2>4, <2>5, <2>7, <3>2, <3>4 DEF SendInv
  <2>8. CASE cmd = "measure"
    <3>1. PICK M : M = L \cup {line}
      OBVIOUS
    <3>2. /\ ToCount = HeldAhead \cup Sized(Pending)
          /\ ToCount' = HeldAhead' \cup Sized(Pending')
      BY <1>1, <2>8 DEF ToCount, Inside, Working
    <3>3. M \cup ToCount' = L \cup ToCount
      BY <1>7, <1>8, <3>1, <3>2
    <3>4. Total' = Total
      BY <1>1, <2>8, TotalFrame
    <3>5. Unreported(M)' /\ line \notin L
      BY <1>9, <2>6, <3>1
    <3>6. Countable(M) /\ StatsOf(M) = AddSize(StatsOf(L), line.parent, line.size)
      BY <1>3, <2>6, <3>1, <3>5, StatsAdd
    <3>7. remote_stats' = StatsOf(M)
      BY <1>1, <1>2, <2>6, <2>8, <3>6
    <3>8. Counted(M)'
      BY <1>1, <1>11, <2>8, <3>5, <3>6, <3>7 DEF Counted
    <3> QED
      BY <1>1, <2>3, <2>4, <2>5, <2>8, <3>3, <3>4, <3>8 DEF SendInv
  <2> QED
    BY <1>1, <2>7, <2>8
<1>13. cmd = "run" \/ Total' = Total
  BY <1>1, TotalFrame
<1> QED
  BY <1>1, <1>12, <1>13, CountKeep

(* A run counts the archives of a volume when it is done with it.          *)
LEMMA CountDone ==
  ASSUME TypeInv, VisitInv, PlaceInv, CountInv, FinishVolume
  PROVE  CountInv'
<1> PICK items : items = Items(volume, archives[volume])
  OBVIOUS
<1>1. /\ pc = "step" /\ pc' = "volumes" /\ volume' = None
      /\ remote_stats' = IF cmd = "run" THEN Merge(remote_stats, FromMeta(archives[volume]))
                         ELSE remote_stats
      /\ UNCHANGED <<setting, dir, archives, cmd, config, todo_syncs, sync, source_cache, todo,
                     steps, told, sent_stats, report>>
  BY DEF FinishVolume
<1>2. volume \in Volumes /\ volume \notin todo
  BY <1>1 DEF TypeInv, PlaceInv, Working
<1>3. Total' = Total
  BY <1>1, TotalFrame
<1>4. Pending' = Pending /\ \A w : Matches(w)' = Matches(w)
  BY PendingDone
<1>5. HeldAhead' = HeldAhead /\ Sized(Pending)' = Sized(Pending)
  <2>1. {w \in todo : Matches(w)}' = {w \in todo : Matches(w)}
    BY <1>1, <1>4
  <2> QED
    BY <1>1, <1>4, <2>1 DEF HeldAhead, HeldOf, Sized
<1>6. /\ ToCount = (IF cmd = "run" THEN items ELSE {}) \cup HeldAhead \cup Sized(Pending)
      /\ ToCount' = HeldAhead \cup Sized(Pending)
  <2>1. ToCount = (IF cmd = "run" THEN items ELSE {}) \cup HeldAhead \cup Sized(Pending)
    BY <1>1 DEF ToCount, Inside, Working
  <2>2. ToCount' = HeldAhead' \cup Sized(Pending)'
    BY <1>1 DEF ToCount, Inside, Working
  <2> QED
    BY <1>5, <2>1, <2>2
<1>7. Countable(items) /\ FromMeta(archives[volume]) = StatsOf(items)
  BY <1>2, FromMetaIs DEF TypeInv
<1>8. \A x \in items : x.volume = volume
  <2>1. \A x \in Items(volume, archives[volume]) : x.volume = volume
    BY DEF Items, Item
  <2> QED
    BY <2>1
<1>9. ~Before' /\ ~Working'
  BY <1>1 DEF Before, Working, VisitInv
<1>10. ASSUME NEW L, \A x \in L : x.volume \notin todo
       PROVE  Unreported(L)'
  BY <1>1, <1>9, <1>10 DEF Unreported
<1>11. ASSUME told # None, Sending
       PROVE  SendInv'
  <2>1. SendInv
    BY <1>11 DEF CountInv
  <2>2. PICK L : /\ Counted(L)
                 /\ cmd = "measure" => L \cup ToCount = Total
                 /\ cmd = "run" /\ told.by = "measure" => told.remote = StatsOf(L \cup ToCount)
    BY <2>1 DEF SendInv
  <2>3. Countable(L) /\ remote_stats = StatsOf(L) /\ \A x \in L : x.volume \notin todo
    BY <2>2 DEF Counted, Unreported
  <2>4. Sized(report)' = Sized(report) /\ Unreported(report)'
    BY <1>1, <1>10, <2>1 DEF Sized, SendInv, Unreported
  <2>5. CASE cmd = "run"
    <3>1. PICK M : M = L \cup items
      OBVIOUS
    <3>2. L \cap items = {}
      BY <1>1, <1>8, <2>2, <2>5 DEF Counted, Working
    <3>3. Countable(M) /\ StatsOf(M) = Merge(StatsOf(L), StatsOf(items))
      BY <1>7, <2>3, <3>1, <3>2, StatsMerge
    <3>4. remote_stats' = StatsOf(M)
      BY <1>1, <1>7, <2>3, <2>5, <3>3
    <3>5. \A x \in M : x.volume \notin todo
      BY <1>2, <1>8, <2>3, <3>1
    <3>6. Counted(M)'
      BY <1>9, <1>10, <3>3, <3>4, <3>5 DEF Counted
    <3>7. M \cup ToCount' = L \cup ToCount
      BY <1>6, <2>5, <3>1
    <3> QED
      BY <1>1, <2>1, <2>2, <2>4, <2>5, <3>6, <3>7 DEF SendInv
  <2>6. CASE cmd # "run"
    <3>1. remote_stats' = StatsOf(L) /\ L \cup ToCount' = L \cup ToCount
      BY <1>1, <1>6, <2>3, <2>6
    <3>2. Counted(L)'
      BY <1>9, <1>10, <2>3, <3>1 DEF Counted
    <3> QED
      BY <1>1, <1>3, <2>1, <2>2, <2>4, <2>6, <3>1, <3>2 DEF SendInv
  <2> QED
    BY <2>5, <2>6
<1> QED
  BY <1>1, <1>3, <1>11, CountKeep

(* At the end everything has been counted.                                 *)
LEMMA CountEnd ==
  ASSUME CountInv, pc = "syncs", todo_syncs = {}, told # None, Sending
  PROVE  /\ sent_stats = StatsOf(Sized(report))
         /\ cmd = "measure" => remote_stats = StatsOf(Total)
         /\ cmd = "run" /\ told.by = "measure" => remote_stats = told.remote
<1>1. SendInv
  BY DEF CountInv
<1>2. PICK L : /\ Counted(L)
               /\ cmd = "measure" => L \cup ToCount = Total
               /\ cmd = "run" /\ told.by = "measure" => told.remote = StatsOf(L \cup ToCount)
  BY <1>1 DEF SendInv
<1>3. ToCount = {}
  BY DEF ToCount, Inside, Before
<1>4. L \cup ToCount = L
  BY <1>3
<1> QED
  BY <1>1, <1>2, <1>4 DEF SendInv, Counted

LEMMA CountFinish ==
  ASSUME CountInv, FinishCommand \/ RefuseConfig, PlaceInv
  PROVE  CountInv'
<1> SUFFICES ASSUME told' # None
             PROVE  told'.by = "measure" => /\ (told.sent = StatsOf(Sized(told.said)))'
                                            /\ (told.remote = StatsOf(Total))'
  <2>1. pc' = "idle" /\ sent_stats' = NoStats /\ remote_stats' = NoStats
    BY DEF FinishCommand, RefuseConfig, Exit
  <2>2. ~Sending'
    BY <2>1 DEF Sending, Doing
  <2> QED
    BY <2>1, <2>2 DEF CountInv
<1>1. UNCHANGED <<setting, dir, archives>>
  BY DEF FinishCommand, RefuseConfig, Exit
<1>2. Total' = Total
  BY <1>1, TotalFrame
<1>3. told # None
  BY DEF FinishCommand, RefuseConfig
<1>4. ASSUME told' = told, ~Asking, told.by = "measure"
      PROVE  told'.sent = StatsOf(Sized(told'.said))
  BY <1>3, <1>4 DEF CountInv
<1>5. ASSUME told' = told, ~Telling, told.by = "measure"
      PROVE  told'.remote = StatsOf(Total')
  BY <1>2, <1>3, <1>5 DEF CountInv
<1>6. CASE FinishCommand /\ Foretells(cmd)
  <2>1. /\ pc = "syncs" /\ todo_syncs = {}
        /\ told'.by = cmd /\ told'.said = report /\ told'.sent = sent_stats
        /\ told'.remote = remote_stats
    BY <1>3, <1>6 DEF FinishCommand, Foretells
  <2>2. ASSUME cmd = "measure"
        PROVE  sent_stats = StatsOf(Sized(report)) /\ remote_stats = StatsOf(Total)
    <3>1. Sending
      BY <2>1, <2>2 DEF Sending, Doing
    <3> QED
      BY <1>3, <2>1, <2>2, <3>1, CountEnd
  <2>3. Sized(told.said)' = Sized(told'.said)
    BY DEF Sized
  <2> QED
    BY <1>2, <2>1, <2>2, <2>3
<1>7. CASE FinishCommand /\ ~Foretells(cmd)
  <2>1. told' = told /\ cmd # "run" /\ pc = "syncs"
    BY <1>3, <1>7 DEF FinishCommand
  <2>2. ~Asking /\ ~Telling
    BY <1>7, <2>1 DEF Asking, Telling, Doing, Foretells
  <2>3. Sized(told.said)' = Sized(told'.said)
    BY DEF Sized
  <2> QED
    BY <1>2, <1>4, <1>5, <2>1, <2>2, <2>3
<1>8. CASE RefuseConfig
  <2>1. pc = "load" /\ told' = told /\ ~Foretells(cmd)
    BY <1>3, <1>8 DEF RefuseConfig
  <2>2. ~Asking
    BY <2>1 DEF Asking, Doing, Foretells
  <2>3. Sized(told.said)' = Sized(told'.said)
    BY DEF Sized
  <2>4. CASE cmd # "run"
    <3>1. ~Telling
      BY <2>1, <2>4 DEF Telling, Doing, Foretells
    <3> QED
      BY <1>2, <1>4, <1>5, <2>1, <2>2, <2>3, <3>1
  <2>5. CASE cmd = "run"
    <3>1. SendInv
      BY <1>3, <2>1, <2>5 DEF CountInv, Sending, Doing
    <3>2. PICK L : Counted(L) /\ (told.by = "measure" => told.remote = StatsOf(L \cup ToCount))
      BY <2>5, <3>1 DEF SendInv
    <3>3. L = {} /\ ToCount = Total
      BY <2>1, <3>2 DEF Counted, Before, ToCount, Inside
    <3>4. L \cup ToCount = Total
      BY <3>3
    <3> QED
      BY <1>2, <1>4, <2>1, <2>2, <2>3, <3>2, <3>4
  <2> QED
    BY <2>4, <2>5
<1> QED
  BY <1>6, <1>7, <1>8

LEMMA CountFrame ==
  ASSUME CountInv, UNCHANGED <<setting, dir, archives, pc, cmd, loop, stats, report, told>>
  PROVE  CountInv'
<1> USE DEF loop, stats
<1>1. Total' = Total
  BY TotalFrame
<1>2. Ahead' = Ahead /\ Forecast' = Forecast
  BY PlanForFrame, ForecastFrame DEF Ahead
<1>3. Pending' = Pending
  BY <1>2 DEF Pending, Inside, Before
<1>4. HeldAhead' = HeldAhead /\ Sized(Pending)' = Sized(Pending)
  BY <1>3 DEF HeldAhead, HeldOf, Sized, Matches
<1>5. ToCount' = ToCount
  BY <1>1, <1>4 DEF ToCount, Inside, Before, Working
<1>6. \A c : Doing(c)' = Doing(c)
  BY DEF Doing
<1>7. Sending' = Sending /\ Asking' = Asking /\ Telling' = Telling
  BY <1>6 DEF Sending, Asking, Telling
<1>8. \A L : Unreported(L)' = Unreported(L)
  BY DEF Unreported, Working
<1>9. \A L : Counted(L)' = Counted(L)
  BY <1>8 DEF Counted, Working, Before
<1>10. Unreported(report)' = Unreported(report) /\ Sized(report)' = Sized(report)
  BY DEF Unreported, Working, Sized
<1>11. SendInv => SendInv'
  BY <1>1, <1>5, <1>9, <1>10 DEF SendInv
<1>12. Sized(told.said)' = Sized(told.said)
  BY DEF Sized
<1> QED
  BY <1>1, <1>7, <1>11, <1>12 DEF CountInv

LEMMA CountStep ==
  ConfigInv /\ TypeInv /\ VisitInv /\ PlaceInv /\ StepsInv /\ CountInv /\ [Next]_vars => CountInv'
<1> SUFFICES ASSUME ConfigInv, TypeInv, VisitInv, PlaceInv, StepsInv, CountInv, [Next]_vars
             PROVE  CountInv'
  OBVIOUS
<1>1. CASE RefuseSudo \/ Fail \/ \E v \in todo : BrokenVolume(v)
  BY <1>1 DEF RefuseSudo, Fail, BrokenVolume, Exit, CountInv
<1>2. CASE \E e \in setting.later : SnapCreate(e)
  BY <1>2 DEF SnapCreate, CountInv, stats
<1>3. CASE \E c \in setting.commands : Start(c)
  BY <1>3, CountStart
<1>4. CASE LoadConfig
  <2>1. /\ pc = "load" /\ pc' = "syncs" /\ todo_syncs' = Chosen
        /\ UNCHANGED <<setting, dir, archives, cmd, stats, report, told>>
    BY <1>4 DEF LoadConfig, Usable, Chosen
  <2>2. Total' = Total
    BY <2>1, TotalFrame
  <2>3. Chosen = {} => Total = {}
    BY DEF Total, Forecast, Sized
  <2>4. ToCount' = Total /\ Before
    BY <2>1, <2>2, <2>3 DEF ToCount, Inside, Before
  <2> QED
    BY <2>1, <2>4, CountBefore
<1>5. CASE \E s \in todo_syncs : NextSync(s)
  <2>1. /\ pc = "syncs" /\ pc' = "sync" /\ todo_syncs # {}
        /\ sent_stats' = NoStats /\ remote_stats' = NoStats
        /\ UNCHANGED <<setting, dir, archives, cmd, report, told>>
    BY <1>5 DEF NextSync
  <2>2. Total' = Total
    BY <2>1, TotalFrame
  <2>3. ToCount' = Total /\ Before
    BY <2>1, <2>2 DEF ToCount, Inside, Before
  <2> QED
    BY <2>1, <2>3, CountBefore DEF stats
<1>6. CASE InspectSource
  BY <1>6, CountInspect
<1>7. CASE \E v \in todo : SkipVolume(v) \/ RunVolume(v)
  BY <1>7, CountVolume
<1>8. CASE \E v \in todo : MeasureVolume(v)
  BY <1>8, CountMeasure
<1>9. ASSUME NEW v \in todo, DryrunVolume(v) \/ ShowVolume(v)
      PROVE  CountInv'
  <2>1. /\ pc = "volumes" /\ pc' = "volumes" /\ cmd \notin {"run", "measure"}
        /\ UNCHANGED <<setting, dir, archives, cmd, told>>
    BY <1>9 DEF DryrunVolume, ShowVolume, Enter
  <2>2. ~Sending /\ Total' = Total
    BY <2>1, TotalFrame DEF Sending, Doing
  <2> QED
    BY <2>1, <2>2, CountKeep
<1>10. CASE EnsureSudo \/ StartSend
  <2>1. /\ pc = "step" /\ pc' \in {"step", "send"}
        /\ UNCHANGED <<setting, dir, archives, cmd, loop, stats, report, told>>
    BY <1>10 DEF EnsureSudo, StartSend
  <2>2. Ahead' = Ahead /\ \A w : Matches(w)' = Matches(w)
    BY <2>1, PlanForFrame DEF Ahead, loop
  <2>3. Pending' = Pending
    BY <2>1, <2>2 DEF Pending, Inside, loop
  <2>4. HeldAhead' = HeldAhead /\ Sized(Pending)' = Sized(Pending)
    BY <2>1, <2>3 DEF HeldAhead, HeldOf, Sized, Matches, loop
  <2>5. ToCount' = ToCount /\ \A L : Unreported(L)' = Unreported(L)
    BY <2>1, <2>4 DEF ToCount, Inside, Working, Unreported, loop
  <2>6. \A L : Counted(L) /\ cmd = "run" => \A x \in L : x.volume # volume'
    BY <2>1 DEF Counted, Working, loop
  <2>7. Before' => Before
    BY <2>1 DEF Before, loop
  <2> QED
    BY <2>1, <2>5, <2>6, <2>7, CountSame
<1>11. CASE FinishSend
  BY <1>11, CountSend
<1>12. CASE FinishVolume
  BY <1>12, CountDone
<1>13. CASE FinishSync
  <2>1. /\ pc = "volumes" /\ pc' = "syncs" /\ todo = {}
        /\ UNCHANGED <<setting, dir, archives, cmd, loop, stats, report, told>>
    BY <1>13 DEF FinishSync
  <2>2. Pending = {}
    BY <1>13, PendingDone
  <2>3. ToCount = {}
    <3>1. HeldAhead = {} /\ Sized(Pending) = {}
      BY <2>1, <2>2 DEF HeldAhead, HeldOf, Sized
    <3> QED
      BY <2>1, <3>1 DEF ToCount, Inside, Working
  <2>4. todo_syncs' = {}
    BY <2>1 DEF VisitInv, loop
  <2>5. ToCount' = {} /\ ~Before' /\ ~Working'
    BY <2>1, <2>4 DEF ToCount, Inside, Before, Working
  <2>6. \A L : Unreported(L) => Unreported(L)'
    BY <2>1, <2>5 DEF Unreported, loop
  <2> QED
    BY <2>1, <2>3, <2>5, <2>6, CountSame
<1>14. CASE FinishCommand \/ RefuseConfig
  BY <1>14, CountFinish
<1>15. CASE Time \/ UNCHANGED vars
  BY <1>15, CountFrame DEF Time, vars
<1> QED
  BY <1>1, <1>2, <1>3, <1>4, <1>5, <1>6, <1>7, <1>8, <1>9, <1>10, <1>11, <1>12, <1>13, <1>14,
     <1>15
  DEF Next, Work

(* Everything that is known of a command and of what was foretold of it.   *)
DriverInv ==
  /\ ConfigInv /\ TypeInv /\ VisitInv /\ PlaceInv
  /\ LineInv /\ StepsInv /\ CountInv

LEMMA DriverInvariant == Spec => []DriverInv
<1>1. Init => DriverInv
  <2>1. Init => StepsInv
    BY DEF Init, StepsInv, Working
  <2> QED
    BY <2>1, ConfigInit, TypeInit, VisitInit, PlaceInit, LineInit, CountInit DEF DriverInv
<1>2. DriverInv /\ [Next]_vars => DriverInv'
  BY ConfigStep, TypeStep, VisitStep, PlaceStep, LineStep, StepsStep, CountStep DEF DriverInv
<1> QED
  BY <1>1, <1>2, PTL DEF Spec

(* At the end of a run all has been said that an ls or dryrun was told.    *)
LEMMA RunEnd ==
  ASSUME DriverInv, RunEndsWell
  PROVE  /\ Agrees(told.by, told.said, report)
         /\ told.by = "measure" => sent_stats = told.sent /\ remote_stats = told.remote
<1>1. /\ pc = "syncs" /\ todo_syncs = {} /\ cmd = "run" /\ told # None
  BY DEF RunEndsWell, FinishCommand
<1>2. Pending = {}
  BY <1>1 DEF Pending, Inside, Before
<1>3. Agrees(told.by, told.said, report \cup Pending)
  BY <1>1 DEF DriverInv, LineInv, Doing
<1>4. report \cup Pending = report
  BY <1>2
<1>5. ASSUME told.by = "measure"
      PROVE  sent_stats = told.sent /\ remote_stats = told.remote
  <2>1. Sending /\ ~Asking
    BY <1>1 DEF Sending, Asking, Doing
  <2>2. told.sent = StatsOf(Sized(told.said))
    BY <1>1, <1>5, <2>1 DEF DriverInv, CountInv
  <2>3. report = told.said
    BY <1>3, <1>4, <1>5 DEF Agrees
  <2>4. /\ sent_stats = StatsOf(Sized(report))
        /\ remote_stats = told.remote
    BY <1>1, <1>5, <2>1, CountEnd DEF DriverInv
  <2> QED
    BY <2>2, <2>3, <2>4
<1> QED
  BY <1>3, <1>4, <1>5

(* For all configurations, volumes, snapshots, sizes and orders of a hash  *)
(* map: as long as nothing else changes source or destination, a run       *)
(* prints the lines that dryrun has printed and, after --measure-send, the *)
(* same two lines of statistics, although run.rs adds up what is in the    *)
(* metadata files after the transfers and dryrun.rs adds what it would     *)
(* send to what is there before.                                           *)
THEOREM DryrunAlwaysForetells == Spec => DryrunForetells
<1>1. ASSUME DriverInv
      PROVE  RunEndsWell /\ told.by \in {"dryrun", "measure"} =>
               /\ report = told.said
               /\ told.by = "measure" => sent_stats = told.sent /\ remote_stats = told.remote
  BY <1>1, RunEnd DEF Agrees
<1> QED
  BY <1>1, DriverInvariant, PTL DEF DryrunForetells

(* The snapshots that ls calls local-only are the ones that the next run   *)
(* sends: print_snapshot_table and build_plan compare the same two lists,  *)
(* each in its own way.                                                    *)
THEOREM LsAlwaysForetells == Spec => LsForetells
<1>1. ASSUME DriverInv
      PROVE  RunEndsWell /\ told.by = "ls" =>
               {<<row.volume, row.snap>> : row \in report} =
                 {<<row.volume, row.snap>> : row \in {x \in told.said : x.state = "local-only"}}
  BY <1>1, RunEnd DEF Agrees, Pairs, LocalOnly
<1> QED
  BY <1>1, DriverInvariant, PTL DEF LsForetells

=============================================================================
