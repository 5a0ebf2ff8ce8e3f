------------------------------ MODULE Recursion ------------------------------
(***************************************************************************)
(* Lemmas about induction and recursion in a form in which they can be     *)
(* cited: about sets and functions instead of operators.  A recursion that *)
(* goes from 0 to n is given by its value at 0 and by a function Step from *)
(* the index and the value before to the value at the index; one over a    *)
(* finite set by its value at the empty set, a function F and the element  *)
(* pick[s] that F takes out of a set s.                                    *)
(***************************************************************************)
EXTENDS Integers, FiniteSetTheorems, WellFoundedInduction, TLAPS

(* A nonempty set of naturals has a least element.                         *)
LEMMA LeastElement ==
  ASSUME NEW S, S \subseteq Nat, S # {}
  PROVE  \E x \in S : \A y \in S : x <= y
<1> DEFINE R == {ss \in Nat \X Nat : ss[1] < ss[2]}
<1>1. IsWellFoundedOn(R, Nat)
  BY NatLessThanWellFounded DEF OpToRel
<1>2. \E x \in S : \A y \in S : ~ (<<y, x>> \in R)
  <2> HIDE DEF R
  <2> QED
    BY <1>1, WFMin
<1>3. PICK x \in S : \A y \in S : ~ (<<y, x>> \in R)
  BY <1>2
<1>4. \A y \in S : ~(y < x)
  BY <1>3
<1> QED
  BY <1>4

(* Induction from 0 to n.                                                  *)
LEMMA IntervalInduction ==
  ASSUME NEW n \in Nat, NEW S, 0 \in S,
         \A i \in 1 .. n : i - 1 \in S => i \in S
  PROVE  0 .. n \subseteq S
<1> DEFINE T == {i \in 0 .. n : i \notin S}
<1>1. SUFFICES ASSUME T # {}
               PROVE  FALSE
  OBVIOUS
<1>2. T \subseteq Nat
  OBVIOUS
<1>3. PICK x \in T : \A y \in T : x <= y
  <2> HIDE DEF T
  <2> QED
    BY <1>1, <1>2, LeastElement
<1>4. x \in 1 .. n /\ x \notin S
  BY <1>3
<1>5. x - 1 \in 0 .. n /\ ~(x <= x - 1)
  BY <1>4
<1>6. x - 1 \in S
  BY <1>3, <1>5
<1> QED
  BY <1>4, <1>6

-----------------------------------------------------------------------------

Steps(f, b, Step, n) ==
  /\ f[0] = b
  /\ \A i \in 1 .. n : f[i] = Step[<<i, f[i - 1]>>]

(* At most one function satisfies the recursion, ...                       *)
LEMMA StepsUnique ==
  ASSUME NEW b, NEW Step, NEW n \in Nat, NEW f, NEW g,
         Steps(f, b, Step, n), Steps(g, b, Step, n)
  PROVE  \A i \in 0 .. n : f[i] = g[i]
<1> DEFINE S == {i \in 0 .. n : f[i] = g[i]}
<1>1. 0 \in S
  BY DEF Steps
<1>2. ASSUME NEW i \in 1 .. n, i - 1 \in S
      PROVE  i \in S
  <2>1. f[i - 1] = g[i - 1] /\ i \in 0 .. n
    BY <1>2
  <2>2. f[i] = Step[<<i, f[i - 1]>>] /\ g[i] = Step[<<i, g[i - 1]>>]
    BY DEF Steps
  <2>3. f[i] = g[i]
    BY <2>1, <2>2, Zenon
  <2> QED
    BY <2>1, <2>3
<1>3. 0 .. n \subseteq S
  <2> HIDE DEF S
  <2> QED
    BY <1>1, <1>2, IntervalInduction
<1> QED
  BY <1>3

(* ... and there is one.                                                   *)
LEMMA StepsExist ==
  ASSUME NEW R, NEW b \in R, NEW n \in Nat, NEW Step \in [(1 .. n) \X R -> R]
  PROVE  \E f \in [0 .. n -> R] : Steps(f, b, Step, n)
<1> DEFINE S == {m \in 0 .. n : \E f \in [0 .. m -> R] : Steps(f, b, Step, m)}
<1>1. 0 \in S
  <2>1. [i \in 0 .. 0 |-> b] \in [0 .. 0 -> R]
    OBVIOUS
  <2>2. Steps([i \in 0 .. 0 |-> b], b, Step, 0)
    BY DEF Steps
  <2> QED
    BY <2>1, <2>2
<1>2. ASSUME NEW m \in 1 .. n, m - 1 \in S
      PROVE  m \in S
  <2>1. PICK f \in [0 .. m - 1 -> R] : Steps(f, b, Step, m - 1)
    BY <1>2
  <2> DEFINE g == [i \in 0 .. m |-> IF i = m THEN Step[<<m, f[m - 1]>>] ELSE f[i]]
  <2>2. f[m - 1] \in R
    OBVIOUS
  <2>3. Step[<<m, f[m - 1]>>] \in R
    BY <2>2
  <2>4. \A i \in 0 .. m : i # m => i \in 0 .. m - 1
    OBVIOUS
  <2>5. g \in [0 .. m -> R]
    BY <2>3, <2>4
  <2>6. g[0] = b
    BY <2>1 DEF Steps
  <2>7. ASSUME NEW i \in 1 .. m
        PROVE  g[i] = Step[<<i, g[i - 1]>>]
    <3>1. i - 1 \in 0 .. m /\ i - 1 # m
      OBVIOUS
    <3>2. g[i - 1] = f[i - 1]
      BY <3>1
    <3>3. g[i] = IF i = m THEN Step[<<m, f[m - 1]>>] ELSE f[i]
      OBVIOUS
    <3> HIDE DEF g
    <3>4. CASE i = m
      BY <3>2, <3>4, <3>3, Zenon
    <3>5. CASE i # m
      <4>1. i \in 1 .. m - 1
        BY <3>5
      <4>2. f[i] = Step[<<i, f[i - 1]>>]
        BY <2>1, <4>1 DEF Steps
      <4> QED
        BY <3>2, <3>3, <3>5, <4>2, Zenon
    <3> QED
      BY <3>4, <3>5
  <2>8. Steps(g, b, Step, m)
    <3> HIDE DEF g
    <3> QED
      BY <2>6, <2>7 DEF Steps
  <2>9. m \in 0 .. n
    OBVIOUS
  <2> QED
    <3> HIDE DEF g
    <3> QED
      BY <2>5, <2>8, <2>9
<1>3. n \in S
  <2> HIDE DEF S
  <2>1. 0 .. n \subseteq S
    BY <1>1, <1>2, IntervalInduction
  <2> QED
    BY <2>1
<1> QED
  BY <1>3

-----------------------------------------------------------------------------

Picks(pick, T) == \A s \in SUBSET T : s # {} => pick[s] \in s

(* Taking an element out of a finite set.                                  *)
LEMMA PickSmaller ==
  ASSUME NEW T, IsFiniteSet(T), NEW pick, Picks(pick, T), NEW s \in SUBSET T, s # {}
  PROVE  /\ pick[s] \in s /\ s \ {pick[s]} \in SUBSET T
         /\ Cardinality(s) \in Nat \ {0}
         /\ Cardinality(s \ {pick[s]}) = Cardinality(s) - 1
<1>1. pick[s] \in s
  BY DEF Picks
<1>2. IsFiniteSet(s)
  BY FS_Subset
<1>3. Cardinality(s) \in Nat /\ Cardinality(s) # 0
  BY <1>2, FS_CardinalityType, FS_EmptySet
<1>4. Cardinality(s \ {pick[s]}) = Cardinality(s) - 1
  BY <1>1, <1>2, FS_RemoveElement
<1> QED
  BY <1>1, <1>3, <1>4

(* Induction over the subsets of a finite set, element by element.         *)
LEMMA SubsetInduction ==
  ASSUME NEW T, IsFiniteSet(T), NEW pick, Picks(pick, T), NEW Q, {} \in Q,
         \A s \in SUBSET T : s # {} /\ s \ {pick[s]} \in Q => s \in Q
  PROVE  SUBSET T \subseteq Q
<1> DEFINE n == Cardinality(T)
           H == {i \in 0 .. n : \A s \in SUBSET T : Cardinality(s) = i => s \in Q}
<1>1. n \in Nat
  BY FS_CardinalityType
<1>2. \A s \in SUBSET T : IsFiniteSet(s) /\ Cardinality(s) \in 0 .. n
  <2>1. ASSUME NEW s \in SUBSET T
        PROVE  IsFiniteSet(s) /\ Cardinality(s) \in 0 .. n
    <3>1. IsFiniteSet(s) /\ Cardinality(s) <= Cardinality(T)
      BY FS_Subset
    <3>2. Cardinality(s) \in Nat
      BY <3>1, FS_CardinalityType
    <3> QED
      BY <1>1, <3>1, <3>2
  <2> QED
    BY <2>1
<1>3. 0 \in H
  <2>1. \A s \in SUBSET T : Cardinality(s) = 0 => s = {}
    BY <1>2, FS_EmptySet
  <2> QED
    BY <1>1, <2>1
<1>4. ASSUME NEW i \in 1 .. n, i - 1 \in H
      PROVE  i \in H
  <2>1. ASSUME NEW s \in SUBSET T, Cardinality(s) = i
        PROVE  s \in Q
    <3>1. s # {}
      BY <2>1, FS_EmptySet
    <3>2. s \ {pick[s]} \in SUBSET T /\ Cardinality(s \ {pick[s]}) = i - 1
      BY <2>1, <3>1, PickSmaller
    <3>3. s \ {pick[s]} \in Q
      BY <1>4, <3>2
    <3> QED
      BY <3>1, <3>3
  <2> QED
    BY <2>1
<1>5. 0 .. n \subseteq H
  <2> HIDE DEF n, H
  <2> QED
    BY <1>1, <1>3, <1>4, IntervalInduction
<1> QED
  BY <1>2, <1>5

IsFold(g, b, F, pick, T) ==
  \A s \in SUBSET T : g[s] = IF s = {} THEN b ELSE F[<<pick[s], g[s \ {pick[s]}]>>]

(* A function that satisfies the recursion exists.                         *)
LEMMA FoldExists ==
  ASSUME NEW T, IsFiniteSet(T), NEW pick, Picks(pick, T), NEW R, NEW b \in R,
         NEW F \in [T \X R -> R]
  PROVE  \E g \in [SUBSET T -> R] : IsFold(g, b, F, pick, T)
<1> DEFINE n == Cardinality(T)
           B(i) == {s \in SUBSET T : Cardinality(s) <= i}
           Eq(g, s) == g[s] = IF s = {} THEN b ELSE F[<<pick[s], g[s \ {pick[s]}]>>]
           H == {i \in 0 .. n : \E g \in [B(i) -> R] : \A s \in B(i) : Eq(g, s)}
<1>1. n \in Nat
  BY FS_CardinalityType
<1>2. \A s \in SUBSET T : Cardinality(s) \in Nat /\ Cardinality(s) <= n
                          /\ (Cardinality(s) = 0 <=> s = {})
  BY FS_Subset, FS_CardinalityType, FS_EmptySet
<1>3. 0 \in H
  <2> DEFINE g == [s \in B(0) |-> b]
  <2>1. \A s \in B(0) : s = {}
    BY <1>2
  <2>2. g \in [B(0) -> R] /\ \A s \in B(0) : Eq(g, s)
    BY <2>1
  <2>3. 0 \in 0 .. n
    BY <1>1
  <2> QED
    <3> HIDE DEF g, Eq, B
    <3> QED
      BY <2>2, <2>3
<1>4. ASSUME NEW i \in 1 .. n, i - 1 \in H
      PROVE  i \in H
  <2>1. PICK f \in [B(i - 1) -> R] : \A s \in B(i - 1) : Eq(f, s)
    BY <1>4
  <2> DEFINE g == [s \in B(i) |-> IF s \in B(i - 1) THEN f[s]
                                  ELSE F[<<pick[s], f[s \ {pick[s]}]>>]]
  <2>2. \A s \in SUBSET T : s # {} => /\ pick[s] \in T
                                      /\ (s \in B(i) => s \ {pick[s]} \in B(i - 1))
    <3>1. ASSUME NEW s \in SUBSET T, s # {}
          PROVE  pick[s] \in T /\ (s \in B(i) => s \ {pick[s]} \in B(i - 1))
      <4>1. /\ pick[s] \in s /\ s \ {pick[s]} \in SUBSET T
            /\ Cardinality(s) \in Nat
            /\ Cardinality(s \ {pick[s]}) = Cardinality(s) - 1
        BY <3>1, PickSmaller
      <4> QED
        BY <4>1
    <3> QED
      BY <3>1
  <2>3. \A s \in B(i) : s \notin B(i - 1) => s # {} /\ s \in SUBSET T
    BY <1>2
  <2>4. B(i - 1) \subseteq B(i)
    BY <1>2
  <2> HIDE DEF B
  <2>5. g \in [B(i) -> R]
    <3>1. ASSUME NEW s \in B(i)
          PROVE  g[s] \in R
      <4>1. CASE s \in B(i - 1)
        BY <2>1, <4>1
      <4>2. CASE s \notin B(i - 1)
        <5>1. pick[s] \in T /\ s \ {pick[s]} \in B(i - 1)
          BY <2>2, <2>3, <4>2
        <5> QED
          BY <4>2, <5>1
      <4> QED
        BY <4>1, <4>2
    <3> QED
      BY <3>1
  <2>6. ASSUME NEW s \in B(i)
        PROVE  Eq(g, s)
    <3>1. \A r \in B(i - 1) : g[r] = f[r]
      BY <2>4
    <3>2. s # {} /\ s \in SUBSET T => s \ {pick[s]} \in B(i - 1)
      BY <2>2
    <3>3. s \in SUBSET T
      BY DEF B
    <3>4. g[s] = IF s \in B(i - 1) THEN f[s] ELSE F[<<pick[s], f[s \ {pick[s]}]>>]
      OBVIOUS
    <3> HIDE DEF g
    <3>5. CASE s \in B(i - 1)
      <4>1. f[s] = IF s = {} THEN b ELSE F[<<pick[s], f[s \ {pick[s]}]>>]
        BY <2>1, <3>5
      <4>2. s # {} => g[s \ {pick[s]}] = f[s \ {pick[s]}]
        BY <3>1, <3>2, <3>3
      <4> QED
        BY <3>4, <3>5, <4>1, <4>2, Zenon
    <3>6. CASE s \notin B(i - 1)
      <4>1. s # {}
        BY <2>3, <3>6
      <4>2. g[s \ {pick[s]}] = f[s \ {pick[s]}]
        BY <3>1, <3>2, <3>3, <4>1
      <4> QED
        BY <3>4, <3>6, <4>1, <4>2, Zenon
    <3> QED
      BY <3>5, <3>6
  <2>7. i \in 0 .. n
    BY <1>1
  <2> QED
    <3> HIDE DEF g, Eq
    <3> QED
      BY <2>5, <2>6, <2>7
<1>5. n \in H
  <2> HIDE DEF n, H
  <2>1. 0 .. n \subseteq H
    BY <1>1, <1>3, <1>4, IntervalInduction
  <2> QED
    BY <1>1, <2>1
<1>6. B(n) = SUBSET T
  BY <1>2
<1>7. PICK g \in [B(n) -> R] : \A s \in B(n) : Eq(g, s)
  BY <1>5
<1> QED
  <2> HIDE DEF B
  <2> QED
    BY <1>6, <1>7 DEF IsFold

=============================================================================
