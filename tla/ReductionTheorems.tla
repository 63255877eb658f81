------------------------- MODULE ReductionTheorems --------------------------
(***************************************************************************)
(* What sums and filters return, preserve and bound.  They are functions   *)
(* defined by iteration, as the loops of the code are, so the module       *)
(* starts with what it takes to reason about those: induction over the     *)
(* natural numbers stated with sets, and the existence of such functions.  *)
(***************************************************************************)
EXTENDS Reductions, FiniteSets, FiniteSetTheorems, SequenceTheorems,
        WellFoundedInduction, TLAPS

(* A non-empty set of natural numbers has a least element: the intervals   *)
(* below its elements are finite sets, and these are well-founded.         *)
LEMMA LeastNat ==
    ASSUME NEW T, T \subseteq Nat, T # {}
    PROVE  \E x \in T : \A y \in T : x <= y
<1> DEFINE Below == {0 .. t : t \in T}
           R     == StrictSubsetOrdering(Nat)
           F     == FiniteSubsetsOf(Nat)
<1>1. IsWellFoundedOn(R, F)
  BY FS_StrictSubsetOrderingWellFounded
<1>2. Below \subseteq F
  <2>1. \A t \in T : IsFiniteSet(0 .. t)
    BY FS_Interval
  <2> QED BY <2>1 DEF FiniteSubsetsOf
<1>6. Below # {}
  OBVIOUS
<1>3. PICK X \in Below : \A Y \in Below : ~(<<Y, X>> \in R)
  <2> HIDE DEF Below, R, F
  <2> QED BY <1>1, <1>2, <1>6, WFMin
<1>4. PICK x \in T : X = 0 .. x
  OBVIOUS
<1>5. ASSUME NEW y \in T PROVE x <= y
  <2> SUFFICES ASSUME y < x PROVE FALSE
    OBVIOUS
  <2>1. 0 .. y \in Below /\ 0 .. y \subseteq 0 .. x /\ x \notin 0 .. y /\ x \in 0 .. x
    OBVIOUS
  <2>2. <<0 .. y, 0 .. x>> \in R
    <3>1. 0 .. y # 0 .. x /\ 0 .. y \in SUBSET Nat /\ 0 .. x \in SUBSET Nat
      BY <2>1
    <3> QED BY <3>1, <2>1 DEF StrictSubsetOrdering
  <2> HIDE DEF Below, R
  <2> QED BY <2>1, <2>2, <1>3, <1>4
<1> QED BY <1>5

LEMMA SetInduction ==
    ASSUME NEW S, S \subseteq Nat, 0 \in S, \A n \in Nat : n \in S => n + 1 \in S
    PROVE  S = Nat
<1> SUFFICES ASSUME S # Nat PROVE FALSE
  OBVIOUS
<1>1. PICK x \in Nat \ S : \A y \in Nat \ S : x <= y
  <2>1. Nat \ S # {} /\ Nat \ S \subseteq Nat
    OBVIOUS
  <2> QED BY <2>1, LeastNat
<1>2. x # 0 /\ x - 1 \in Nat
  OBVIOUS
<1>3. x - 1 \in S
  BY <1>1, <1>2
<1> QED BY <1>1, <1>2, <1>3

(* Induction along an interval that starts at 0. *)
LEMMA IntervalInduction ==
    ASSUME NEW n \in Nat, NEW S, 0 \in S,
           \A i \in 1 .. n : i - 1 \in S => i \in S
    PROVE  \A i \in 0 .. n : i \in S
<1> DEFINE T == {i \in Nat : i <= n => i \in S}
<1>1. 0 \in T
  OBVIOUS
<1>2. ASSUME NEW i \in Nat, i \in T PROVE i + 1 \in T
  <2> SUFFICES ASSUME i + 1 <= n PROVE i + 1 \in S
    OBVIOUS
  <2>1. i + 1 \in 1 .. n /\ (i + 1) - 1 = i /\ i \in S
    BY <1>2
  <2> QED BY <2>1
<1>3. T = Nat
  <2> HIDE DEF T
  <2>1. T \subseteq Nat
    BY DEF T
  <2> QED BY <1>1, <1>2, <2>1, SetInduction
<1> QED BY <1>3

(* f[i] is what the first i of the steps make of b. *)
Iterates(f, S, b, n, step) ==
    /\ f \in [0 .. n -> S]
    /\ f[0] = b
    /\ \A i \in 1 .. n : f[i - 1] \in S /\ f[i] = step[i][f[i - 1]]

(* Such a function exists: the loops of Ledger.tla are functions of this   *)
(* kind.                                                                   *)
LEMMA IterationExists ==
    ASSUME NEW S, NEW b, NEW n, NEW step,
           b \in S, n \in Nat, step \in [1 .. n -> [S -> S]]
    PROVE  \E f : Iterates(f, S, b, n, step)
<1> DEFINE Upto(m) == \E f \in [0 .. m -> S] :
                        f[0] = b /\ \A i \in 1 .. m : f[i] = step[i][f[i - 1]]
           T == {m \in 0 .. n : Upto(m)}
<1>1. 0 \in T
  <2> DEFINE f == [i \in 0 .. 0 |-> b]
  <2>1. f \in [0 .. 0 -> S] /\ f[0] = b /\ \A i \in 1 .. 0 : f[i] = step[i][f[i - 1]]
    OBVIOUS
  <2>2. Upto(0)
    BY <2>1
  <2> QED BY <2>2
<1>2. ASSUME NEW m \in 1 .. n, m - 1 \in T PROVE m \in T
  <2>1. PICK f \in [0 .. m - 1 -> S] :
           f[0] = b /\ \A i \in 1 .. m - 1 : f[i] = step[i][f[i - 1]]
    BY <1>2
  <2> DEFINE g == [i \in 0 .. m |-> IF i = m THEN step[m][f[m - 1]] ELSE f[i]]
  <2>2. f[m - 1] \in S /\ step[m] \in [S -> S]
    OBVIOUS
  <2>3. g \in [0 .. m -> S]
    BY <2>2
  <2>4. g[0] = b
    BY <2>1
  <2>5. ASSUME NEW i \in 1 .. m PROVE g[i] = step[i][g[i - 1]]
    BY <2>1
  <2>6. Upto(m)
    <3> HIDE DEF g
    <3> QED BY <2>3, <2>4, <2>5
  <2> QED
    <3> HIDE DEF Upto
    <3> QED BY <2>6
<1>3. \A i \in 0 .. n : i \in T
  <2> HIDE DEF T
  <2> QED BY <1>1, <1>2, IntervalInduction
<1>4. PICK f \in [0 .. n -> S] : f[0] = b /\ \A i \in 1 .. n : f[i] = step[i][f[i - 1]]
  <2>1. n \in T
    BY <1>3
  <2> QED BY <2>1
<1>5. ASSUME NEW i \in 1 .. n PROVE f[i - 1] \in S
  <2>1. i - 1 \in 0 .. n
    OBVIOUS
  <2> QED BY <2>1
<1> QED BY <1>4, <1>5 DEF Iterates

(* A function that takes the steps wherever its values are in S iterates   *)
(* them.                                                                   *)
LEMMA IterationTyped ==
    ASSUME NEW S, NEW b, NEW n, NEW step, NEW f,
           b \in S, n \in Nat, step \in [1 .. n -> [S -> S]],
           f = [i \in 0 .. n |-> f[i]],
           f[0] = b,
           \A i \in 1 .. n : f[i - 1] \in S => f[i] = step[i][f[i - 1]]
    PROVE  Iterates(f, S, b, n, step)
<1> DEFINE T == {i \in 0 .. n : f[i] \in S}
<1>1. 0 \in T
  OBVIOUS
<1>2. ASSUME NEW i \in 1 .. n, i - 1 \in T PROVE i \in T
  <2>1. step[i] \in [S -> S] /\ f[i - 1] \in S
    BY <1>2
  <2>2. f[i] = step[i][f[i - 1]]
    BY <2>1
  <2>3. step[i][f[i - 1]] \in S
    BY <2>1
  <2>4. f[i] \in S
    BY <2>2, <2>3
  <2> QED BY <2>4
<1>3. \A i \in 0 .. n : i \in T
  <2> HIDE DEF T
  <2> QED BY <1>1, <1>2, IntervalInduction
<1>4. \A i \in 0 .. n : f[i] \in S
  BY <1>3
<1>5. ASSUME NEW i \in 1 .. n PROVE f[i - 1] \in S /\ f[i] = step[i][f[i - 1]]
  <2>1. i - 1 \in 0 .. n
    OBVIOUS
  <2>2. f[i - 1] \in S
    BY <2>1, <1>4
  <2> QED BY <2>2
<1> QED BY <1>4, <1>5 DEF Iterates

-----------------------------------------------------------------------------
(* Sums. *)

(* SumSeq adds one element after the other. *)
LEMMA SumSeqDef ==
    ASSUME NEW s \in Seq(Int)
    PROVE  \E f \in [0 .. Len(s) -> Int] :
              /\ f[0] = 0
              /\ \A i \in 1 .. Len(s) : f[i] = f[i - 1] + s[i]
              /\ SumSeq(s) = f[Len(s)]
<1> DEFINE n == Len(s)
           Z == Int
           zero == 0
           F == CHOOSE g : g = [i \in 0 .. Len(s) |-> IF i = 0 THEN 0 ELSE g[i - 1] + s[i]]
           step == [i \in 1 .. n |-> [x \in Z |-> x + s[i]]]
<1>1. n \in Nat /\ zero \in Z /\ \A i \in 1 .. n : s[i] \in Int
  OBVIOUS
<1>2. step \in [1 .. n -> [Z -> Z]]
  BY <1>1
<1>3. PICK f : Iterates(f, Z, zero, n, step)
  <2> HIDE DEF step, n, F, Z, zero
  <2> QED BY <1>1, <1>2, IterationExists
<1>4. f = [i \in 0 .. n |-> IF i = 0 THEN 0 ELSE f[i - 1] + s[i]]
  <2>1. ASSUME NEW i \in 1 .. n PROVE f[i] = f[i - 1] + s[i]
    <3>1. f[i - 1] \in Z /\ f[i] = step[i][f[i - 1]]
      <4> HIDE DEF step, Z, zero, n
      <4> QED BY <1>3 DEF Iterates
    <3> QED BY <3>1, <1>1
  <2> QED BY <1>1, <1>3, <2>1 DEF Iterates
<1>5. F = [i \in 0 .. n |-> IF i = 0 THEN 0 ELSE F[i - 1] + s[i]]
  BY <1>4
<1>6. SumSeq(s) = F[n]
  BY DEF SumSeq
<1> HIDE DEF F
<1>7. F[0] = 0 /\ \A i \in 1 .. n : F[i] = F[i - 1] + s[i]
  BY <1>1, <1>5
<1>8. Iterates(F, Z, zero, n, step)
  <2>1. \A i \in 1 .. n : F[i - 1] \in Z => F[i] = step[i][F[i - 1]]
    BY <1>7
  <2>2. F = [i \in 0 .. n |-> F[i]] /\ F[0] = zero
    BY <1>5, <1>7
  <2> HIDE DEF step, n, Z, zero
  <2> QED BY <1>1, <1>2, <2>1, <2>2, IterationTyped
<1>9. F \in [0 .. n -> Int]
  BY <1>8 DEF Iterates
<1> QED BY <1>6, <1>7, <1>9

LEMMA SumSeqEmpty == SumSeq(<<>>) = 0
<1>1. <<>> \in Seq(Int) /\ Len(<<>>) = 0
  OBVIOUS
<1> QED BY <1>1, SumSeqDef

LEMMA SumSeqAppend ==
    ASSUME NEW s \in Seq(Int), NEW x \in Int
    PROVE  SumSeq(Append(s, x)) = SumSeq(s) + x
<1> DEFINE n == Len(s)
           t == Append(s, x)
<1>1. n \in Nat /\ t \in Seq(Int) /\ Len(t) = n + 1 /\ t[n + 1] = x
  OBVIOUS
<1>2. \A i \in 1 .. n : t[i] = s[i]
  OBVIOUS
<1>3. PICK f \in [0 .. n -> Int] :
         f[0] = 0 /\ (\A i \in 1 .. n : f[i] = f[i - 1] + s[i]) /\ SumSeq(s) = f[n]
  BY SumSeqDef
<1>4. PICK g \in [0 .. n + 1 -> Int] :
         g[0] = 0 /\ (\A i \in 1 .. n + 1 : g[i] = g[i - 1] + t[i]) /\ SumSeq(t) = g[n + 1]
  <2> HIDE DEF t, n
  <2> QED BY <1>1, SumSeqDef
<1> HIDE DEF t, n
<1>5. \A i \in 0 .. n : i \in {j \in 0 .. n : f[j] = g[j]}
  <2> DEFINE T == {j \in 0 .. n : f[j] = g[j]}
  <2>1. 0 \in T
    BY <1>1, <1>3, <1>4
  <2>2. \A i \in 1 .. n : i - 1 \in T => i \in T
    BY <1>1, <1>2, <1>3, <1>4
  <2> HIDE DEF T
  <2>3. \A i \in 0 .. n : i \in T
    BY <2>1, <2>2, <1>1, IntervalInduction
  <2> QED BY <2>3 DEF T
<1>6. g[n + 1] = g[n] + x
  BY <1>1, <1>4
<1> QED BY <1>1, <1>3, <1>4, <1>5, <1>6 DEF t, n

(* The sum of the sums is the sum, element by element. *)
LEMMA SumSeqPlus ==
    ASSUME NEW s \in Seq(Int), NEW t \in Seq(Int), NEW u \in Seq(Int),
           Len(t) = Len(s), Len(u) = Len(s),
           \A i \in 1 .. Len(s) : u[i] = s[i] + t[i]
    PROVE  SumSeq(u) = SumSeq(s) + SumSeq(t)
<1> DEFINE n == Len(s)
<1>1. n \in Nat /\ \A i \in 1 .. n : s[i] \in Int /\ t[i] \in Int
  OBVIOUS
<1>2. PICK f \in [0 .. n -> Int] :
         f[0] = 0 /\ (\A i \in 1 .. n : f[i] = f[i - 1] + s[i]) /\ SumSeq(s) = f[n]
  BY SumSeqDef
<1>3. PICK g \in [0 .. n -> Int] :
         g[0] = 0 /\ (\A i \in 1 .. n : g[i] = g[i - 1] + t[i]) /\ SumSeq(t) = g[n]
  BY SumSeqDef
<1>4. PICK h \in [0 .. n -> Int] :
         h[0] = 0 /\ (\A i \in 1 .. n : h[i] = h[i - 1] + u[i]) /\ SumSeq(u) = h[n]
  BY SumSeqDef
<1>5. \A i \in 1 .. n : u[i] = s[i] + t[i]
  OBVIOUS
<1> HIDE DEF n
<1>6. \A i \in 0 .. n : i \in {j \in 0 .. n : h[j] = f[j] + g[j]}
  <2> DEFINE T == {j \in 0 .. n : h[j] = f[j] + g[j]}
  <2>1. 0 \in T
    BY <1>1, <1>2, <1>3, <1>4
  <2>2. ASSUME NEW i \in 1 .. n, i - 1 \in T PROVE i \in T
    <3>1. i - 1 \in 0 .. n /\ i \in 0 .. n
      BY <1>1
    <3>2. f[i - 1] \in Int /\ g[i - 1] \in Int /\ s[i] \in Int /\ t[i] \in Int
      BY <3>1, <1>1
    <3>3. f[i] = f[i - 1] + s[i] /\ g[i] = g[i - 1] + t[i] /\ h[i] = h[i - 1] + (s[i] + t[i])
      BY <1>2, <1>3, <1>4, <1>5
    <3>4. h[i - 1] = f[i - 1] + g[i - 1]
      BY <2>2
    <3>5. h[i] = f[i] + g[i]
      BY <3>2, <3>3, <3>4
    <3> QED BY <3>1, <3>5
  <2> HIDE DEF T
  <2>3. \A i \in 0 .. n : i \in T
    BY <2>1, <2>2, <1>1, IntervalInduction
  <2> QED BY <2>3 DEF T
<1> QED BY <1>1, <1>2, <1>3, <1>4, <1>6

(* Changing one element changes the sum by as much. *)
LEMMA SumSeqChange ==
    ASSUME NEW s \in Seq(Int), NEW t \in Seq(Int), Len(t) = Len(s),
           NEW c \in 1 .. Len(s),
           \A i \in 1 .. Len(s) : i # c => s[i] = t[i]
    PROVE  SumSeq(s) = SumSeq(t) + (s[c] - t[c])
<1> DEFINE n == Len(s)
           d == [i \in 0 .. Len(s) |-> IF c <= i THEN s[c] - t[c] ELSE 0]
<1>1. n \in Nat /\ c \in 1 .. n /\ \A i \in 1 .. n : s[i] \in Int /\ t[i] \in Int
  OBVIOUS
<1>2. PICK f \in [0 .. n -> Int] :
         f[0] = 0 /\ (\A i \in 1 .. n : f[i] = f[i - 1] + s[i]) /\ SumSeq(s) = f[n]
  BY SumSeqDef
<1>3. PICK g \in [0 .. n -> Int] :
         g[0] = 0 /\ (\A i \in 1 .. n : g[i] = g[i - 1] + t[i]) /\ SumSeq(t) = g[n]
  BY SumSeqDef
<1>4. \A i \in 1 .. n : i # c => s[i] = t[i]
  OBVIOUS
<1> HIDE DEF n
<1>7. d = [i \in 0 .. n |-> IF c <= i THEN s[c] - t[c] ELSE 0]
  BY DEF n
<1> HIDE DEF d
<1>5. \A i \in 0 .. n : i \in {j \in 0 .. n : f[j] = g[j] + d[j]}
  <2> DEFINE T == {j \in 0 .. n : f[j] = g[j] + d[j]}
  <2>1. 0 \in T
    BY <1>1, <1>2, <1>3, <1>7
  <2>2. ASSUME NEW i \in 1 .. n, i - 1 \in T PROVE i \in T
    <3>1. i - 1 \in 0 .. n /\ i \in 0 .. n
      BY <1>1
    <3>2. f[i - 1] \in Int /\ g[i - 1] \in Int /\ s[i] \in Int /\ t[i] \in Int
      BY <3>1, <1>1
    <3>3. f[i] = f[i - 1] + s[i] /\ g[i] = g[i - 1] + t[i]
      BY <1>2, <1>3
    <3>4. f[i - 1] = g[i - 1] + d[i - 1]
      BY <2>2
    <3>5. d[i] = d[i - 1] + (s[i] - t[i])
      <4>0. d[i] = (IF c <= i THEN s[c] - t[c] ELSE 0) /\ d[i - 1] = (IF c <= i - 1 THEN s[c] - t[c] ELSE 0)
        BY <3>1, <1>7
      <4>1. CASE i = c
        BY <4>0, <4>1, <3>2, <1>1
      <4>2. CASE i # c
        <5>1. s[i] = t[i]
          BY <4>2, <1>4
        <5>2. c <= i <=> c <= i - 1
          BY <4>2, <1>1
        <5>3. s[c] - t[c] \in Int
          BY <1>1
        <5> QED BY <5>1, <5>2, <5>3, <3>2, <4>0
      <4> QED BY <4>1, <4>2
    <3>6. d[i - 1] \in Int /\ d[i] \in Int
      BY <1>1, <1>7, <3>1
    <3>7. f[i] = g[i] + d[i]
      <4>1. f[i] = (g[i - 1] + d[i - 1]) + s[i]
        BY <3>3, <3>4
      <4>2. g[i] + d[i] = (g[i - 1] + t[i]) + (d[i - 1] + (s[i] - t[i]))
        BY <3>3, <3>5
      <4>3. (g[i - 1] + d[i - 1]) + s[i] = (g[i - 1] + t[i]) + (d[i - 1] + (s[i] - t[i]))
        <5> DEFINE x == g[i - 1]
                   y == d[i - 1]
                   z == s[i]
                   v == t[i]
        <5>1. x \in Int /\ y \in Int /\ z \in Int /\ v \in Int
          BY <3>2, <3>6
        <5> HIDE DEF x, y, z, v
        <5>2. (x + y) + z = (x + v) + (y + (z - v))
          BY <5>1
        <5> QED BY <5>2 DEF x, y, z, v
      <4> QED BY <4>1, <4>2, <4>3, Zenon
    <3> QED BY <3>1, <3>7
  <2> HIDE DEF T
  <2>3. \A i \in 0 .. n : i \in T
    BY <2>1, <2>2, <1>1, IntervalInduction
  <2> QED BY <2>3 DEF T
<1>6. f[n] = g[n] + d[n]
  BY <1>1, <1>5
<1>8. d[n] = s[c] - t[c] /\ f[n] \in Int /\ g[n] \in Int
  BY <1>1, <1>7
<1> QED BY <1>1, <1>2, <1>3, <1>6, <1>8

LEMMA SumSeqType ==
    ASSUME NEW s \in Seq(Int)
    PROVE  SumSeq(s) \in Int
<1>1. Len(s) \in 0 .. Len(s)
  OBVIOUS
<1> QED BY <1>1, SumSeqDef

LEMMA SumSeqNat ==
    ASSUME NEW s \in Seq(Int), \A i \in 1 .. Len(s) : s[i] >= 0
    PROVE  SumSeq(s) \in Nat
<1> DEFINE n == Len(s)
<1>1. n \in Nat /\ \A i \in 1 .. n : s[i] \in Int /\ s[i] >= 0
  OBVIOUS
<1>2. PICK f \in [0 .. n -> Int] :
         f[0] = 0 /\ (\A i \in 1 .. n : f[i] = f[i - 1] + s[i]) /\ SumSeq(s) = f[n]
  BY SumSeqDef
<1> HIDE DEF n
<1>3. \A i \in 0 .. n : i \in {j \in 0 .. n : f[j] >= 0}
  <2> DEFINE T == {j \in 0 .. n : f[j] >= 0}
  <2>1. 0 \in T
    BY <1>1, <1>2
  <2>2. ASSUME NEW i \in 1 .. n, i - 1 \in T PROVE i \in T
    <3>1. i - 1 \in 0 .. n /\ i \in 0 .. n
      BY <1>1
    <3>2. f[i - 1] \in Int /\ s[i] \in Int /\ f[i] = f[i - 1] + s[i]
      BY <3>1, <1>1, <1>2
    <3>3. f[i] >= 0
      BY <3>2, <1>1, <2>2
    <3> QED BY <3>1, <3>3
  <2> HIDE DEF T
  <2>3. \A i \in 0 .. n : i \in T
    BY <2>1, <2>2, <1>1, IntervalInduction
  <2> QED BY <2>3 DEF T
<1> QED BY <1>1, <1>2, <1>3

(* Zeros add nothing. *)
LEMMA SumSeqZeros ==
    ASSUME NEW s \in Seq(Int), \A i \in 1 .. Len(s) : s[i] = 0
    PROVE  SumSeq(s) = 0
<1>1. SumSeq(s) = SumSeq(s) + SumSeq(s)
  BY SumSeqPlus
<1> QED BY <1>1, SumSeqType

LEMMA SumSeqSingle ==
    ASSUME NEW s \in Seq(Int), NEW c \in 1 .. Len(s), \A i \in 1 .. Len(s) : i # c => s[i] = 0
    PROVE  SumSeq(s) = s[c]
<1> DEFINE z == [i \in 1 .. Len(s) |-> 0]
<1>1. Len(s) \in Nat /\ s[c] \in Int
  OBVIOUS
<1>2. z \in Seq(Int) /\ Len(z) = Len(s) /\ \A i \in 1 .. Len(s) : z[i] = 0
  BY <1>1
<1> HIDE DEF z
<1>3. SumSeq(z) = 0
  BY <1>2, SumSeqZeros
<1>4. SumSeq(s) = SumSeq(z) + (s[c] - z[c])
  BY <1>2, SumSeqChange
<1> QED BY <1>1, <1>2, <1>3, <1>4

LEMMA SumSeqUpto ==
    ASSUME NEW n \in Nat, NEW f \in [1 .. n -> Int], NEW i \in 1 .. n
    PROVE  SumSeq([k \in 1 .. i |-> f[k]]) = SumSeq([k \in 1 .. i - 1 |-> f[k]]) + f[i]
<1> DEFINE s == [k \in 1 .. i - 1 |-> f[k]]
           t == [k \in 1 .. i |-> f[k]]
<1>1. i - 1 \in Nat /\ f[i] \in Int /\ \A k \in 1 .. i - 1 : f[k] \in Int
  OBVIOUS
<1>2. s \in Seq(Int) /\ Len(s) = i - 1 /\ \A k \in 1 .. i - 1 : s[k] = f[k]
  BY <1>1
<1>3. t = Append(s, f[i])
  <2> DEFINE u == Append(s, f[i])
  <2>1. u \in Seq(Int) /\ Len(u) = i /\ u[i] = f[i] /\ \A k \in 1 .. i - 1 : u[k] = f[k]
    <3> HIDE DEF s
    <3> QED BY <1>1, <1>2
  <2>2. \A k \in 1 .. i : u[k] = f[k]
    <3>1. \A k \in 1 .. i : k = i \/ k \in 1 .. i - 1
      OBVIOUS
    <3> HIDE DEF u
    <3> QED BY <2>1, <3>1
  <2> HIDE DEF u
  <2>3. u = [k \in 1 .. i |-> u[k]]
    BY <2>1
  <2>4. u = t
    BY <2>2, <2>3
  <2> QED BY <2>4 DEF u
<1>4. SumSeq(Append(s, f[i])) = SumSeq(s) + f[i]
  <2> HIDE DEF s
  <2> QED BY <1>1, <1>2, SumSeqAppend
<1> HIDE DEF s, t
<1>5. SumSeq(t) = SumSeq(s) + f[i]
  BY <1>3, <1>4
<1> QED BY <1>5 DEF s, t

(* A table of n rows and m columns has one sum, row by row or column by    *)
(* column.                                                                 *)
LEMMA SumSeqSwap ==
    ASSUME NEW n \in Nat, NEW m \in Nat, NEW M \in [1 .. n -> [1 .. m -> Int]]
    PROVE  SumSeq([k \in 1 .. n |-> SumSeq(M[k])])
              = SumSeq([j \in 1 .. m |-> SumSeq([k \in 1 .. n |-> M[k][j]])])
<1> DEFINE Rows(i) == SumSeq([k \in 1 .. i |-> SumSeq(M[k])])
           Column(j, i) == SumSeq([k \in 1 .. i |-> M[k][j]])
           Columns(i) == [j \in 1 .. m |-> Column(j, i)]
           S == {i \in 0 .. n : Rows(i) = SumSeq(Columns(i))}
<1>1. \A k \in 1 .. n : M[k] \in Seq(Int) /\ Len(M[k]) = m /\ SumSeq(M[k]) \in Int
  <2> SUFFICES ASSUME NEW k \in 1 .. n
               PROVE  M[k] \in Seq(Int) /\ Len(M[k]) = m /\ SumSeq(M[k]) \in Int
    OBVIOUS
  <2>1. M[k] \in [1 .. m -> Int]
    OBVIOUS
  <2>2. M[k] \in Seq(Int) /\ Len(M[k]) = m
    BY <2>1
  <2> QED BY <2>2, SumSeqType
<1>2. \A i \in 0 .. n : Columns(i) \in Seq(Int) /\ Len(Columns(i)) = m
  <2> SUFFICES ASSUME NEW i \in 0 .. n PROVE Columns(i) \in Seq(Int) /\ Len(Columns(i)) = m
    OBVIOUS
  <2>1. ASSUME NEW j \in 1 .. m PROVE Column(j, i) \in Int
    <3> DEFINE c == [k \in 1 .. i |-> M[k][j]]
    <3>1. \A k \in 1 .. i : M[k][j] \in Int
      <4>1. \A k \in 1 .. i : k \in 1 .. n
        OBVIOUS
      <4> QED BY <4>1
    <3>2. c \in Seq(Int)
      BY <3>1
    <3> HIDE DEF c
    <3>3. SumSeq(c) \in Int
      BY <3>2, SumSeqType
    <3> QED BY <3>3 DEF c
  <2> HIDE DEF Column
  <2> QED BY <2>1
<1>3. 0 \in S
  <2>1. Rows(0) = 0 /\ \A j \in 1 .. m : Column(j, 0) = 0
    <3>1. [k \in 1 .. 0 |-> SumSeq(M[k])] = <<>>
      OBVIOUS
    <3>2. \A j \in 1 .. m : [k \in 1 .. 0 |-> M[k][j]] = <<>>
      OBVIOUS
    <3> QED BY <3>1, <3>2, SumSeqEmpty
  <2> HIDE DEF Column, Rows
  <2>2. Columns(0) \in Seq(Int) /\ Len(Columns(0)) = m /\ \A j \in 1 .. m : Columns(0)[j] = 0
    BY <1>2, <2>1
  <2> HIDE DEF Columns
  <2>3. SumSeq(Columns(0)) = 0
    BY <2>2, SumSeqZeros
  <2> QED BY <2>1, <2>3
<1>4. ASSUME NEW i \in 1 .. n, i - 1 \in S PROVE i \in S
  <2>1. Rows(i) = Rows(i - 1) + SumSeq(M[i])
    <3> DEFINE f == [k \in 1 .. n |-> SumSeq(M[k])]
    <3>1. f \in [1 .. n -> Int] /\ \A k \in 1 .. n : f[k] = SumSeq(M[k])
      BY <1>1
    <3>2. SumSeq([k \in 1 .. i |-> f[k]]) = SumSeq([k \in 1 .. i - 1 |-> f[k]]) + f[i]
      <4> HIDE DEF f
      <4> QED BY <3>1, SumSeqUpto
    <3>3. /\ [k \in 1 .. i |-> f[k]] = [k \in 1 .. i |-> SumSeq(M[k])]
          /\ [k \in 1 .. i - 1 |-> f[k]] = [k \in 1 .. i - 1 |-> SumSeq(M[k])]
      OBVIOUS
    <3> QED BY <3>1, <3>2, <3>3
  <2>2. ASSUME NEW j \in 1 .. m PROVE Column(j, i) = Column(j, i - 1) + M[i][j]
    <3> DEFINE f == [k \in 1 .. n |-> M[k][j]]
    <3>1. f \in [1 .. n -> Int]
      OBVIOUS
    <3>2. SumSeq([k \in 1 .. i |-> f[k]]) = SumSeq([k \in 1 .. i - 1 |-> f[k]]) + f[i]
      <4> HIDE DEF f
      <4> QED BY <3>1, SumSeqUpto
    <3>3. /\ [k \in 1 .. i |-> f[k]] = [k \in 1 .. i |-> M[k][j]]
          /\ [k \in 1 .. i - 1 |-> f[k]] = [k \in 1 .. i - 1 |-> M[k][j]]
          /\ f[i] = M[i][j]
      OBVIOUS
    <3> QED BY <3>2, <3>3
  <2> HIDE DEF Rows, Column
  <2>3. i \in 0 .. n /\ i - 1 \in 0 .. n
    OBVIOUS
  <2>4. \A j \in 1 .. m : Columns(i)[j] = Columns(i - 1)[j] + M[i][j]
    BY <2>2
  <2> HIDE DEF Columns
  <2>5. SumSeq(Columns(i)) = SumSeq(Columns(i - 1)) + SumSeq(M[i])
    BY <1>1, <1>2, <2>3, <2>4, SumSeqPlus
  <2>6. Rows(i - 1) = SumSeq(Columns(i - 1))
    BY <1>4
  <2> QED BY <2>1, <2>3, <2>5, <2>6
<1>5. n \in S
  <2> HIDE DEF S
  <2>1. \A i \in 0 .. n : i \in S
    BY <1>3, <1>4, IntervalInduction
  <2> QED BY <2>1
<1> QED BY <1>5

-----------------------------------------------------------------------------
(* Filters. *)

(* f[i] are the elements that are in `keep` of the first i ones of s. *)
Filters(f, T, s, keep) ==
    /\ f \in [0 .. Len(s) -> Seq(T \cap keep)]
    /\ f[0] = <<>>
    /\ \A i \in 1 .. Len(s) :
          /\ f[i - 1] \in Seq(T \cap keep)
          /\ s[i] \in keep => f[i] = Append(f[i - 1], s[i])
          /\ s[i] \notin keep => f[i] = f[i - 1]

(* Subsequence keeps, in order, the elements that are in `keep`. *)
LEMMA SubsequenceDef ==
    ASSUME NEW T, NEW s \in Seq(T), NEW keep
    PROVE  \E f : Filters(f, T, s, keep) /\ Subsequence(s, keep) = f[Len(s)]
<1> DEFINE n == Len(s)
           Z == Seq(T \cap keep)
           Body(g, i) == IF i = 0 THEN <<>>
                         ELSE IF s[i] \in keep THEN Append(g[i - 1], s[i]) ELSE g[i - 1]
           F == CHOOSE g : g = [i \in 0 .. Len(s) |-> Body(g, i)]
           step == [i \in 1 .. n |-> [x \in Z |-> IF s[i] \in keep THEN Append(x, s[i]) ELSE x]]
<1>1. n \in Nat /\ <<>> \in Z /\ \A i \in 1 .. n : s[i] \in T
  OBVIOUS
<1>2. step \in [1 .. n -> [Z -> Z]]
  <2>1. ASSUME NEW i \in 1 .. n, NEW x \in Z, s[i] \in keep PROVE Append(x, s[i]) \in Z
    <3>1. s[i] \in T \cap keep
      BY <1>1, <2>1
    <3> QED BY <3>1
  <2> HIDE DEF Z, n
  <2> QED BY <2>1
<1>3. PICK f : Iterates(f, Z, <<>>, n, step)
  <2> HIDE DEF step, n, F, Z
  <2> QED BY <1>1, <1>2, IterationExists
<1>4. f = [i \in 0 .. n |-> Body(f, i)]
  <2>1. ASSUME NEW i \in 1 .. n PROVE f[i] = Body(f, i)
    <3>1. f[i - 1] \in Z /\ f[i] = step[i][f[i - 1]]
      <4> HIDE DEF step, Z, n
      <4> QED BY <1>3 DEF Iterates
    <3> HIDE DEF Z
    <3> QED BY <3>1, <1>1
  <2>2. f[0] = Body(f, 0) /\ f \in [0 .. n -> Z]
    BY <1>3 DEF Iterates
  <2>3. \A i \in 0 .. n : f[i] = Body(f, i)
    <3> HIDE DEF Body, Z
    <3> QED BY <1>1, <2>1, <2>2
  <2> HIDE DEF Body, Z, n
  <2> QED BY <2>2, <2>3
<1>5. F = [i \in 0 .. n |-> Body(F, i)]
  <2> HIDE DEF Body
  <2> QED BY <1>4
<1>6. Subsequence(s, keep) = F[n]
  BY DEF Subsequence
<1> HIDE DEF F
<1>7. /\ F[0] = <<>>
      /\ \A i \in 1 .. n : F[i] = IF s[i] \in keep THEN Append(F[i - 1], s[i]) ELSE F[i - 1]
  <2>1. \A i \in 0 .. n : F[i] = Body(F, i)
    <3> HIDE DEF Body, n
    <3> QED BY <1>5
  <2>2. 0 \in 0 .. n /\ \A i \in 1 .. n : i \in 0 .. n /\ i # 0
    BY <1>1
  <2> QED BY <2>1, <2>2
<1>8. Iterates(F, Z, <<>>, n, step)
  <2>1. \A i \in 1 .. n : F[i - 1] \in Z => F[i] = step[i][F[i - 1]]
    <3> HIDE DEF Z
    <3> QED BY <1>7
  <2>2. F = [i \in 0 .. n |-> F[i]] /\ F[0] = <<>>
    <3> HIDE DEF Body
    <3> QED BY <1>5, <1>7
  <2> HIDE DEF step, n, Z
  <2> QED BY <1>1, <1>2, <2>1, <2>2, IterationTyped
<1>9. F \in [0 .. n -> Z] /\ \A i \in 1 .. n : F[i - 1] \in Z
  BY <1>8 DEF Iterates
<1>10. Filters(F, T, s, keep)
  BY <1>7, <1>9 DEF Filters
<1> QED BY <1>6, <1>10

LEMMA SubsequenceType ==
    ASSUME NEW T, NEW s \in Seq(T), NEW keep
    PROVE  Subsequence(s, keep) \in Seq(T \cap keep) /\ Subsequence(s, keep) \in Seq(T)
<1> DEFINE n == Len(s)
           u == Subsequence(s, keep)
<1>1. u \in Seq(T \cap keep)
  <2>1. n \in 0 .. n
    OBVIOUS
  <2> QED BY <2>1, SubsequenceDef DEF Filters
<1>2. u \in Seq(T)
  <2> HIDE DEF u
  <2> QED BY <1>1
<1> QED BY <1>1, <1>2

(* A sequence without repetitions. *)
Distinct(s) == \A i, j \in 1 .. Len(s) : s[i] = s[j] => i = j

(* Appending an element that is new, and filtering, repeat nothing. *)
LEMMA DistinctAppend ==
    ASSUME NEW T, NEW s \in Seq(T), NEW x \in T, Distinct(s),
           \A i \in 1 .. Len(s) : s[i] # x
    PROVE  Distinct(Append(s, x))
BY DEF Distinct

LEMMA SubsequenceDistinct ==
    ASSUME NEW T, NEW s \in Seq(T), NEW keep, Distinct(s)
    PROVE  Distinct(Subsequence(s, keep))
<1> DEFINE n == Len(s)
           Z == T \cap keep
<1>1. n \in Nat /\ \A i \in 1 .. n : s[i] \in T
  OBVIOUS
<1>2. PICK f : Filters(f, T, s, keep) /\ Subsequence(s, keep) = f[n]
  BY SubsequenceDef
<1>3. \A i, j \in 1 .. n : s[i] = s[j] => i = j
  BY DEF Distinct
<1>8. /\ f[0] = <<>>
      /\ \A i \in 1 .. n :
            /\ f[i - 1] \in Seq(Z)
            /\ s[i] \in keep => f[i] = Append(f[i - 1], s[i])
            /\ s[i] \notin keep => f[i] = f[i - 1]
  BY <1>2 DEF Filters
<1> HIDE DEF n
<1> DEFINE From(q, i) == \A k \in 1 .. Len(q) : \E j \in 1 .. i : q[k] = s[j]
           G == {i \in 0 .. n : Distinct(f[i]) /\ From(f[i], i)}
<1>4. 0 \in G
  <2>1. Distinct(<<>>) /\ From(<<>>, 0)
    BY DEF Distinct
  <2> QED BY <2>1, <1>1, <1>8
<1>5. ASSUME NEW i \in 1 .. n, i - 1 \in G PROVE i \in G
  <2>1. i - 1 \in 0 .. n /\ i \in 0 .. n /\ Distinct(f[i - 1]) /\ From(f[i - 1], i - 1)
    BY <1>1, <1>5
  <2>2. f[i - 1] \in Seq(Z)
    BY <1>8
  <2>3. CASE s[i] \notin keep
    <3>1. f[i] = f[i - 1]
      BY <2>3, <1>8
    <3>2. From(f[i], i)
      BY <3>1, <2>1
    <3> HIDE DEF From
    <3> QED BY <3>1, <3>2, <2>1
  <2>4. CASE s[i] \in keep
    <3> DEFINE q == f[i - 1]
               u == Append(q, s[i])
    <3>1. f[i] = u
      BY <2>4, <1>8
    <3>2. s[i] \in Z /\ q \in Seq(Z)
      BY <2>2, <2>4, <1>1
    <3>3. Distinct(q) /\ From(q, i - 1)
      BY <2>1
    <3> HIDE DEF q
    <3>4. \A k \in 1 .. Len(q) : q[k] # s[i]
      <4>1. SUFFICES ASSUME NEW k \in 1 .. Len(q), q[k] = s[i] PROVE FALSE
        OBVIOUS
      <4>2. PICK j \in 1 .. i - 1 : q[k] = s[j]
        BY <3>3
      <4>3. j \in 1 .. n /\ j # i
        BY <1>1
      <4> QED BY <4>1, <4>2, <4>3, <1>3
    <3>5. Distinct(u)
      BY <3>2, <3>3, <3>4, DistinctAppend
    <3>6. From(u, i)
      BY <3>2, <3>3
    <3> HIDE DEF u, From
    <3> QED BY <3>1, <3>5, <3>6, <2>1
  <2> QED BY <2>3, <2>4
<1>6. \A i \in 0 .. n : i \in G
  <2> HIDE DEF G
  <2> QED BY <1>1, <1>4, <1>5, IntervalInduction
<1>7. Distinct(f[n])
  BY <1>1, <1>6
<1> QED BY <1>2, <1>7

(* What a filter leaves is in the order in which it was. *)
Ordered(s, R) == \A h, k \in 1 .. Len(s) : h < k => <<s[h], s[k]>> \in R

LEMMA SubsequenceOrdered ==
    ASSUME NEW T, NEW s \in Seq(T), NEW keep, NEW R, Ordered(s, R)
    PROVE  Ordered(Subsequence(s, keep), R)
<1> DEFINE n == Len(s)
           Z == T \cap keep
           From(q, i) == \A k \in 1 .. Len(q) : \E j \in 1 .. i : q[k] = s[j]
<1>1. n \in Nat /\ \A i \in 1 .. n : s[i] \in T
  OBVIOUS
<1>2. PICK f : Filters(f, T, s, keep) /\ Subsequence(s, keep) = f[n]
  BY SubsequenceDef
<1>3. /\ f[0] = <<>>
      /\ \A i \in 1 .. n :
            /\ f[i - 1] \in Seq(Z)
            /\ s[i] \in keep => f[i] = Append(f[i - 1], s[i])
            /\ s[i] \notin keep => f[i] = f[i - 1]
  BY <1>2 DEF Filters
<1>4. \A h, k \in 1 .. n : h < k => <<s[h], s[k]>> \in R
  BY DEF Ordered
<1> HIDE DEF n
<1> DEFINE G == {i \in 0 .. n : Ordered(f[i], R) /\ From(f[i], i)}
<1>5. 0 \in G
  <2>1. Ordered(<<>>, R) /\ From(<<>>, 0)
    BY DEF Ordered
  <2> QED BY <2>1, <1>1, <1>3
<1>6. ASSUME NEW i \in 1 .. n, i - 1 \in G PROVE i \in G
  <2>1. i - 1 \in 0 .. n /\ i \in 0 .. n /\ Ordered(f[i - 1], R) /\ From(f[i - 1], i - 1)
    BY <1>1, <1>6
  <2>2. CASE s[i] \notin keep
    <3>1. f[i] = f[i - 1]
      BY <2>2, <1>3
    <3>2. From(f[i], i)
      BY <3>1, <2>1
    <3> HIDE DEF From
    <3> QED BY <3>1, <3>2, <2>1
  <2>3. CASE s[i] \in keep
    <3> DEFINE q == f[i - 1]
               u == Append(q, s[i])
               m == Len(q)
    <3>1. f[i] = u
      BY <2>3, <1>3
    <3>2. s[i] \in Z /\ q \in Seq(Z)
      BY <2>3, <1>1, <1>3
    <3>3. Ordered(q, R) /\ From(q, i - 1)
      BY <2>1
    <3> HIDE DEF q
    <3>4. /\ m \in Nat /\ Len(u) = m + 1 /\ u[m + 1] = s[i]
          /\ \A k \in 1 .. m : u[k] = q[k]
      BY <3>2
    <3>5. From(u, i)
      BY <3>2, <3>3
    <3> HIDE DEF u
    <3>6. ASSUME NEW h \in 1 .. m + 1, NEW k \in 1 .. m + 1, h < k PROVE <<u[h], u[k]>> \in R
      <4>1. h \in 1 .. m /\ u[h] = q[h]
        BY <3>4, <3>6
      <4>2. CASE k = m + 1
        <5>1. PICK j \in 1 .. i - 1 : q[h] = s[j]
          BY <3>3, <4>1
        <5>2. j \in 1 .. n /\ j < i
          BY <1>1
        <5>3. <<s[j], s[i]>> \in R
          BY <1>4, <5>2
        <5> QED BY <3>4, <4>1, <4>2, <5>1, <5>3
      <4>3. CASE k # m + 1
        <5>1. k \in 1 .. m
          BY <3>4, <4>3
        <5>2. u[k] = q[k]
          BY <3>4, <5>1
        <5> QED BY <3>3, <3>6, <4>1, <5>1, <5>2 DEF Ordered
      <4> QED BY <4>2, <4>3
    <3>7. Ordered(u, R)
      BY <3>4, <3>6 DEF Ordered
    <3> HIDE DEF From
    <3> QED BY <3>1, <3>5, <3>7, <2>1
  <2> QED BY <2>2, <2>3
<1>7. \A i \in 0 .. n : i \in G
  <2> HIDE DEF G
  <2> QED BY <1>1, <1>5, <1>6, IntervalInduction
<1>8. Ordered(f[n], R)
  BY <1>1, <1>7
<1> QED BY <1>2, <1>8

(* And it is all there was of what is kept. *)
LEMMA SubsequenceCovers ==
    ASSUME NEW T, NEW s \in Seq(T), NEW keep, NEW j \in 1 .. Len(s), s[j] \in keep
    PROVE  \E k \in 1 .. Len(Subsequence(s, keep)) : Subsequence(s, keep)[k] = s[j]
<1> DEFINE n == Len(s)
           Z == T \cap keep
           Holds(q, i) == j <= i => \E k \in 1 .. Len(q) : q[k] = s[j]
<1>1. n \in Nat /\ \A i \in 1 .. n : s[i] \in T
  OBVIOUS
<1>2. PICK f : Filters(f, T, s, keep) /\ Subsequence(s, keep) = f[n]
  BY SubsequenceDef
<1>3. \A i \in 1 .. n :
         /\ f[i - 1] \in Seq(Z)
         /\ s[i] \in keep => f[i] = Append(f[i - 1], s[i])
         /\ s[i] \notin keep => f[i] = f[i - 1]
  BY <1>2 DEF Filters
<1> HIDE DEF n
<1> DEFINE G == {i \in 0 .. n : Holds(f[i], i)}
<1>4. 0 \in G
  BY <1>1
<1>5. ASSUME NEW i \in 1 .. n, i - 1 \in G PROVE i \in G
  <2>1. i \in 0 .. n /\ Holds(f[i - 1], i - 1)
    <3> HIDE DEF Holds
    <3>1. \A h \in G : Holds(f[h], h)
      OBVIOUS
    <3> HIDE DEF G
    <3> QED BY <1>1, <1>5, <3>1
  <2>2. CASE s[i] \notin keep
    <3>1. f[i] = f[i - 1] /\ i # j
      BY <2>2, <1>3
    <3>2. j <= i => j <= i - 1
      BY <3>1, <1>1
    <3>3. Holds(f[i], i)
      BY <2>1, <3>1, <3>2
    <3> HIDE DEF Holds
    <3> QED BY <2>1, <3>3
  <2>3. CASE s[i] \in keep
    <3> DEFINE q == f[i - 1]
               u == Append(q, s[i])
               m == Len(q)
    <3>1. f[i] = u /\ s[i] \in Z /\ q \in Seq(Z)
      BY <2>3, <1>1, <1>3
    <3>2. Holds(q, i - 1)
      BY <2>1
    <3>3. /\ m \in Nat /\ Len(u) = m + 1 /\ u[m + 1] = s[i] /\ m + 1 \in 1 .. m + 1
          /\ \A k \in 1 .. m : u[k] = q[k] /\ k \in 1 .. m + 1
      <4> HIDE DEF q
      <4> QED BY <3>1
    <3> HIDE DEF q, u, m
    <3>4. CASE j = i
      <4>1. Holds(u, i)
        BY <3>3, <3>4
      <4> HIDE DEF Holds
      <4> QED BY <2>1, <3>1, <4>1
    <3>5. CASE j # i
      <4>1. j <= i => j <= i - 1
        BY <3>5, <1>1
      <4>2. Holds(u, i)
        BY <3>2, <3>3, <4>1 DEF m
      <4> HIDE DEF Holds
      <4> QED BY <2>1, <3>1, <4>2
    <3> QED BY <3>4, <3>5
  <2> QED BY <2>2, <2>3
<1>6. \A i \in 0 .. n : i \in G
  <2> HIDE DEF G
  <2> QED BY <1>1, <1>4, <1>5, IntervalInduction
<1>7. Holds(f[n], n)
  BY <1>1, <1>6
<1>8. j <= n
  BY <1>1 DEF n
<1> QED BY <1>2, <1>7, <1>8

(* Where the elements of a filtered sequence stood: one after the other,   *)
(* and nowhere else is one that is kept.                                   *)
Picks(g, q, s, n, keep) ==
    /\ g \in [1 .. Len(q) -> 1 .. n]
    /\ \A h, k \in 1 .. Len(q) : h < k => g[h] < g[k]
    /\ \A k \in 1 .. Len(q) : q[k] = s[g[k]]
    /\ \A j \in 1 .. n : s[j] \in keep => \E k \in 1 .. Len(q) : g[k] = j

LEMMA PicksOneMore ==
    ASSUME NEW T, NEW s \in Seq(T), NEW keep, NEW i \in 1 .. Len(s), NEW q \in Seq(T),
           NEW g, Picks(g, q, s, i - 1, keep), s[i] \in keep
    PROVE  \E h : Picks(h, Append(q, s[i]), s, i, keep)
<1> DEFINE m == Len(q)
           u == Append(q, s[i])
           h == [k \in 1 .. m + 1 |-> IF k = m + 1 THEN i ELSE g[k]]
<1>1. /\ g \in [1 .. m -> 1 .. i - 1]
      /\ \A a, b \in 1 .. m : a < b => g[a] < g[b]
      /\ \A k \in 1 .. m : q[k] = s[g[k]]
      /\ \A j \in 1 .. i - 1 : s[j] \in keep => \E k \in 1 .. m : g[k] = j
  BY DEF Picks
<1>2. m \in Nat /\ Len(u) = m + 1 /\ u[m + 1] = s[i] /\ \A k \in 1 .. m : u[k] = q[k]
  OBVIOUS
<1>3. i \in Nat /\ i >= 1 /\ \A k \in 1 .. m : g[k] \in 1 .. i - 1
  BY <1>1
<1> HIDE DEF u, m
<1>4. h \in [1 .. m + 1 -> 1 .. i]
  BY <1>2, <1>3
<1>5. h[m + 1] = i /\ \A k \in 1 .. m : h[k] = g[k]
  BY <1>2
<1> HIDE DEF h
<1>6. ASSUME NEW a \in 1 .. m + 1, NEW b \in 1 .. m + 1, a < b PROVE h[a] < h[b]
  <2>1. a \in 1 .. m /\ h[a] = g[a] /\ g[a] \in 1 .. i - 1
    BY <1>2, <1>3, <1>5, <1>6
  <2>2. CASE b = m + 1
    BY <1>3, <1>5, <2>1, <2>2
  <2>3. CASE b # m + 1
    <3>1. b \in 1 .. m
      BY <1>2, <2>3
    <3>2. g[a] < g[b] /\ h[b] = g[b]
      BY <1>1, <1>5, <1>6, <2>1, <3>1
    <3> QED BY <2>1, <3>2
  <2> QED BY <2>2, <2>3
<1>7. ASSUME NEW k \in 1 .. m + 1 PROVE u[k] = s[h[k]]
  <2>1. k = m + 1 \/ k \in 1 .. m
    BY <1>2
  <2> QED BY <1>1, <1>2, <1>5, <2>1
<1>8. ASSUME NEW j \in 1 .. i, s[j] \in keep PROVE \E k \in 1 .. m + 1 : h[k] = j
  <2>1. CASE j = i
    <3>1. m + 1 \in 1 .. m + 1
      BY <1>2
    <3> QED BY <1>5, <2>1, <3>1
  <2>2. CASE j # i
    <3>1. j \in 1 .. i - 1
      BY <1>3, <2>2
    <3>2. PICK k \in 1 .. m : g[k] = j
      BY <1>1, <1>8, <3>1
    <3>3. k \in 1 .. m + 1
      BY <1>2
    <3> QED BY <1>5, <3>2, <3>3
  <2> QED BY <2>1, <2>2
<1>9. Picks(h, u, s, i, keep)
  BY <1>2, <1>4, <1>6, <1>7, <1>8 DEF Picks
<1> QED BY <1>9 DEF u

LEMMA PicksNoMore ==
    ASSUME NEW s, NEW keep, NEW i \in Nat \ {0}, NEW q, NEW g,
           Picks(g, q, s, i - 1, keep), s[i] \notin keep
    PROVE  Picks(g, q, s, i, keep)
<1>1. \A j \in 1 .. i : j = i \/ j \in 1 .. i - 1
  OBVIOUS
<1>2. g \in [1 .. Len(q) -> 1 .. i - 1] /\ 1 .. i - 1 \subseteq 1 .. i
  BY DEF Picks
<1>3. g \in [1 .. Len(q) -> 1 .. i]
  BY <1>2
<1>4. \A j \in 1 .. i : s[j] \in keep => \E k \in 1 .. Len(q) : g[k] = j
  BY <1>1 DEF Picks
<1> QED BY <1>3, <1>4 DEF Picks

LEMMA SubsequencePositions ==
    ASSUME NEW T, NEW s \in Seq(T), NEW keep
    PROVE  \E g : Picks(g, Subsequence(s, keep), s, Len(s), keep)
<1> DEFINE n == Len(s)
           Found(q, i) == \E g : Picks(g, q, s, i, keep)
<1>1. n \in Nat /\ \A i \in 1 .. n : i \in Nat \ {0}
  OBVIOUS
<1>2. PICK f : Filters(f, T, s, keep) /\ Subsequence(s, keep) = f[n]
  BY SubsequenceDef
<1>3. /\ f[0] = <<>>
      /\ \A i \in 1 .. n :
            /\ f[i - 1] \in Seq(T \cap keep)
            /\ s[i] \in keep => f[i] = Append(f[i - 1], s[i])
            /\ s[i] \notin keep => f[i] = f[i - 1]
  BY <1>2 DEF Filters
<1> DEFINE G == {i \in 0 .. n : Found(f[i], i)}
<1>4. 0 \in G
  <2> DEFINE e == [k \in 1 .. 0 |-> 0]
  <2>1. Picks(e, <<>>, s, 0, keep)
    BY DEF Picks
  <2> HIDE DEF e
  <2> QED BY <2>1, <1>1, <1>3
<1>5. ASSUME NEW i \in 1 .. n, i - 1 \in G PROVE i \in G
  <2> DEFINE q == f[i - 1]
  <2>1. PICK g : Picks(g, q, s, i - 1, keep)
    BY <1>5
  <2>2. q \in Seq(T) /\ i \in 0 .. n
    <3>1. q \in Seq(T \cap keep)
      BY <1>3
    <3> HIDE DEF q
    <3> QED BY <1>1, <3>1
  <2>3. Found(f[i], i)
    <3>1. CASE s[i] \in keep
      <4>1. f[i] = Append(q, s[i])
        BY <1>3, <3>1
      <4> HIDE DEF q
      <4> QED BY <4>1, <2>1, <2>2, <3>1, PicksOneMore DEF n
    <3>2. CASE s[i] \notin keep
      <4>1. f[i] = q
        BY <1>3, <3>2
      <4> HIDE DEF q
      <4>2. Picks(g, q, s, i, keep)
        BY <1>1, <2>1, <3>2, PicksNoMore
      <4> QED BY <4>1, <4>2
    <3> QED BY <3>1, <3>2
  <2> HIDE DEF Found
  <2> QED BY <2>2, <2>3
<1>6. \A i \in 0 .. n : i \in G
  <2> HIDE DEF G, n
  <2> QED BY <1>1, <1>4, <1>5, IntervalInduction
<1>7. Found(f[n], n)
  <2> HIDE DEF Found, n
  <2> QED BY <1>1, <1>6
<1> QED BY <1>2, <1>7

(* What a filter leaves of a sequence in which an element that is kept is  *)
(* followed by none that is not: its end.                                  *)
KeptEnd(q, s, n, keep) ==
    /\ Len(q) <= n
    /\ \A k \in 1 .. Len(q) : q[k] = s[n - Len(q) + k] /\ q[k] \in keep
    /\ \A j \in 1 .. n - Len(q) : s[j] \notin keep

LEMMA SubsequenceEnds ==
    ASSUME NEW T, NEW s \in Seq(T), NEW keep,
           \A i, j \in 1 .. Len(s) : i <= j /\ s[i] \in keep => s[j] \in keep
    PROVE  KeptEnd(Subsequence(s, keep), s, Len(s), keep)
<1> DEFINE n == Len(s)
           Z == T \cap keep
<1>1. n \in Nat /\ \A i \in 1 .. n : s[i] \in T
  OBVIOUS
<1>2. PICK f : Filters(f, T, s, keep) /\ Subsequence(s, keep) = f[n]
  BY SubsequenceDef
<1>3. /\ f[0] = <<>>
      /\ \A i \in 1 .. n :
            /\ f[i - 1] \in Seq(Z)
            /\ s[i] \in keep => f[i] = Append(f[i - 1], s[i])
            /\ s[i] \notin keep => f[i] = f[i - 1]
  BY <1>2 DEF Filters
<1>4. \A i, j \in 1 .. n : i <= j /\ s[i] \in keep => s[j] \in keep
  OBVIOUS
<1> HIDE DEF n
<1> DEFINE G == {i \in 0 .. n : KeptEnd(f[i], s, i, keep)}
<1>5. 0 \in G
  <2>1. KeptEnd(<<>>, s, 0, keep)
    BY DEF KeptEnd
  <2> QED BY <2>1, <1>1, <1>3
<1>6. ASSUME NEW i \in 1 .. n, i - 1 \in G PROVE i \in G
  <2> DEFINE q == f[i - 1]
  <2>1. i \in 0 .. n /\ q \in Seq(Z) /\ KeptEnd(q, s, i - 1, keep)
    <3>1. i \in 0 .. n
      BY <1>1
    <3>2. q \in Seq(Z)
      BY <1>3
    <3>3. KeptEnd(q, s, i - 1, keep)
      BY <1>6
    <3> HIDE DEF q, Z
    <3> QED BY <3>1, <3>2, <3>3
  <2>2. CASE s[i] \in keep
    <3>1. f[i] = Append(q, s[i]) /\ s[i] \in Z
      BY <2>2, <1>1, <1>3
    <3> HIDE DEF q
    <3>2. KeptEnd(Append(q, s[i]), s, i, keep)
      <4> DEFINE u == Append(q, s[i])
                 m == Len(q)
      <4>1. m \in Nat /\ Len(u) = m + 1 /\ u[m + 1] = s[i] /\ \A k \in 1 .. m : u[k] = q[k]
        BY <2>1, <3>1
      <4> HIDE DEF u, m
      <4>2. /\ m <= i - 1
            /\ \A k \in 1 .. m : q[k] = s[(i - 1) - m + k] /\ q[k] \in keep
            /\ \A j \in 1 .. (i - 1) - m : s[j] \notin keep
        BY <2>1 DEF KeptEnd, m
      <4>3. ASSUME NEW k \in 1 .. m + 1 PROVE u[k] = s[i - (m + 1) + k] /\ u[k] \in keep
        <5>1. CASE k = m + 1
          <6>1. i - (m + 1) + k = i
            BY <5>1, <4>1
          <6> QED BY <5>1, <6>1, <4>1, <2>2
        <5>2. CASE k # m + 1
          <6>1. k \in 1 .. m /\ i - (m + 1) + k = (i - 1) - m + k
            BY <5>2, <4>1
          <6> QED BY <6>1, <4>1, <4>2
        <5> QED BY <5>1, <5>2
      <4>4. i - (m + 1) = (i - 1) - m /\ m + 1 <= i
        BY <4>1, <4>2, <1>1
      <4>5. KeptEnd(u, s, i, keep)
        BY <4>1, <4>2, <4>3, <4>4 DEF KeptEnd
      <4> QED BY <4>5 DEF u
    <3> QED BY <2>1, <3>1, <3>2
  <2>3. CASE s[i] \notin keep
    <3>1. f[i] = q
      BY <2>3, <1>3
    <3> HIDE DEF q
    <3>2. Len(q) = 0
      <4> SUFFICES ASSUME Len(q) # 0 PROVE FALSE
        OBVIOUS
      <4> DEFINE m == Len(q)
      <4>1. m \in Nat \ {0} /\ m <= i - 1
        BY <2>1 DEF KeptEnd
      <4>2. m \in 1 .. m /\ (i - 1) - m + m = i - 1
        BY <4>1, <1>1
      <4>3. q[m] = s[i - 1] /\ q[m] \in keep
        BY <4>2, <2>1 DEF KeptEnd
      <4>4. i - 1 \in 1 .. n /\ i - 1 <= i
        BY <4>1, <1>1
      <4> QED BY <4>3, <4>4, <1>4, <2>3
    <3>3. KeptEnd(q, s, i, keep)
      <4>1. \A j \in 1 .. (i - 1) - Len(q) : s[j] \notin keep
        BY <2>1 DEF KeptEnd
      <4>2. \A j \in 1 .. i - Len(q) : j = i \/ j \in 1 .. (i - 1) - Len(q)
        BY <3>2
      <4> QED BY <3>2, <4>1, <4>2, <2>3 DEF KeptEnd
    <3> QED BY <2>1, <3>1, <3>3
  <2> QED BY <2>2, <2>3
<1>7. \A i \in 0 .. n : i \in G
  <2> HIDE DEF G
  <2> QED BY <1>1, <1>5, <1>6, IntervalInduction
<1>8. KeptEnd(f[n], s, n, keep)
  BY <1>1, <1>7
<1> QED BY <1>2, <1>8 DEF n

(* The elements of a sequence, weighed. *)
Weights(w, s) == [i \in 1 .. Len(s) |-> w[s[i]]]

LEMMA WeightsType ==
    ASSUME NEW T, NEW w \in [T -> Int], NEW s \in Seq(T)
    PROVE  /\ Weights(w, s) \in Seq(Int)
           /\ Len(Weights(w, s)) = Len(s)
           /\ \A i \in 1 .. Len(s) : Weights(w, s)[i] = w[s[i]]
BY DEF Weights

LEMMA WeightsAppend ==
    ASSUME NEW T, NEW w \in [T -> Int], NEW s \in Seq(T), NEW x \in T
    PROVE  SumSeq(Weights(w, Append(s, x))) = SumSeq(Weights(w, s)) + w[x]
<1>1. Append(s, x) \in Seq(T) /\ Len(Append(s, x)) = Len(s) + 1
  OBVIOUS
<1>2. Weights(w, s) \in Seq(Int) /\ Len(Weights(w, s)) = Len(s) /\ w[x] \in Int
  BY WeightsType
<1>3. Weights(w, Append(s, x)) = Append(Weights(w, s), w[x])
  BY DEF Weights
<1> QED BY <1>2, <1>3, SumSeqAppend

(* m are the weights of s, 0 for an element that is not in `keep`. *)
Masks(m, w, s, keep) ==
    /\ m \in Seq(Int)
    /\ Len(m) = Len(s)
    /\ \A i \in 1 .. Len(s) : m[i] = IF s[i] \in keep THEN w[s[i]] ELSE 0

(* The weight of a filtered sequence: nothing for what was dropped. *)
LEMMA SubsequenceWeight ==
    ASSUME NEW T, NEW w \in [T -> Int], NEW s \in Seq(T), NEW keep,
           NEW m, Masks(m, w, s, keep)
    PROVE  SumSeq(Weights(w, Subsequence(s, keep))) = SumSeq(m)
<1> DEFINE n == Len(s)
           Z == T \cap keep
           W(q) == SumSeq(Weights(w, q))
<1>1. n \in Nat /\ \A i \in 1 .. n : s[i] \in T
  OBVIOUS
<1>2. PICK f : Filters(f, T, s, keep) /\ Subsequence(s, keep) = f[n]
  BY SubsequenceDef
<1>3. PICK g \in [0 .. n -> Int] :
         g[0] = 0 /\ (\A i \in 1 .. n : g[i] = g[i - 1] + m[i]) /\ SumSeq(m) = g[n]
  BY SumSeqDef DEF Masks
<1>4. /\ f[0] = <<>>
      /\ \A i \in 1 .. n :
            /\ f[i - 1] \in Seq(Z)
            /\ s[i] \in keep => f[i] = Append(f[i - 1], s[i])
            /\ s[i] \notin keep => f[i] = f[i - 1]
  BY <1>2 DEF Filters
<1>5. \A i \in 1 .. n : m[i] = IF s[i] \in keep THEN w[s[i]] ELSE 0
  BY DEF Masks
<1> DEFINE G == {i \in 0 .. n : W(f[i]) = g[i]}
<1> HIDE DEF n
<1>6. 0 \in G
  <2>1. Weights(w, <<>>) = <<>>
    BY DEF Weights
  <2> QED BY <2>1, <1>1, <1>3, <1>4, SumSeqEmpty
<1>7. ASSUME NEW i \in 1 .. n, i - 1 \in G PROVE i \in G
  <2>1. i \in 0 .. n /\ W(f[i - 1]) = g[i - 1] /\ g[i] = g[i - 1] + m[i]
    BY <1>1, <1>3, <1>7
  <2>2. i - 1 \in 0 .. n
    BY <1>1
  <2>3. g[i - 1] \in Int
    BY <2>2
  <2>4. CASE s[i] \notin keep
    <3>1. f[i] = f[i - 1] /\ m[i] = 0
      BY <2>4, <1>4, <1>5
    <3>2. g[i] = g[i - 1]
      BY <3>1, <2>1, <2>3
    <3> HIDE DEF W
    <3> QED BY <3>1, <3>2, <2>1
  <2>5. CASE s[i] \in keep
    <3> DEFINE q == f[i - 1]
    <3>1. f[i] = Append(q, s[i]) /\ m[i] = w[s[i]]
      BY <2>5, <1>4, <1>5
    <3>2. q \in Seq(T) /\ s[i] \in T
      <4>1. q \in Seq(Z)
        BY <1>4
      <4> HIDE DEF q
      <4> QED BY <4>1, <1>1
    <3>3. W(Append(q, s[i])) = W(q) + w[s[i]]
      <4> DEFINE x == s[i]
      <4>1. q \in Seq(T) /\ x \in T
        BY <3>2
      <4> HIDE DEF q, x
      <4>2. SumSeq(Weights(w, Append(q, x))) = SumSeq(Weights(w, q)) + w[x]
        BY <4>1, WeightsAppend
      <4> QED BY <4>2 DEF x
    <3>4. W(f[i]) = g[i]
      <4> HIDE DEF W
      <4> QED BY <3>1, <3>3, <2>1
    <3> QED BY <3>4, <2>1
  <2> QED BY <2>4, <2>5
<1>8. \A i \in 0 .. n : i \in G
  <2> HIDE DEF G
  <2> QED BY <1>1, <1>6, <1>7, IntervalInduction
<1>9. W(f[n]) = g[n]
  BY <1>1, <1>8
<1> QED BY <1>2, <1>3, <1>9

(* Elements taken out of a sequence without repetitions: what they weigh,  *)
(* in any order and with others that weigh nothing, and what is left weigh *)
(* the whole.                                                              *)
LEMMA WeightsSplit ==
    ASSUME NEW T, NEW w \in [T -> Int], NEW p \in Seq(T), NEW q \in Seq(T),
           Distinct(p), Distinct(q),
           \A k \in 1 .. Len(q) : w[q[k]] = 0 \/ \E j \in 1 .. Len(p) : q[k] = p[j],
           NEW keep, \A j \in 1 .. Len(p) :
                        p[j] \in keep <=> \A k \in 1 .. Len(q) : q[k] # p[j]
    PROVE  SumSeq(Weights(w, q)) + SumSeq(Weights(w, Subsequence(p, keep)))
              = SumSeq(Weights(w, p))
<1> DEFINE n == Len(q)
           v == Weights(w, q)
           Left(k) == [j \in 1 .. Len(p) |->
                          IF \E i \in 1 .. k : q[i] = p[j] THEN 0 ELSE w[p[j]]]
<1>1. /\ n \in Nat
      /\ \A k \in 1 .. n : q[k] \in T
      /\ Len(p) \in Nat
      /\ \A j \in 1 .. Len(p) : p[j] \in T /\ w[p[j]] \in Int
  OBVIOUS
<1>2. v \in Seq(Int) /\ Len(v) = n /\ \A k \in 1 .. n : v[k] = w[q[k]]
  <2>1. /\ Weights(w, q) \in Seq(Int) /\ Len(Weights(w, q)) = Len(q)
        /\ \A k \in 1 .. Len(q) : Weights(w, q)[k] = w[q[k]]
    <3> HIDE DEF v, n
    <3> QED BY DEF Weights
  <2> QED BY <2>1
<1>3. PICK f \in [0 .. n -> Int] :
         f[0] = 0 /\ (\A k \in 1 .. n : f[k] = f[k - 1] + v[k]) /\ SumSeq(v) = f[n]
  <2> HIDE DEF v, n
  <2> QED BY <1>2, SumSeqDef
<1>4. \A k \in 0 .. n : Left(k) \in Seq(Int) /\ Len(Left(k)) = Len(p)
  BY <1>1
<1> HIDE DEF v
<1> DEFINE G == {k \in 0 .. n : f[k] + SumSeq(Left(k)) = SumSeq(Weights(w, p))}
<1>5. 0 \in G
  <2>1. Left(0) = Weights(w, p)
    BY DEF Weights
  <2>2. SumSeq(Weights(w, p)) \in Int
    BY WeightsType, SumSeqType
  <2> HIDE DEF Left
  <2>3. f[0] + SumSeq(Left(0)) = SumSeq(Weights(w, p))
    BY <2>1, <2>2, <1>3
  <2> QED BY <2>3, <1>1
<1>6. ASSUME NEW k \in 1 .. n, k - 1 \in G, \E j \in 1 .. Len(p) : q[k] = p[j]
      PROVE  k \in G
  <2>1. k - 1 \in 0 .. n /\ k \in 0 .. n
    BY <1>1
  <2>2. PICK c \in 1 .. Len(p) : q[k] = p[c]
    BY <1>6
  <2>3. \A i \in 1 .. k - 1 : q[i] # p[c]
    BY <2>2, <1>1 DEF Distinct
  <2>4. Left(k - 1)[c] = w[p[c]] /\ Left(k)[c] = 0
    BY <2>2, <2>3, <1>1
  <2>5. ASSUME NEW j \in 1 .. Len(p), j # c PROVE Left(k)[j] = Left(k - 1)[j]
    <3>1. q[k] # p[j]
      BY <2>2, <2>5 DEF Distinct
    <3>2. (\E i \in 1 .. k : q[i] = p[j]) <=> (\E i \in 1 .. k - 1 : q[i] = p[j])
      <4>1. ASSUME NEW i \in 1 .. k, q[i] = p[j] PROVE \E h \in 1 .. k - 1 : q[h] = p[j]
        <5>1. i # k
          BY <4>1, <3>1
        <5>2. i \in 1 .. k - 1
          BY <5>1, <1>1
        <5> QED BY <5>2, <4>1
      <4>2. 1 .. k - 1 \subseteq 1 .. k
        BY <1>1
      <4> QED BY <4>1, <4>2
    <3> QED BY <3>2
  <2>6. SumSeq(Left(k)) = SumSeq(Left(k - 1)) + (0 - w[p[c]])
    <3> DEFINE l == Left(k)
               r == Left(k - 1)
    <3>1. l \in Seq(Int) /\ r \in Seq(Int) /\ Len(l) = Len(p) /\ Len(r) = Len(p)
      BY <1>4, <2>1
    <3>2. l[c] = 0 /\ r[c] = w[p[c]] /\ \A j \in 1 .. Len(p) : j # c => l[j] = r[j]
      BY <2>4, <2>5
    <3> HIDE DEF l, r
    <3>3. SumSeq(l) = SumSeq(r) + (l[c] - r[c])
      BY <3>1, <3>2, SumSeqChange
    <3> QED BY <3>2, <3>3 DEF l, r
  <2>7. SumSeq(Left(k - 1)) \in Int
    BY <1>4, <2>1, SumSeqType
  <2>8. f[k] = f[k - 1] + w[p[c]] /\ f[k - 1] \in Int /\ w[p[c]] \in Int
    <3>1. f[k] = f[k - 1] + v[k] /\ f[k - 1] \in Int
      BY <1>3, <2>1
    <3>2. v[k] = w[q[k]]
      BY <1>2
    <3> QED BY <3>1, <3>2, <1>1, <2>2
  <2>9. f[k - 1] + SumSeq(Left(k - 1)) = SumSeq(Weights(w, p))
    BY <1>6
  <2> DEFINE x == f[k - 1]
             y == SumSeq(Left(k - 1))
             z == w[p[c]]
             l == SumSeq(Left(k))
  <2>10. f[k] + l = x + y
    <3>1. x \in Int /\ y \in Int /\ z \in Int /\ f[k] = x + z /\ l = y + (0 - z)
      BY <2>6, <2>7, <2>8
    <3> HIDE DEF x, y, z, l
    <3> QED BY <3>1
  <2> HIDE DEF Left
  <2>11. f[k] + SumSeq(Left(k)) = SumSeq(Weights(w, p))
    BY <2>9, <2>10
  <2> QED BY <2>11, <2>1
<1>7. ASSUME NEW k \in 1 .. n, k - 1 \in G, ~\E j \in 1 .. Len(p) : q[k] = p[j]
      PROVE  k \in G
  <2>1. k - 1 \in 0 .. n /\ k \in 0 .. n
    BY <1>1
  <2>2. \A j \in 1 .. Len(p) :
          (\E i \in 1 .. k : q[i] = p[j]) <=> (\E i \in 1 .. k - 1 : q[i] = p[j])
    <3> TAKE j \in 1 .. Len(p)
    <3>1. \A i \in 1 .. k : i = k \/ i \in 1 .. k - 1
      BY <1>1
    <3>2. \A i \in 1 .. k - 1 : i \in 1 .. k
      BY <1>1
    <3> QED BY <1>7, <3>1, <3>2
  <2>3. Left(k) = Left(k - 1)
    BY <2>2
  <2>4. f[k] = f[k - 1] + v[k] /\ f[k - 1] \in Int /\ v[k] = 0
    BY <1>2, <1>3, <1>7, <2>1
  <2>5. f[k - 1] + SumSeq(Left(k - 1)) = SumSeq(Weights(w, p))
    BY <1>7
  <2> HIDE DEF Left
  <2>6. f[k] + SumSeq(Left(k)) = SumSeq(Weights(w, p))
    BY <2>3, <2>4, <2>5
  <2> QED BY <2>1, <2>6
<1>8. \A k \in 0 .. n : k \in G
  <2>1. \A k \in 1 .. n : k - 1 \in G => k \in G
    BY <1>6, <1>7
  <2> HIDE DEF G, n
  <2> QED BY <1>1, <1>5, <2>1, IntervalInduction
<1>9. SumSeq(Weights(w, Subsequence(p, keep))) = SumSeq(Left(n))
  <2> DEFINE m == Left(n)
  <2>1. m \in Seq(Int) /\ Len(m) = Len(p)
    BY <1>1, <1>4
  <2>2. \A j \in 1 .. Len(p) : m[j] = IF p[j] \in keep THEN w[p[j]] ELSE 0
    OBVIOUS
  <2>3. Masks(m, w, p, keep)
    <3> HIDE DEF m
    <3> QED BY <2>1, <2>2 DEF Masks
  <2> HIDE DEF m
  <2>4. SumSeq(Weights(w, Subsequence(p, keep))) = SumSeq(m)
    BY <2>3, SubsequenceWeight
  <2> QED BY <2>4 DEF m
<1> HIDE DEF Left
<1>10. f[n] + SumSeq(Left(n)) = SumSeq(Weights(w, p))
  BY <1>1, <1>8
<1> QED BY <1>3, <1>9, <1>10 DEF v
=============================================================================
