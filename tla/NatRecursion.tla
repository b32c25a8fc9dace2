---------------------------- MODULE NatRecursion ----------------------------
(***************************************************************************)
(* Induction, extrema and primitive recursion over the naturals, with sets *)
(* and functions in place of operator parameters, so that they can be      *)
(* cited for any set and any step function.                                *)
(***************************************************************************)
EXTENDS Integers, FiniteSets, FiniteSetsExt, TLAPS, WellFoundedInduction, FiniteSetTheorems

(* A set of naturals with 0 that is closed under successor is all of Nat.  *)
(* The induction the level-by-level arguments about bitmap trees rest on.  *)
LEMMA SetInduction ==
    ASSUME NEW S, 0 \in S, \A n \in Nat : n \in S => n + 1 \in S
    PROVE  Nat \subseteq S
<1> DEFINE T == {n \in Nat : n \notin S}
<1>1. SUFFICES ASSUME T # {} PROVE FALSE
  OBVIOUS
<1>2. \E n \in T : \A m \in T : ~ (m < n)
  <2>1. PICK n \in T : \A m \in T : ~ (<<m, n>> \in OpToRel(<, Nat))
    <3>1. T \subseteq Nat
      OBVIOUS
    <3> HIDE DEF T
    <3> QED BY <1>1, <3>1, NatLessThanWellFounded, WFMin
  <2>2. \A m \in T : ~ (m < n)
    BY <2>1 DEF OpToRel
  <2> QED BY <2>2
<1>3. PICK n \in T : \A m \in T : ~ (m < n)
  BY <1>2
<1>4. n # 0 /\ n - 1 \in Nat
  OBVIOUS
<1>5. n - 1 \in S
  BY <1>3, <1>4
<1>6. (n - 1) + 1 \in S
  BY <1>4, <1>5
<1> QED
  BY <1>4, <1>6


(* A nonempty set of naturals has a least element.                         *)
LEMMA LeastElement ==
    ASSUME NEW T, T \subseteq Nat, T # {}
    PROVE  \E n \in T : \A m \in T : n <= m
<1> DEFINE S == {n \in Nat : \A k \in 0 .. n : k \notin T}
<1>1. SUFFICES ASSUME \A n \in T : \E m \in T : m < n PROVE FALSE
  OBVIOUS
<1>2. 0 \in S
  BY <1>1
<1>3. ASSUME NEW n \in Nat, n \in S PROVE n + 1 \in S
  BY <1>1, <1>3
<1>4. Nat \subseteq S
  <2> HIDE DEF S
  <2> QED BY <1>2, <1>3, SetInduction
<1>5. PICK n \in T : TRUE
  OBVIOUS
<1>6. n \in 0 .. n /\ n \in S
  BY <1>4
<1> QED BY <1>5, <1>6

(* A finite nonempty set of naturals has a greatest element.               *)
LEMMA GreatestElement ==
    ASSUME NEW T, T \subseteq Nat, T # {}, IsFiniteSet(T)
    PROVE  \E n \in T : \A m \in T : m <= n
<1>1. PICK size \in Nat : ExistsSurjection(1 .. size, T)
  BY FS_NatSurjection
<1>2. PICK f \in [1 .. size -> T] : \A t \in T : \E i \in 1 .. size : f[i] = t
  BY <1>1 DEF ExistsSurjection, Surjection
<1> DEFINE S == {k \in Nat : k \in 1 .. size =>
                    \E i \in 1 .. k : \A j \in 1 .. k : f[j] <= f[i]}
<1>3. 0 \in S
  OBVIOUS
<1>4. ASSUME NEW k \in Nat, k \in S PROVE k + 1 \in S
  <2> SUFFICES ASSUME k + 1 \in 1 .. size
               PROVE  \E i \in 1 .. (k + 1) : \A j \in 1 .. (k + 1) : f[j] <= f[i]
    OBVIOUS
  <2>1. ASSUME NEW j \in 1 .. (k + 1) PROVE f[j] \in Nat
    <3>1. j \in 1 .. size
      BY <1>1
    <3>2. f[j] \in T
      BY <1>2, <3>1
    <3> QED BY <3>2
  <2>2. CASE k = 0
    BY <2>1, <2>2
  <2>3. CASE k # 0
    <3>1. PICK i \in 1 .. k : \A j \in 1 .. k : f[j] <= f[i]
      BY <1>4, <2>3
    <3>2. CASE f[i] <= f[k + 1]
      <4>1. \A j \in 1 .. (k + 1) : f[j] <= f[k + 1]
        BY <2>1, <3>1, <3>2
      <4> QED BY <4>1
    <3>3. CASE ~ (f[i] <= f[k + 1])
      <4>1. \A j \in 1 .. (k + 1) : f[j] <= f[i]
        BY <2>1, <3>1, <3>3
      <4> QED BY <4>1
    <3> QED BY <3>2, <3>3
  <2> QED BY <2>2, <2>3
<1>5. Nat \subseteq S
  <2> HIDE DEF S
  <2> QED BY <1>3, <1>4, SetInduction
<1>6. size \in S /\ size \in 1 .. size
  <2>1. PICK t \in T : TRUE
    OBVIOUS
  <2>2. PICK i \in 1 .. size : f[i] = t
    BY <1>2
  <2>3. size \in 1 .. size
    OBVIOUS
  <2> HIDE DEF S
  <2> QED BY <1>5, <2>3
<1>7. PICK i \in 1 .. size : \A j \in 1 .. size : f[j] <= f[i]
  BY <1>6
<1> QED BY <1>2, <1>7

(* Min and Max of the community modules choose these.                     *)
LEMMA MinFacts ==
    ASSUME NEW S, S \subseteq Nat, S # {}
    PROVE  Min(S) \in S /\ \A x \in S : Min(S) <= x
BY LeastElement DEF Min

LEMMA MaxFacts ==
    ASSUME NEW S, S \subseteq Nat, S # {}, IsFiniteSet(S)
    PROVE  Max(S) \in S /\ \A x \in S : x <= Max(S)
<1>1. \E n \in S : \A m \in S : n >= m
  BY GreatestElement
<1>2. Max(S) \in S /\ \A m \in S : Max(S) >= m
  BY <1>1 DEF Max
<1> QED BY <1>2

LEMMA MinOfTwo ==
    ASSUME NEW a \in Nat, NEW b \in Nat
    PROVE  Min({a, b}) = IF a <= b THEN a ELSE b
<1>1. {a, b} \subseteq Nat /\ {a, b} # {}
  OBVIOUS
<1>2. Min({a, b}) \in {a, b} /\ \A x \in {a, b} : Min({a, b}) <= x
  BY <1>1, MinFacts
<1> QED BY <1>2

(* f is the function with value t0 at 0 and f[n] = step[n - 1, f[n - 1]].  *)
IsStep(step, T) == step \in [Nat \X T -> T]

IsRecursion(f, T, t0, step) ==
    /\ f \in [Nat -> T]
    /\ f[0] = t0
    /\ \A n \in Nat : f[n + 1] = step[<<n, f[n]>>]
    /\ \A n \in Nat \ {0} : f[n] = step[<<n - 1, f[n - 1]>>]

(* A function with given value at 0 and given step exists: every recursive *)
(* definition of HffsQueue (level widths, offsets, the walk of pop_) has   *)
(* the value its equation says.                                            *)
LEMMA PrimitiveRecursion ==
    ASSUME NEW T, NEW t0, t0 \in T, NEW step, IsStep(step, T)
    PROVE  \E f : IsRecursion(f, T, t0, step)
<1> USE DEF IsStep
<1> DEFINE Approx(n, f) == /\ f \in [0 .. n -> T]
                           /\ f[0] = t0
                           /\ \A k \in 0 .. (n - 1) : f[k + 1] = step[<<k, f[k]>>]
           S == {n \in Nat : \E f \in [0 .. n -> T] : Approx(n, f)}
<1>1. Nat \subseteq S
  <2>1. 0 \in S
    <3> DEFINE f == [k \in 0 .. 0 |-> t0]
    <3>1. Approx(0, f)
      OBVIOUS
    <3> QED BY <3>1
  <2>2. ASSUME NEW n \in Nat, n \in S PROVE n + 1 \in S
    <3>1. PICK f \in [0 .. n -> T] : Approx(n, f)
      BY <2>2
    <3> DEFINE g == [k \in 0 .. (n + 1) |-> IF k = n + 1 THEN step[<<n, f[n]>>] ELSE f[k]]
    <3>2. g \in [0 .. (n + 1) -> T]
      BY <3>1
    <3>3. g[0] = t0
      BY <3>1
    <3>4. ASSUME NEW k \in 0 .. n PROVE g[k + 1] = step[<<k, g[k]>>]
      <4>1. CASE k = n
        <5>1. k + 1 \in 0 .. (n + 1) /\ k + 1 = n + 1 /\ k \in 0 .. (n + 1) /\ k # n + 1
          BY <4>1
        <5>2. g[k + 1] = step[<<n, f[n]>>] /\ g[k] = f[k]
          BY <5>1
        <5> QED BY <5>2, <4>1
      <4>2. CASE k \in 0 .. (n - 1)
        <5>1. f[k + 1] = step[<<k, f[k]>>]
          BY <3>1, <4>2
        <5>2. k + 1 \in 0 .. (n + 1) /\ k + 1 # n + 1 /\ k \in 0 .. (n + 1) /\ k # n + 1
          BY <4>2
        <5> QED BY <5>1, <5>2
      <4> QED BY <4>1, <4>2
    <3>5. (n + 1) - 1 = n
      OBVIOUS
    <3>6. Approx(n + 1, g)
      <4> HIDE DEF g
      <4> QED BY <3>2, <3>3, <3>4, <3>5
    <3> HIDE DEF Approx, g
    <3> QED BY <3>2, <3>6
  <2> HIDE DEF S
  <2> QED BY <2>1, <2>2, SetInduction
<1>2. ASSUME NEW n \in Nat, NEW m \in Nat, n <= m,
             NEW f, Approx(n, f), NEW g, Approx(m, g)
      PROVE  f[n] = g[n]
  <2> DEFINE U == {k \in Nat : k <= n => f[k] = g[k]}
  <2>1. 0 \in U
    BY <1>2
  <2>2. ASSUME NEW k \in Nat, k \in U PROVE k + 1 \in U
    <3>1. CASE k + 1 <= n
      <4>1. f[k] = g[k] /\ k \in 0 .. (n - 1) /\ k \in 0 .. (m - 1)
        BY <1>2, <2>2, <3>1
      <4>2. f[k + 1] = step[<<k, f[k]>>]
        BY <1>2, <4>1
      <4>3. g[k + 1] = step[<<k, g[k]>>]
        BY <1>2, <4>1
      <4> QED BY <4>1, <4>2, <4>3
    <3>2. CASE ~ (k + 1 <= n)
      BY <3>2
    <3> QED BY <3>1, <3>2
  <2>3. Nat \subseteq U
    <3> HIDE DEF U
    <3> QED BY <2>1, <2>2, SetInduction
  <2> QED BY <2>3
<1> DEFINE F == [n \in Nat |-> (CHOOSE f \in [0 .. n -> T] : Approx(n, f))[n]]
<1>3. ASSUME NEW n \in Nat
      PROVE  \E f \in [0 .. n -> T] : Approx(n, f) /\ F[n] = f[n]
  <2>1. \E f \in [0 .. n -> T] : Approx(n, f)
    BY <1>1
  <2> HIDE DEF Approx
  <2> QED BY <2>1
<1>4. F \in [Nat -> T]
  <2>1. ASSUME NEW n \in Nat PROVE F[n] \in T
     BY <1>3
  <2> QED BY <2>1
<1>5. F[0] = t0
  BY <1>3
<1>6. ASSUME NEW n \in Nat PROVE F[n + 1] = step[<<n, F[n]>>]
  <2>1. PICK f \in [0 .. n -> T] : Approx(n, f) /\ F[n] = f[n]
    BY <1>3
  <2>2. PICK g \in [0 .. (n + 1) -> T] : Approx(n + 1, g) /\ F[n + 1] = g[n + 1]
    <3> HIDE DEF F, Approx
    <3> QED BY <1>3
  <2>3. f[n] = g[n]
    <3> HIDE DEF F, Approx
    <3> QED BY <2>1, <2>2, <1>2
  <2>4. g[n + 1] = step[<<n, g[n]>>]
    BY <2>2
  <2> HIDE DEF F
  <2> QED BY <2>1, <2>2, <2>3, <2>4
<1> HIDE DEF F
<1>7. ASSUME NEW n \in Nat \ {0} PROVE F[n] = step[<<n - 1, F[n - 1]>>]
  <2>1. n - 1 \in Nat /\ (n - 1) + 1 = n
    OBVIOUS
  <2>2. F[(n - 1) + 1] = step[<<n - 1, F[n - 1]>>]
    BY <1>6, <2>1
  <2> QED BY <2>1, <2>2
<1>8. IsRecursion(F, T, t0, step)
  BY <1>4, <1>5, <1>6, <1>7 DEF IsRecursion
<1> QED BY <1>8
=============================================================================
