-------------------------- MODULE HffsQueueProofs --------------------------
(***************************************************************************)
(* What HffsQueue computes, for every bitmap width, number of buckets and  *)
(* set of weights: the layout, the bitmap tree and the refinement of       *)
(* BucketQueue.                                                            *)
(***************************************************************************)
EXTENDS HffsQueue, NatRecursion

-----------------------------------------------------------------------------
(* The recursive definitions have the values their equations say.          *)

(* The number of bitmaps of each level, as the loop of init() grows it.    *)
LEMMA LevelWidthFacts ==
    /\ LevelWidth \in [Nat -> Nat]
    /\ LevelWidth[0] = 1
    /\ \A n \in Nat : LevelWidth[n + 1] = WordBits * LevelWidth[n]
<1> USE WordBitsAssumption
<1> DEFINE step == [p \in Nat \X Nat |-> WordBits * p[2]]
<1>1. IsStep(step, Nat) /\ 1 \in Nat
  BY DEF IsStep
<1>2. \A n \in Nat, t \in Nat : step[<<n, t>>] = WordBits * t
  OBVIOUS
<1> HIDE DEF step
<1>3. PICK f : IsRecursion(f, Nat, 1, step)
  BY <1>1, PrimitiveRecursion
<1>4. f \in [Nat -> Nat] /\ f[0] = 1
  BY <1>3 DEF IsRecursion
<1>5. ASSUME NEW n \in Nat, n # 0 PROVE f[n] = WordBits * f[n - 1]
  <2>1. n - 1 \in Nat /\ n \in Nat \ {0} /\ f[n - 1] \in Nat
    BY <1>4, <1>5
  <2>2. f[n] = step[<<n - 1, f[n - 1]>>]
    BY <1>3, <2>1 DEF IsRecursion
  <2> QED BY <1>2, <2>1, <2>2
<1>6. f = [n \in Nat |-> IF n = 0 THEN 1 ELSE WordBits * f[n - 1]]
  BY <1>4, <1>5
<1>7. LevelWidth = [n \in Nat |-> IF n = 0 THEN 1 ELSE WordBits * LevelWidth[n - 1]]
  BY <1>6 DEF LevelWidth
<1>8. LevelWidth[0] = 1
  BY <1>7
<1>9. ASSUME NEW n \in Nat PROVE LevelWidth[n + 1] = WordBits * LevelWidth[n]
  <2>1. n + 1 \in Nat /\ n + 1 # 0 /\ (n + 1) - 1 = n
    OBVIOUS
  <2> QED BY <1>7, <2>1
<1>10. LevelWidth \in [Nat -> Nat]
  <2> DEFINE S == {n \in Nat : LevelWidth[n] \in Nat}
  <2>1. 0 \in S /\ \A n \in Nat : n \in S => n + 1 \in S
    BY <1>1, <1>8, <1>9
  <2>2. Nat \subseteq S
    <3> HIDE DEF S
    <3> QED BY <2>1, SetInduction
  <2> QED BY <1>7, <2>2
<1> QED
  BY <1>8, <1>9, <1>10

(* Where each level starts in the flat array.                              *)
LEMMA LevelOffsetFacts ==
    /\ level_offsets \in [Nat -> Nat]
    /\ level_offsets[0] = 0
    /\ \A n \in Nat : level_offsets[n + 1] = level_offsets[n] + LevelWidth[n]
<1> DEFINE step == [p \in Nat \X Nat |-> p[2] + LevelWidth[p[1]]]
<1>1. IsStep(step, Nat) /\ 0 \in Nat
  BY LevelWidthFacts DEF IsStep
<1>2. \A n \in Nat, t \in Nat : step[<<n, t>>] = t + LevelWidth[n]
  OBVIOUS
<1> HIDE DEF step
<1>3. PICK f : IsRecursion(f, Nat, 0, step)
  BY <1>1, PrimitiveRecursion
<1>4. f \in [Nat -> Nat] /\ f[0] = 0
  BY <1>3 DEF IsRecursion
<1>5. ASSUME NEW n \in Nat, n # 0 PROVE f[n] = f[n - 1] + LevelWidth[n - 1]
  <2>1. n - 1 \in Nat /\ n \in Nat \ {0} /\ f[n - 1] \in Nat
    BY <1>4, <1>5
  <2>2. f[n] = step[<<n - 1, f[n - 1]>>]
    BY <1>3, <2>1 DEF IsRecursion
  <2> QED BY <1>2, <2>1, <2>2
<1>6. f = [n \in Nat |-> IF n = 0 THEN 0 ELSE f[n - 1] + LevelWidth[n - 1]]
  BY <1>4, <1>5
<1>7. level_offsets = [n \in Nat |-> IF n = 0 THEN 0 ELSE level_offsets[n - 1] + LevelWidth[n - 1]]
  BY <1>6 DEF level_offsets
<1>8. level_offsets[0] = 0
  BY <1>7
<1>9. ASSUME NEW n \in Nat PROVE level_offsets[n + 1] = level_offsets[n] + LevelWidth[n]
  <2>1. n + 1 \in Nat /\ n + 1 # 0 /\ (n + 1) - 1 = n
    OBVIOUS
  <2> QED BY <1>7, <2>1
<1>10. level_offsets \in [Nat -> Nat]
  <2> DEFINE S == {n \in Nat : level_offsets[n] \in Nat}
  <2>1. 0 \in S /\ \A n \in Nat : n \in S => n + 1 \in S
    BY LevelWidthFacts, <1>1, <1>8, <1>9
  <2>2. Nat \subseteq S
    <3> HIDE DEF S
    <3> QED BY <2>1, SetInduction
  <2> QED BY <1>7, <2>2
<1> QED
  BY <1>8, <1>9, <1>10

(* The nodes above a bucket, as the loop of push divides its index.        *)
LEMMA AboveFacts ==
    ASSUME NEW b \in Nat
    PROVE
    /\ Above(b) \in [Nat -> Nat]
    /\ Above(b)[0] = b
    /\ \A n \in Nat : Above(b)[n + 1] = Above(b)[n] \div WordBits
<1> USE WordBitsAssumption
<1> DEFINE step == [p \in Nat \X Nat |-> p[2] \div WordBits]
<1>1. IsStep(step, Nat) /\ b \in Nat
  BY DEF IsStep
<1>2. \A n \in Nat, t \in Nat : step[<<n, t>>] = t \div WordBits
  OBVIOUS
<1> HIDE DEF step
<1>3. PICK f : IsRecursion(f, Nat, b, step)
  BY <1>1, PrimitiveRecursion
<1>4. f \in [Nat -> Nat] /\ f[0] = b
  BY <1>3 DEF IsRecursion
<1>5. ASSUME NEW n \in Nat, n # 0 PROVE f[n] = f[n - 1] \div WordBits
  <2>1. n - 1 \in Nat /\ n \in Nat \ {0} /\ f[n - 1] \in Nat
    BY <1>4, <1>5
  <2>2. f[n] = step[<<n - 1, f[n - 1]>>]
    BY <1>3, <2>1 DEF IsRecursion
  <2> QED BY <1>2, <2>1, <2>2
<1>6. f = [n \in Nat |-> IF n = 0 THEN b ELSE f[n - 1] \div WordBits]
  BY <1>4, <1>5
<1>7. Above(b) = [n \in Nat |-> IF n = 0 THEN b ELSE Above(b)[n - 1] \div WordBits]
  BY <1>6 DEF Above
<1>8. Above(b)[0] = b
  BY <1>7
<1>9. ASSUME NEW n \in Nat PROVE Above(b)[n + 1] = Above(b)[n] \div WordBits
  <2>1. n + 1 \in Nat /\ n + 1 # 0 /\ (n + 1) - 1 = n
    OBVIOUS
  <2> QED BY <1>7, <2>1
<1>10. Above(b) \in [Nat -> Nat]
  <2> DEFINE S == {n \in Nat : Above(b)[n] \in Nat}
  <2>1. 0 \in S /\ \A n \in Nat : n \in S => n + 1 \in S
    BY <1>1, <1>8, <1>9
  <2>2. Nat \subseteq S
    <3> HIDE DEF S
    <3> QED BY <2>1, SetInduction
  <2> QED BY <1>7, <2>2
<1> QED
  BY <1>8, <1>9, <1>10

-----------------------------------------------------------------------------
(* The layout.                                                             *)

(* A level has more bitmaps than its number, so the loop of init() ends.   *)
LEMMA LevelWidthGrows == \A n \in Nat : LevelWidth[n] >= n + 1
<1> DEFINE S == {n \in Nat : LevelWidth[n] >= n + 1}
<1>1. 0 \in S
  BY LevelWidthFacts
<1>2. ASSUME NEW n \in Nat, n \in S PROVE n + 1 \in S
  <2>1. LevelWidth[n + 1] = WordBits * LevelWidth[n] /\ LevelWidth[n] \in Nat
    BY LevelWidthFacts
  <2>2. WordBits * LevelWidth[n] >= 2 * LevelWidth[n]
    BY <2>1, WordBitsAssumption
  <2>3. LevelWidth[n + 1] >= 2 * LevelWidth[n] /\ LevelWidth[n] >= n + 1
    BY <1>2, <2>1, <2>2
  <2>4. LevelWidth[n + 1] >= (n + 1) + 1
    BY <2>1, <2>3, LevelWidthFacts
  <2> QED BY <2>4
<1>3. Nat \subseteq S
  <2> HIDE DEF S
  <2> QED BY <1>1, <1>2, SetInduction
<1> QED BY <1>3

(* init() finds a number of levels, and their lowest one covers every      *)
(* bucket.                                                                 *)
LEMMA NumLevelsFacts ==
    /\ kNumLevels \in Nat
    /\ kNumLevels >= 1
    /\ kNumBuckets <= LevelWidth[kNumLevels]
<1> DEFINE T == {n \in 1 .. kNumBuckets : kNumBuckets <= LevelWidth[n]}
<1>1. kNumBuckets \in T
  BY LevelWidthGrows, LevelWidthFacts, BucketsAssumption
<1>2. PICK n \in T : \A m \in T : n <= m
  <2>1. T \subseteq Nat /\ T # {}
    BY <1>1
  <2> HIDE DEF T
  <2> QED BY <2>1, LeastElement
<1>3. \A m \in 1 .. (n - 1) : kNumBuckets > LevelWidth[m]
  BY <1>2, BucketsAssumption, LevelWidthFacts
<1>4. \E k \in 1 .. kNumBuckets :
        /\ kNumBuckets <= LevelWidth[k]
        /\ \A m \in 1 .. (k - 1) : kNumBuckets > LevelWidth[m]
  BY <1>3
<1> QED
  BY <1>4, BucketsAssumption DEF kNumLevels

Nodes(l) == 0 .. (LevelWidth[l] - 1)

(* No two bitmaps share a slot of the flat array, and all slots exist.     *)
LEMMA OffsetsMonotone ==
    ASSUME NEW l \in Nat
    PROVE  \A n \in Nat : level_offsets[l] + LevelWidth[l] <= level_offsets[l + 1 + n]
<1> DEFINE S == {n \in Nat : level_offsets[l] + LevelWidth[l] <= level_offsets[l + 1 + n]}
<1>1. 0 \in S
  BY LevelOffsetFacts, LevelWidthFacts
<1>2. ASSUME NEW n \in Nat, n \in S PROVE n + 1 \in S
  <2>1. level_offsets[(l + 1 + n) + 1] = level_offsets[l + 1 + n] + LevelWidth[l + 1 + n]
    BY LevelOffsetFacts
  <2>2. (l + 1 + n) + 1 = l + 1 + (n + 1) /\ l + 1 + n \in Nat
    OBVIOUS
  <2> QED BY <1>2, <2>1, <2>2, LevelOffsetFacts, LevelWidthFacts
<1>3. Nat \subseteq S
  <2> HIDE DEF S
  <2> QED BY <1>1, <1>2, SetInduction
<1> QED BY <1>3

LEMMA OffsetsOrdered ==
    ASSUME NEW l \in Nat, NEW m \in Nat, l < m
    PROVE  level_offsets[l] + LevelWidth[l] <= level_offsets[m]
<1>1. m - l - 1 \in Nat /\ l + 1 + (m - l - 1) = m
  OBVIOUS
<1> QED BY <1>1, OffsetsMonotone

LEMMA BitmapIdxInjective ==
    ASSUME NEW l \in Levels, NEW i \in Nodes(l), NEW m \in Levels, NEW j \in Nodes(m)
    PROVE  /\ BitmapIdx(l, i) \in 0 .. (kNumBitmaps - 1)
           /\ BitmapIdx(l, i) = BitmapIdx(m, j) => l = m /\ i = j
<1>1. l \in Nat /\ m \in Nat /\ kNumLevels \in Nat /\ l < kNumLevels
  BY NumLevelsFacts DEF Levels
<1>2. /\ level_offsets[l] \in Nat /\ level_offsets[m] \in Nat
      /\ LevelWidth[l] \in Nat /\ LevelWidth[m] \in Nat
      /\ level_offsets[kNumLevels] \in Nat
  BY <1>1, LevelOffsetFacts, LevelWidthFacts
<1>3. i \in Nat /\ j \in Nat /\ i < LevelWidth[l] /\ j < LevelWidth[m]
  BY <1>2 DEF Nodes
<1>4. level_offsets[l] + LevelWidth[l] <= level_offsets[kNumLevels]
  BY <1>1, OffsetsOrdered
<1>5. l < m => level_offsets[l] + LevelWidth[l] <= level_offsets[m]
  BY <1>1, OffsetsOrdered
<1>6. m < l => level_offsets[m] + LevelWidth[m] <= level_offsets[l]
  BY <1>1, OffsetsOrdered
<1> QED
  BY <1>1, <1>2, <1>3, <1>4, <1>5, <1>6 DEF BitmapIdx, kNumBitmaps

-----------------------------------------------------------------------------
(* Nodes and the walk.                                                     *)

LEMMA DivFacts ==
    ASSUME NEW a \in Nat
    PROVE  /\ a \div WordBits \in Nat
           /\ a % WordBits \in Bits
           /\ a = (a \div WordBits) * WordBits + (a % WordBits)
           /\ \A c \in Nat : a < WordBits * c => a \div WordBits < c
<1> USE WordBitsAssumption
<1>1. a \div WordBits \in Nat /\ a % WordBits \in Bits
  BY DEF Bits
<1>2. a = (a \div WordBits) * WordBits + (a % WordBits)
  OBVIOUS
<1>3. ASSUME NEW c \in Nat, a < WordBits * c PROVE a \div WordBits < c
  BY <1>3
<1> QED BY <1>1, <1>2, <1>3

(* The digits of a child: node i of a level and bit c are the only node    *)
(* and bit that lead to child i * WordBits + c.                            *)
LEMMA ChildFacts ==
    ASSUME NEW i \in Nat, NEW c \in Bits
    PROVE  /\ (i * WordBits + c) % WordBits = c
           /\ (i * WordBits + c) \div WordBits = i
           /\ i * WordBits + c \in Nat
           /\ \A n \in Nat : i < n => i * WordBits + c < WordBits * n
<1> USE WordBitsAssumption DEF Bits
<1>1. i * WordBits + c \in Nat
  OBVIOUS
<1>2. (i * WordBits + c) \div WordBits = i /\ (i * WordBits + c) % WordBits = c
  <2> DEFINE a == i * WordBits + c
             q == a \div WordBits
             r == a % WordBits
  <2>1. a \in Nat /\ q \in Nat /\ r \in Bits /\ a = q * WordBits + r
    BY <1>1, DivFacts
  <2> HIDE DEF q, r
  <2>2. (q - i) * WordBits = c - r
    BY <2>1
  <2>3. q = i
    <3>1. CASE q > i
      <4>1. (q - i) * WordBits >= WordBits
        BY <2>1, <3>1
      <4> QED BY <4>1, <2>1, <2>2
    <3>2. CASE q < i
      <4>1. (i - q) * WordBits >= WordBits
        BY <2>1, <3>2
      <4>2. (i - q) * WordBits = r - c
        BY <2>1, <2>2
      <4> QED BY <4>1, <4>2, <2>1
    <3> QED BY <3>1, <3>2, <2>1
  <2> QED BY <2>1, <2>3 DEF q, r
<1>3. ASSUME NEW n \in Nat, i < n PROVE i * WordBits + c < WordBits * n
  <2>1. (i + 1) * WordBits <= n * WordBits
    BY <1>3
  <2> QED BY <2>1
<1> QED BY <1>1, <1>2, <1>3

LEMMA NodeFacts ==
    ASSUME NEW b \in Buckets
    PROVE  /\ NodeOf(b, kNumLevels) = b
           /\ NodeOf(b, 0) = 0
           /\ \A l \in Levels :
                /\ NodeOf(b, l) \in Nodes(l)
                /\ BitOf(b, l) \in Bits
                /\ NodeOf(b, l) = NodeOf(b, l + 1) \div WordBits
                /\ NodeOf(b, l + 1) = NodeOf(b, l) * WordBits + BitOf(b, l)
<1> USE NumLevelsFacts
<1>0. b \in Nat /\ b < LevelWidth[kNumLevels]
  BY BucketsAssumption, LevelWidthFacts DEF Buckets
<1> DEFINE S == {k \in Nat : k <= kNumLevels => Above(b)[k] < LevelWidth[kNumLevels - k]}
<1>1. 0 \in S
  <2>1. kNumLevels - 0 = kNumLevels
    OBVIOUS
  <2> QED BY <1>0, <2>1, AboveFacts
<1>2. ASSUME NEW k \in Nat, k \in S PROVE k + 1 \in S
  <2>1. SUFFICES ASSUME k + 1 <= kNumLevels
                 PROVE  Above(b)[k + 1] < LevelWidth[kNumLevels - (k + 1)]
    BY DEF S
  <2>2. Above(b)[k] < LevelWidth[kNumLevels - k]
    BY <1>2, <2>1
  <2>3. kNumLevels - (k + 1) \in Nat /\ (kNumLevels - (k + 1)) + 1 = kNumLevels - k
    BY <2>1
  <2>4. LevelWidth[kNumLevels - k] = WordBits * LevelWidth[kNumLevels - (k + 1)]
    BY <2>3, LevelWidthFacts
  <2>5. Above(b)[k] \in Nat /\ Above(b)[k + 1] = Above(b)[k] \div WordBits
    BY <1>0, AboveFacts
  <2>6. LevelWidth[kNumLevels - (k + 1)] \in Nat
    BY <2>3, LevelWidthFacts
  <2> QED BY <2>2, <2>4, <2>5, <2>6, DivFacts
<1>3. Nat \subseteq S
  <2> HIDE DEF S
  <2> QED BY <1>1, <1>2, SetInduction
<1>4. ASSUME NEW k \in 0 .. kNumLevels
      PROVE  Above(b)[k] \in Nat /\ Above(b)[k] < LevelWidth[kNumLevels - k]
  <2>1. k \in S
    BY <1>3
  <2> QED BY <1>0, <2>1, AboveFacts
<1>5. NodeOf(b, kNumLevels) = b
  BY <1>0, AboveFacts DEF NodeOf
<1>6. NodeOf(b, 0) = 0
  BY <1>4, LevelWidthFacts DEF NodeOf
<1>7. ASSUME NEW l \in Levels
      PROVE  /\ NodeOf(b, l) \in Nodes(l)
             /\ BitOf(b, l) \in Bits
             /\ NodeOf(b, l) = NodeOf(b, l + 1) \div WordBits
             /\ NodeOf(b, l + 1) = NodeOf(b, l) * WordBits + BitOf(b, l)
  <2>1. /\ l \in Nat /\ kNumLevels - l \in 0 .. kNumLevels
        /\ kNumLevels - (l + 1) \in 0 .. kNumLevels
        /\ (kNumLevels - (l + 1)) + 1 = kNumLevels - l
        /\ kNumLevels - (kNumLevels - l) = l
    BY DEF Levels
  <2>2. NodeOf(b, l) \in Nat /\ NodeOf(b, l) < LevelWidth[l] /\ NodeOf(b, l + 1) \in Nat
    BY <2>1, <1>4 DEF NodeOf
  <2>3. NodeOf(b, l) = NodeOf(b, l + 1) \div WordBits
    <3>1. Above(b)[(kNumLevels - (l + 1)) + 1] = Above(b)[kNumLevels - (l + 1)] \div WordBits
      BY <1>0, <2>1, AboveFacts
    <3> QED BY <2>1, <3>1 DEF NodeOf
  <2>4. NodeOf(b, l) \in Nodes(l)
    BY <2>1, <2>2, LevelWidthFacts DEF Nodes
  <2> QED BY <2>2, <2>3, <2>4, DivFacts DEF BitOf
<1> QED BY <1>5, <1>6, <1>7

LEMMA FindFirstSetFacts ==
    ASSUME NEW isPopMin \in BOOLEAN, NEW bm \in SUBSET Bits
    PROVE  /\ FindFirstSet(isPopMin, bm) \in Bits
           /\ bm # {} => FindFirstSet(isPopMin, bm) \in bm
           /\ isPopMin => \A d \in bm : FindFirstSet(isPopMin, bm) <= d
           /\ ~ isPopMin => \A d \in bm : d <= FindFirstSet(isPopMin, bm)
<1> USE WordBitsAssumption
<1>1. CASE bm = {}
  BY <1>1 DEF FindFirstSet, Bits
<1>2. CASE bm # {} /\ isPopMin
  <2>1. \E c \in bm : \A d \in bm : c <= d
    <3>1. bm \subseteq Nat /\ bm # {}
      BY <1>2 DEF Bits
    <3> QED BY ONLY <3>1, LeastElement
  <2> QED BY <1>2, <2>1 DEF FindFirstSet
<1>3. CASE bm # {} /\ ~ isPopMin
  <2> DEFINE T == {WordBits - d : d \in bm}
  <2>1. PICK t \in T : \A u \in T : t <= u
    <3>1. T \subseteq Nat /\ T # {}
      <4>1. \A d \in bm : WordBits - d \in Nat
        BY DEF Bits
      <4> QED BY <1>3, <4>1
    <3> HIDE DEF T
    <3> QED BY <3>1, LeastElement
  <2>2. PICK c \in bm : t = WordBits - c
    BY <2>1
  <2>3. ASSUME NEW d \in bm PROVE d <= c
    BY <2>1, <2>2 DEF Bits
  <2> QED BY <1>3, <2>2, <2>3 DEF FindFirstSet
<1> QED BY <1>1, <1>2, <1>3

BitmapsType == bitmaps \in [0 .. (kNumBitmaps - 1) -> SUBSET Bits]

LEMMA BitmapType ==
    ASSUME BitmapsType, NEW l \in Levels, NEW i \in Nodes(l)
    PROVE  Bitmap(l, i) \in SUBSET Bits
BY BitmapIdxInjective DEF Bitmap, BitmapsType

(* The walk of pop_ is well defined and stays inside the array.            *)
LEMMA WalkFacts ==
    ASSUME BitmapsType, NEW isPopMin \in BOOLEAN
    PROVE  /\ Walk(isPopMin)[0] = 0
           /\ \A l \in Levels :
                LET i == Walk(isPopMin)[l]
                IN  /\ i \in Nodes(l)
                    /\ Walk(isPopMin)[l + 1]
                            = i * WordBits + FindFirstSet(isPopMin, Bitmap(l, i))
<1> DEFINE Child(l, i) == i * WordBits + FindFirstSet(isPopMin, Bitmap(l, i))
           Dom == 0 .. kNumLevels
           Eqn(f) == f = [l \in Dom |-> IF l = 0 THEN 0 ELSE LET i == f[l - 1] IN Child(l - 1, i)]
<1>1. ASSUME NEW l \in Levels, NEW i \in Nodes(l)
      PROVE  Child(l, i) \in Nat /\ Child(l, i) < LevelWidth[l + 1]
  <2>1. FindFirstSet(isPopMin, Bitmap(l, i)) \in Bits
    BY BitmapType, FindFirstSetFacts
  <2>2. i \in Nat /\ l \in Nat /\ LevelWidth[l] \in Nat /\ i < LevelWidth[l]
    BY LevelWidthFacts DEF Nodes, Levels
  <2>3. LevelWidth[l + 1] = WordBits * LevelWidth[l]
    BY <2>2, LevelWidthFacts
  <2> QED BY <2>1, <2>2, <2>3, ChildFacts
<1> DEFINE step == [p \in Nat \X Nat |->
                        IF p[1] \in Levels /\ p[2] \in Nodes(p[1]) THEN Child(p[1], p[2]) ELSE 0]
<1>2. IsStep(step, Nat) /\ 0 \in Nat
  BY <1>1 DEF IsStep
<1>3. \A n \in Nat, t \in Nat : n \in Levels /\ t \in Nodes(n) => step[<<n, t>>] = Child(n, t)
  OBVIOUS
<1> HIDE DEF step, Child
<1>4. PICK f : IsRecursion(f, Nat, 0, step)
  BY <1>2, PrimitiveRecursion
<1>5. f \in [Nat -> Nat] /\ f[0] = 0 /\ \A n \in Nat : f[n + 1] = step[<<n, f[n]>>]
  BY <1>4 DEF IsRecursion
<1>6. \A l \in 0 .. kNumLevels : f[l] \in Nat /\ f[l] < LevelWidth[l]
  <2> DEFINE S == {n \in Nat : n <= kNumLevels => f[n] < LevelWidth[n]}
  <2>1. 0 \in S
    BY <1>5, LevelWidthFacts
  <2>2. ASSUME NEW n \in Nat, n \in S PROVE n + 1 \in S
    <3>1. SUFFICES ASSUME n + 1 <= kNumLevels PROVE f[n + 1] < LevelWidth[n + 1]
      OBVIOUS
    <3>2. n \in Levels /\ f[n] \in Nodes(n)
      BY <2>2, <3>1, <1>5, NumLevelsFacts, LevelWidthFacts DEF Levels, Nodes
    <3>3. f[n + 1] = Child(n, f[n])
      BY <1>3, <1>5, <3>2
    <3> QED BY <1>1, <3>2, <3>3
  <2>3. Nat \subseteq S
    <3> HIDE DEF S
    <3> QED BY <2>1, <2>2, SetInduction
  <2> QED BY <1>5, <2>3, NumLevelsFacts
<1>7. \A l \in Levels : f[l] \in Nodes(l) /\ f[l + 1] = Child(l, f[l])
  <2> SUFFICES ASSUME NEW l \in Levels PROVE f[l] \in Nodes(l) /\ f[l + 1] = Child(l, f[l])
    OBVIOUS
  <2>1. l \in Nat /\ l \in 0 .. kNumLevels
    BY NumLevelsFacts DEF Levels
  <2>2. f[l] \in Nodes(l)
    BY <1>6, <2>1, LevelWidthFacts DEF Nodes
  <2> QED BY <1>3, <1>5, <2>1, <2>2
<1>8. \E g : Eqn(g)
  <2> DEFINE g == [l \in Dom |-> f[l]]
  <2>1. ASSUME NEW l \in Dom
        PROVE  g[l] = IF l = 0 THEN 0 ELSE Child(l - 1, g[l - 1])
    <3>1. CASE l = 0
      BY <3>1, <1>5, NumLevelsFacts
    <3>2. CASE l # 0
      <4>1. l - 1 \in Levels /\ l - 1 \in Dom /\ (l - 1) + 1 = l
        BY <3>2, NumLevelsFacts DEF Levels
      <4>2. f[(l - 1) + 1] = Child(l - 1, f[l - 1])
        BY <1>7, <4>1
      <4> QED BY <3>2, <4>1, <4>2
    <3> QED BY <3>1, <3>2
  <2>2. Eqn(g)
    BY <2>1
  <2> QED BY <2>2
<1>9. Eqn(Walk(isPopMin))
  BY <1>8 DEF Walk, Child
<1>10. Walk(isPopMin)[0] = 0
  BY <1>9, NumLevelsFacts
<1>11. ASSUME NEW l \in Levels
       PROVE  Walk(isPopMin)[l + 1] = Child(l, Walk(isPopMin)[l])
  <2>1. l + 1 \in Dom /\ l + 1 # 0 /\ (l + 1) - 1 = l
    BY NumLevelsFacts DEF Levels
  <2> QED BY <1>9, <2>1
<1>12. \A l \in Levels : Walk(isPopMin)[l] \in Nodes(l)
  <2> DEFINE S == {n \in Nat : n \in Levels => Walk(isPopMin)[n] \in Nodes(n)}
  <2>1. 0 \in S
    BY <1>10, LevelWidthFacts DEF Nodes
  <2>2. ASSUME NEW n \in Nat, n \in S PROVE n + 1 \in S
    <3>1. SUFFICES ASSUME n + 1 \in Levels PROVE Walk(isPopMin)[n + 1] \in Nodes(n + 1)
      OBVIOUS
    <3>2. n \in Levels
      BY <3>1, NumLevelsFacts DEF Levels
    <3>3. Walk(isPopMin)[n] \in Nodes(n)
      BY <2>2, <3>2
    <3> QED BY <1>1, <1>11, <3>2, <3>3, LevelWidthFacts DEF Nodes
  <2>3. Nat \subseteq S
    <3> HIDE DEF S
    <3> QED BY <2>1, <2>2, SetInduction
  <2> QED BY <2>3, NumLevelsFacts DEF Levels
<1> QED BY <1>10, <1>11, <1>12 DEF Child

-----------------------------------------------------------------------------
(* The tree says where the entries are.                                    *)

BucketsType == buckets \in [Buckets -> Seq(Tags)]

(* A bucket in use has its bit set on every level above.                   *)
LEMMA BitsAbove ==
    ASSUME BitmapsType, TreeConsistent, NEW b \in Buckets, NEW l \in 0 .. kNumLevels,
           Occupied(l, NodeOf(b, l))
    PROVE  \A m \in Levels : m < l => /\ BitOf(b, m) \in Bitmap(m, NodeOf(b, m))
                                      /\ Occupied(m, NodeOf(b, m))
<1> USE NumLevelsFacts
<1> DEFINE S == {n \in Nat : n <= l => Occupied(l - n, NodeOf(b, l - n))}
<1>1. 0 \in S
  <2>1. l - 0 = l
    OBVIOUS
  <2> QED BY <2>1
<1>2. ASSUME NEW m \in Levels, Occupied(m + 1, NodeOf(b, m + 1))
      PROVE  /\ BitOf(b, m) \in Bitmap(m, NodeOf(b, m))
             /\ Occupied(m, NodeOf(b, m))
  <2>1. /\ NodeOf(b, m) \in 0 .. (LevelWidth[m] - 1)
        /\ BitOf(b, m) \in Bits
        /\ NodeOf(b, m + 1) = NodeOf(b, m) * WordBits + BitOf(b, m)
    BY NodeFacts DEF Nodes
  <2>2. BitOf(b, m) \in Bitmap(m, NodeOf(b, m))
    BY <1>2, <2>1 DEF TreeConsistent
  <2>3. m # kNumLevels
    BY DEF Levels
  <2> QED BY <2>2, <2>3 DEF Occupied
<1>3. ASSUME NEW n \in Nat, n \in S PROVE n + 1 \in S
  <2>1. SUFFICES ASSUME n + 1 <= l PROVE Occupied(l - (n + 1), NodeOf(b, l - (n + 1)))
    BY DEF S
  <2>2. l - (n + 1) \in Levels /\ (l - (n + 1)) + 1 = l - n
    BY <2>1 DEF Levels
  <2>3. Occupied(l - n, NodeOf(b, l - n))
    BY <1>3, <2>1
  <2> QED BY <1>2, <2>2, <2>3
<1>4. Nat \subseteq S
  <2> HIDE DEF S
  <2> QED BY <1>1, <1>3, SetInduction
<1>5. ASSUME NEW m \in Levels, m < l PROVE Occupied(m + 1, NodeOf(b, m + 1))
  <2>1. l - (m + 1) \in Nat /\ l - (l - (m + 1)) = m + 1 /\ l - (m + 1) <= l
    BY <1>5 DEF Levels
  <2>2. l - (m + 1) \in S
    BY <1>4, <2>1
  <2> HIDE DEF Occupied
  <2> QED BY <2>1, <2>2
<1> QED BY <1>2, <1>5

LEMMA BucketInUse ==
    ASSUME BitmapsType, TreeConsistent, NEW b \in Buckets, buckets[b] # <<>>
    PROVE  \A m \in Levels : BitOf(b, m) \in Bitmap(m, NodeOf(b, m))
<1>1. Occupied(kNumLevels, NodeOf(b, kNumLevels)) /\ kNumLevels \in 0 .. kNumLevels
  BY NodeFacts, NumLevelsFacts DEF Occupied
<1> QED BY <1>1, BitsAbove, NumLevelsFacts DEF Levels

(* While some bucket is in use the walk meets no empty bitmap and ends in  *)
(* a bucket in use: the lowest for popMin, the highest for popMax.         *)
LEMMA WalkEndsInExtremum ==
    ASSUME BitmapsType, TreeConsistent, NEW isPopMin \in BOOLEAN,
           NEW b0 \in Buckets, buckets[b0] # <<>>
    PROVE  /\ WalkAsserts(isPopMin)
           /\ \A l \in Levels : Walk(isPopMin)[l + 1] % WordBits
                                    \in Bitmap(l, Walk(isPopMin)[l])
           /\ \A b \in Buckets : buckets[b] # <<>> =>
                IF isPopMin THEN Walk(isPopMin)[kNumLevels] <= b
                            ELSE b <= Walk(isPopMin)[kNumLevels]
<1> USE NumLevelsFacts
<1> DEFINE path == Walk(isPopMin)
           First(l) == FindFirstSet(isPopMin, Bitmap(l, path[l]))
<1>1. /\ path[0] = 0
      /\ \A l \in Levels : /\ path[l] \in Nodes(l)
                           /\ path[l + 1] = path[l] * WordBits + First(l)
  BY WalkFacts
<1> HIDE DEF path
<1>2. ASSUME NEW l \in Levels
      PROVE  /\ Bitmap(l, path[l]) \in SUBSET Bits
             /\ First(l) \in Bits
             /\ Bitmap(l, path[l]) # {} => First(l) \in Bitmap(l, path[l])
             /\ \A d \in Bitmap(l, path[l]) : IF isPopMin THEN First(l) <= d ELSE d <= First(l)
  BY <1>1, BitmapType, FindFirstSetFacts
<1> HIDE DEF First
<1>3. \A l \in 0 .. kNumLevels : Occupied(l, path[l])
  <2> DEFINE S == {n \in Nat : n <= kNumLevels => Occupied(n, path[n])}
  <2>1. 0 \in S
    <3>1. BitOf(b0, 0) \in Bitmap(0, 0)
      BY BucketInUse, NodeFacts DEF Levels
    <3> QED BY <1>1, <3>1 DEF Occupied
  <2>2. ASSUME NEW n \in Nat, n \in S PROVE n + 1 \in S
    <3>1. SUFFICES ASSUME n + 1 <= kNumLevels PROVE Occupied(n + 1, path[n + 1])
      BY DEF S
    <3>2. n \in Levels /\ n # kNumLevels /\ n <= kNumLevels
      BY <3>1 DEF Levels
    <3>3. Bitmap(n, path[n]) # {}
      BY <2>2, <3>2 DEF Occupied
    <3>4. First(n) \in Bitmap(n, path[n]) /\ First(n) \in Bits
      BY <1>2, <3>2, <3>3
    <3>5. path[n] \in 0 .. (LevelWidth[n] - 1) /\ path[n + 1] = path[n] * WordBits + First(n)
      BY <1>1, <3>2 DEF Nodes
    <3> HIDE DEF Occupied
    <3> QED BY <3>2, <3>4, <3>5 DEF TreeConsistent
  <2>3. Nat \subseteq S
    <3> HIDE DEF S
    <3> QED BY <2>1, <2>2, SetInduction
  <2> QED BY <2>3
<1>4. \A l \in Levels : Bitmap(l, path[l]) # {}
  BY <1>3 DEF Levels, Occupied
<1>5. path[kNumLevels] \in Buckets /\ buckets[path[kNumLevels]] # <<>>
  BY <1>3 DEF Occupied
<1>6. ASSUME NEW l \in Levels PROVE path[l + 1] % WordBits \in Bitmap(l, path[l])
  <2>1. First(l) \in Bitmap(l, path[l]) /\ First(l) \in Bits /\ path[l] \in Nat
    BY <1>1, <1>2, <1>4 DEF Nodes
  <2> QED BY <1>1, <2>1, ChildFacts
<1>7. ASSUME NEW b \in Buckets, buckets[b] # <<>>
      PROVE  IF isPopMin THEN path[kNumLevels] <= b ELSE b <= path[kNumLevels]
  <2> DEFINE S == {n \in Nat : n <= kNumLevels => IF isPopMin THEN path[n] <= NodeOf(b, n)
                                                             ELSE NodeOf(b, n) <= path[n]}
  <2>1. 0 \in S
    BY <1>1, NodeFacts
  <2>2. ASSUME NEW n \in Nat, n \in S PROVE n + 1 \in S
    <3>1. SUFFICES ASSUME n + 1 <= kNumLevels
                   PROVE IF isPopMin THEN path[n + 1] <= NodeOf(b, n + 1)
                                     ELSE NodeOf(b, n + 1) <= path[n + 1]
      BY DEF S
    <3>2. n \in Levels
      BY <3>1 DEF Levels
    <3> DEFINE i == path[n]  c == First(n)  j == NodeOf(b, n)  d == BitOf(b, n)
    <3>3. /\ i \in Nat /\ j \in Nat /\ c \in Bits /\ d \in Bits
          /\ path[n + 1] = i * WordBits + c
          /\ NodeOf(b, n + 1) = j * WordBits + d
          /\ IF isPopMin THEN i <= j ELSE j <= i
      BY <1>1, <1>2, <2>2, <3>2, NodeFacts DEF Nodes, Levels
    <3>4. d \in Bitmap(n, j)
      BY <1>7, <3>2, BucketInUse
    <3>5. i = j => IF isPopMin THEN c <= d ELSE d <= c
      BY <1>2, <3>2, <3>4
    <3> HIDE DEF i, j, c, d
    <3>6. i < j => i * WordBits + c < j * WordBits + d
      <4>1. i < j => i * WordBits + c < WordBits * j
        BY <3>3, ChildFacts
      <4> QED BY <4>1, <3>3, WordBitsAssumption DEF Bits
    <3>7. j < i => j * WordBits + d < i * WordBits + c
      <4>1. j < i => j * WordBits + d < WordBits * i
        BY <3>3, ChildFacts
      <4> QED BY <4>1, <3>3, WordBitsAssumption DEF Bits
    <3>8. i = j => IF isPopMin THEN i * WordBits + c <= j * WordBits + d
                               ELSE j * WordBits + d <= i * WordBits + c
      BY <3>3, <3>5, WordBitsAssumption DEF Bits
    <3>9. i * WordBits + c \in Nat /\ j * WordBits + d \in Nat
      BY <3>3, ChildFacts
    <3> QED BY <3>3, <3>6, <3>7, <3>8, <3>9
  <2>3. Nat \subseteq S
    <3> HIDE DEF S
    <3> QED BY <2>1, <2>2, SetInduction
  <2>4. kNumLevels \in S /\ NodeOf(b, kNumLevels) = b
    BY <2>3, NodeFacts
  <2> QED BY <2>4
<1> QED BY <1>4, <1>5, <1>6, <1>7 DEF WalkAsserts, path

-----------------------------------------------------------------------------
(* The two loops over the bitmaps keep the tree consistent.                *)

LEMMA PushBitmaps ==
    ASSUME BitmapsType, NEW b \in Buckets
    PROVE  /\ BitmapsAfterPush(b) \in [0 .. (kNumBitmaps - 1) -> SUBSET Bits]
           /\ \A l \in Levels : \A i \in Nodes(l) :
                BitmapsAfterPush(b)[BitmapIdx(l, i)]
                    = Bitmap(l, i) \cup {c \in Bits : /\ i = NodeOf(b, l)
                                                      /\ c = BitOf(b, l)
                                                      /\ PushReaches(b, l)}
<1> DEFINE Set(k) == {BitOf(b, l) : l \in {m \in Levels : /\ k = BitmapIdx(m, NodeOf(b, m))
                                                          /\ PushReaches(b, m)}}
<1>1. BitmapsAfterPush(b) = [k \in 0 .. (kNumBitmaps - 1) |-> bitmaps[k] \cup Set(k)]
  BY DEF BitmapsAfterPush, BitmapsType
<1>2. \A k : Set(k) \subseteq Bits
  BY NodeFacts
<1>3. ASSUME NEW l \in Levels, NEW i \in Nodes(l)
      PROVE  Set(BitmapIdx(l, i)) = {c \in Bits : /\ i = NodeOf(b, l)
                                                  /\ c = BitOf(b, l)
                                                  /\ PushReaches(b, l)}
  <2>1. \A m \in Levels : BitmapIdx(l, i) = BitmapIdx(m, NodeOf(b, m)) <=> (m = l /\ i = NodeOf(b, l))
    BY BitmapIdxInjective, NodeFacts
  <2>2. BitOf(b, l) \in Bits
    BY NodeFacts
  <2> HIDE DEF Bits
  <2> QED BY <2>1, <2>2
<1>4. \A l \in Levels : \A i \in Nodes(l) : BitmapIdx(l, i) \in 0 .. (kNumBitmaps - 1)
  BY BitmapIdxInjective
<1> HIDE DEF Set
<1> QED BY <1>1, <1>2, <1>3, <1>4 DEF BitmapsType, Bitmap

LEMMA PopBitmaps ==
    ASSUME BitmapsType, NEW path, \A m \in Levels : path[m] \in Nodes(m)
    PROVE  /\ BitmapsAfterPop(path) \in [0 .. (kNumBitmaps - 1) -> SUBSET Bits]
           /\ \A l \in Levels : \A i \in Nodes(l) :
                BitmapsAfterPop(path)[BitmapIdx(l, i)]
                    = {c \in Bitmap(l, i) : ~ /\ i = path[l]
                                              /\ c = path[l + 1] % WordBits
                                              /\ PopReaches(path, l)}
<1> DEFINE Set(k) == {path[l + 1] % WordBits : l \in {m \in Levels : /\ k = BitmapIdx(m, path[m])
                                                                     /\ PopReaches(path, m)}}
<1>1. BitmapsAfterPop(path) = [k \in 0 .. (kNumBitmaps - 1) |-> bitmaps[k] \ Set(k)]
  BY DEF BitmapsAfterPop, BitmapsType
<1>2. ASSUME NEW l \in Levels, NEW i \in Nodes(l), NEW c
      PROVE  c \in Set(BitmapIdx(l, i)) <=> /\ i = path[l]
                                            /\ c = path[l + 1] % WordBits
                                            /\ PopReaches(path, l)
  <2>1. \A m \in Levels : BitmapIdx(l, i) = BitmapIdx(m, path[m]) <=> (m = l /\ i = path[l])
    BY BitmapIdxInjective
  <2> QED BY <2>1
<1>3. \A l \in Levels : \A i \in Nodes(l) : BitmapIdx(l, i) \in 0 .. (kNumBitmaps - 1)
  BY BitmapIdxInjective
<1> HIDE DEF Set
<1>4. BitmapsAfterPop(path) \in [0 .. (kNumBitmaps - 1) -> SUBSET Bits]
  BY <1>1 DEF BitmapsType
<1>5. ASSUME NEW l \in Levels, NEW i \in Nodes(l)
      PROVE  BitmapsAfterPop(path)[BitmapIdx(l, i)]
                    = {c \in Bitmap(l, i) : ~ /\ i = path[l]
                                              /\ c = path[l + 1] % WordBits
                                              /\ PopReaches(path, l)}
  <2>1. BitmapsAfterPop(path)[BitmapIdx(l, i)] = Bitmap(l, i) \ Set(BitmapIdx(l, i))
    BY <1>1, <1>3 DEF Bitmap
  <2> QED BY <1>2, <2>1
<1> QED BY <1>4, <1>5

LEMMA PushKeepsTree ==
    ASSUME BitmapsType, BucketsType, TreeConsistent, NEW b \in Buckets, NEW tag \in Tags,
           buckets' = [buckets EXCEPT ![b] = Append(@, tag)],
           bitmaps' = BitmapsAfterPush(b)
    PROVE  TreeConsistent'
<1> USE NumLevelsFacts
<1> DEFINE At(l, i, c) == i = NodeOf(b, l) /\ c = BitOf(b, l)
<1>1. \A l \in Levels : \A i \in Nodes(l) : \A c \in Bits :
        c \in Bitmap(l, i)' <=> c \in Bitmap(l, i) \/ (At(l, i, c) /\ PushReaches(b, l))
  BY PushBitmaps DEF Bitmap
<1>2. \A l \in Levels : \A i \in Nodes(l) :
        /\ Bitmap(l, i) \in SUBSET Bits
        /\ Bitmap(l, i)' \in SUBSET Bits
  BY BitmapType, PushBitmaps, BitmapIdxInjective DEF Bitmap
<1>3. \A a \in Buckets : buckets'[a] # <<>> <=> (buckets[a] # <<>> \/ a = b)
  <2>1. buckets[b] \in Seq(Tags) /\ Append(buckets[b], tag) # <<>>
    BY DEF BucketsType
  <2> QED BY <2>1 DEF BucketsType
<1>4. SUFFICES ASSUME NEW l \in Levels, NEW i \in Nodes(l), NEW c \in Bits
               PROVE  c \in Bitmap(l, i)' <=> Occupied(l + 1, i * WordBits + c)'
  BY DEF TreeConsistent, Nodes
<1> DEFINE j == i * WordBits + c
<1>5. /\ c \in Bitmap(l, i) <=> Occupied(l + 1, j)
      /\ l \in Nat /\ l + 1 <= kNumLevels
      /\ i \in Nat /\ j \in Nat /\ i < LevelWidth[l]
      /\ l + 1 < kNumLevels => l + 1 \in Levels /\ j \in Nodes(l + 1)
  <2>1. c \in Bitmap(l, i) <=> Occupied(l + 1, j)
    BY DEF TreeConsistent, Nodes
  <2>2. l \in Nat /\ l + 1 <= kNumLevels /\ i \in Nat /\ LevelWidth[l] \in Nat /\ i < LevelWidth[l]
    BY LevelWidthFacts DEF Levels, Nodes
  <2>3. j \in Nat /\ j < LevelWidth[l + 1]
    BY <2>2, ChildFacts, LevelWidthFacts
  <2> HIDE DEF Occupied, j
  <2>4. l + 1 < kNumLevels => l + 1 \in Levels /\ j \in Nodes(l + 1)
    <3>1. j \in Nodes(l + 1)
      <4>1. LevelWidth[l + 1] \in Nat
        BY <2>2, LevelWidthFacts
      <4> QED BY <2>3, <4>1 DEF Nodes
    <3>2. l + 1 < kNumLevels => l + 1 \in Levels
      BY <2>2 DEF Levels
    <3> QED BY <3>1, <3>2
  <2> QED BY <2>1, <2>2, <2>3, <2>4
<1>6. NodeOf(b, l + 1) = j <=> At(l, i, c)
  <2>1. NodeOf(b, l + 1) = NodeOf(b, l) * WordBits + BitOf(b, l)
    BY NodeFacts
  <2>2. NodeOf(b, l) = NodeOf(b, l + 1) \div WordBits
    BY NodeFacts
  <2> QED BY <2>1, <2>2, <1>5, ChildFacts DEF BitOf
<1>7. CASE At(l, i, c)
  <2>1. Occupied(l + 1, j)'
    <3>1. CASE l + 1 = kNumLevels
      BY <1>3, <1>6, <1>7, <3>1, NodeFacts DEF Occupied
    <3>2. CASE l + 1 # kNumLevels
      <4>1. l + 1 \in Levels /\ j \in Nodes(l + 1) /\ j = NodeOf(b, l + 1)
        BY <1>5, <1>6, <1>7, <3>2
      <4>2. CASE Bitmap(l + 1, j) # {}
        BY <1>1, <1>2, <3>2, <4>1, <4>2 DEF Occupied
      <4>3. CASE PushReaches(b, l + 1)
        <5>1. BitOf(b, l + 1) \in Bitmap(l + 1, j)'
          BY <1>1, <4>1, <4>3, NodeFacts
        <5> QED BY <5>1, <3>2 DEF Occupied
      <4>4. CASE ~ PushReaches(b, l + 1)
        <5>1. CASE buckets[b] # <<>>
          <6>1. BitOf(b, l + 1) \in Bitmap(l + 1, j)
            BY <4>1, <5>1, BucketInUse
          <6> QED BY <4>2, <6>1
        <5>2. CASE \E m \in (l + 2) .. (kNumLevels - 1) : Bitmap(m, NodeOf(b, m)) # {}
          <6>1. PICK m \in (l + 2) .. (kNumLevels - 1) : Bitmap(m, NodeOf(b, m)) # {}
            BY <5>2
          <6>2. Occupied(m, NodeOf(b, m)) /\ m \in 0 .. kNumLevels /\ l + 1 < m
            BY <6>1, <1>5 DEF Occupied
          <6>3. BitOf(b, l + 1) \in Bitmap(l + 1, j)
            BY <4>1, <6>2, BitsAbove
          <6> QED BY <4>2, <6>3
        <5> QED BY <4>4, <5>1, <5>2, <1>5 DEF PushReaches
      <4> QED BY <4>3, <4>4
    <3> QED BY <3>1, <3>2
  <2>2. c \in Bitmap(l, i)'
    <3>1. CASE PushReaches(b, l)
      BY <1>1, <1>7, <3>1
    <3>2. CASE buckets[b] # <<>>
      <4>1. c \in Bitmap(l, i)
        BY <1>7, <3>2, BucketInUse
      <4> QED BY <1>1, <4>1
    <3>3. CASE \E m \in (l + 1) .. (kNumLevels - 1) : Bitmap(m, NodeOf(b, m)) # {}
      <4>1. PICK m \in (l + 1) .. (kNumLevels - 1) : Bitmap(m, NodeOf(b, m)) # {}
        BY <3>3
      <4>2. Occupied(m, NodeOf(b, m)) /\ m \in 0 .. kNumLevels /\ l < m
        BY <4>1, <1>5 DEF Occupied
      <4>3. c \in Bitmap(l, i)
        BY <1>7, <4>2, BitsAbove
      <4> QED BY <1>1, <4>3
    <3> QED BY <3>1, <3>2, <3>3 DEF PushReaches
  <2> QED BY <2>1, <2>2
<1>8. CASE ~ At(l, i, c)
  <2>1. c \in Bitmap(l, i)' <=> c \in Bitmap(l, i)
    BY <1>1, <1>8
  <2>2. Occupied(l + 1, j)' <=> Occupied(l + 1, j)
    <3>1. CASE l + 1 = kNumLevels
      BY <1>3, <1>6, <1>8, <3>1, NodeFacts DEF Occupied
    <3>2. CASE l + 1 # kNumLevels
      <4>1. l + 1 \in Levels /\ j \in Nodes(l + 1) /\ j # NodeOf(b, l + 1)
        BY <1>5, <1>6, <1>8, <3>2
      <4>2. Bitmap(l + 1, j)' = Bitmap(l + 1, j)
        BY <1>1, <1>2, <4>1
      <4> QED BY <3>2, <4>2 DEF Occupied
    <3> QED BY <3>1, <3>2
  <2> HIDE DEF Occupied
  <2> QED BY <1>5, <2>1, <2>2
<1> QED BY <1>7, <1>8

LEMMA PopKeepsTree ==
    ASSUME BitmapsType, BucketsType, TreeConsistent, NEW path, NEW b \in Buckets,
           path[kNumLevels] = b, buckets[b] # <<>>,
           \A l \in Levels : /\ path[l] \in Nodes(l)
                             /\ path[l + 1] % WordBits \in Bitmap(l, path[l])
                             /\ path[l + 1] \in Nat
                             /\ path[l + 1] \div WordBits = path[l],
           buckets' = [buckets EXCEPT ![b] = Tail(@)],
           bitmaps' = BitmapsAfterPop(path)
    PROVE  TreeConsistent'
<1> USE NumLevelsFacts
<1> DEFINE At(l, i, c) == i = path[l] /\ c = path[l + 1] % WordBits
<1>1. \A l \in Levels : \A i \in Nodes(l) : \A c \in Bits :
        c \in Bitmap(l, i)' <=> c \in Bitmap(l, i) /\ ~ (At(l, i, c) /\ PopReaches(path, l))
  <2>1. \A l \in Levels : \A i \in Nodes(l) :
            Bitmap(l, i)' = {c \in Bitmap(l, i) : ~ (At(l, i, c) /\ PopReaches(path, l))}
    BY PopBitmaps DEF Bitmap
  <2> QED BY <2>1
<1>2. \A l \in Levels : \A i \in Nodes(l) :
        /\ Bitmap(l, i) \in SUBSET Bits
        /\ Bitmap(l, i)' \in SUBSET Bits
  BY BitmapType, PopBitmaps, BitmapIdxInjective DEF Bitmap
<1>3. /\ \A a \in Buckets \ {b} : buckets'[a] = buckets[a]
      /\ buckets'[b] = Tail(buckets[b])
  BY DEF BucketsType
<1>4. SUFFICES ASSUME NEW l \in Levels, NEW i \in Nodes(l), NEW c \in Bits
               PROVE  c \in Bitmap(l, i)' <=> Occupied(l + 1, i * WordBits + c)'
  BY DEF TreeConsistent, Nodes
<1> DEFINE j == i * WordBits + c
<1>5. /\ c \in Bitmap(l, i) <=> Occupied(l + 1, j)
      /\ l \in Nat /\ l + 1 <= kNumLevels
      /\ i \in Nat /\ j \in Nat
      /\ l + 1 < kNumLevels => l + 1 \in Levels /\ j \in Nodes(l + 1)
  <2>1. c \in Bitmap(l, i) <=> Occupied(l + 1, j)
    BY DEF TreeConsistent, Nodes
  <2>2. l \in Nat /\ l + 1 <= kNumLevels /\ i \in Nat /\ LevelWidth[l] \in Nat /\ i < LevelWidth[l]
    BY LevelWidthFacts DEF Levels, Nodes
  <2>3. j \in Nat /\ j < LevelWidth[l + 1]
    BY <2>2, ChildFacts, LevelWidthFacts
  <2> HIDE DEF Occupied, j
  <2>4. l + 1 < kNumLevels => l + 1 \in Levels /\ j \in Nodes(l + 1)
    <3>1. j \in Nodes(l + 1)
      <4>1. LevelWidth[l + 1] \in Nat
        BY <2>2, LevelWidthFacts
      <4> QED BY <2>3, <4>1 DEF Nodes
    <3>2. l + 1 < kNumLevels => l + 1 \in Levels
      BY <2>2 DEF Levels
    <3> QED BY <3>1, <3>2
  <2> QED BY <2>1, <2>2, <2>3, <2>4
<1>6. path[l + 1] = j <=> At(l, i, c)
  <2>1. j % WordBits = c /\ j \div WordBits = i
    BY <1>5, ChildFacts
  <2>2. path[l + 1] \in Nat /\ path[l + 1] \div WordBits = path[l]
    OBVIOUS
  <2>3. path[l + 1] = path[l] * WordBits + (path[l + 1] % WordBits)
    BY <2>2, DivFacts
  <2>4. ASSUME path[l + 1] = j PROVE At(l, i, c)
    <3> HIDE DEF j
    <3> QED BY <2>1, <2>2, <2>4
  <2>5. ASSUME At(l, i, c) PROVE path[l + 1] = j
    BY <2>3, <2>5
  <2> HIDE DEF j
  <2> QED BY <2>4, <2>5
<1>7. CASE At(l, i, c)
  <2>0. c \in Bitmap(l, i)
    BY <1>7
  <2>1. CASE PopReaches(path, l)
    <3>1. c \notin Bitmap(l, i)'
      BY <1>1, <1>7, <2>1
    <3>2. ~ Occupied(l + 1, j)'
      <4>1. CASE l + 1 = kNumLevels
        BY <1>3, <1>6, <1>7, <2>1, <4>1 DEF Occupied, PopReaches
      <4>2. CASE l + 1 # kNumLevels
        <5>1. l + 1 \in Levels /\ j \in Nodes(l + 1) /\ j = path[l + 1]
          BY <1>5, <1>6, <1>7, <4>2
        <5>2. Bitmap(l + 1, j) \subseteq {path[(l + 1) + 1] % WordBits}
          <6>1. l + 1 \in (l + 1) .. (kNumLevels - 1)
            BY <1>5, <5>1 DEF Levels
          <6> QED BY <5>1, <6>1, <2>1 DEF PopReaches
        <5>3. PopReaches(path, l + 1)
          <6>1. \A m \in ((l + 1) + 1) .. (kNumLevels - 1) : m \in (l + 1) .. (kNumLevels - 1)
            BY <1>5
          <6> QED BY <2>1, <6>1 DEF PopReaches
        <5>4. Bitmap(l + 1, j)' = {}
          BY <1>1, <1>2, <5>1, <5>2, <5>3
        <5> QED BY <4>2, <5>4 DEF Occupied
      <4> QED BY <4>1, <4>2
    <3> QED BY <3>1, <3>2
  <2>2. CASE ~ PopReaches(path, l)
    <3>1. c \in Bitmap(l, i)'
      BY <1>1, <2>0, <2>2
    <3>2. Occupied(l + 1, j)'
      <4>1. CASE l + 1 = kNumLevels
        <5>1. Tail(buckets[b]) # <<>>
          BY <2>2, <4>1, <1>5 DEF PopReaches
        <5> QED BY <1>3, <1>6, <1>7, <4>1, <5>1 DEF Occupied
      <4>2. CASE l + 1 # kNumLevels
        <5>1. l + 1 \in Levels /\ j \in Nodes(l + 1) /\ j = path[l + 1]
          BY <1>5, <1>6, <1>7, <4>2
        <5>2. path[(l + 1) + 1] % WordBits \in Bitmap(l + 1, j)
          BY <5>1
        <5>3. CASE PopReaches(path, l + 1)
          <6>1. ~ (Bitmap(l + 1, j) \subseteq {path[(l + 1) + 1] % WordBits})
            <7>1. SUFFICES ASSUME Bitmap(l + 1, j) \subseteq {path[(l + 1) + 1] % WordBits}
                           PROVE  PopReaches(path, l)
              BY <2>2
            <7>2. ASSUME NEW m \in (l + 1) .. (kNumLevels - 1)
                  PROVE  Bitmap(m, path[m]) \subseteq {path[m + 1] % WordBits}
              <8>1. CASE m = l + 1
                BY <8>1, <7>1, <5>1
              <8>2. CASE m # l + 1
                <9>1. m \in ((l + 1) + 1) .. (kNumLevels - 1)
                  BY <8>2, <1>5
                <9> QED BY <9>1, <5>3 DEF PopReaches
              <8> QED BY <8>1, <8>2
            <7> QED BY <7>2, <5>3 DEF PopReaches
          <6>2. PICK d \in Bitmap(l + 1, j) : d # path[(l + 1) + 1] % WordBits
            BY <6>1
          <6>3. d \in Bitmap(l + 1, j)'
            BY <1>1, <1>2, <5>1, <6>2
          <6> QED BY <4>2, <6>3 DEF Occupied
        <5>4. CASE ~ PopReaches(path, l + 1)
          <6>1. path[(l + 1) + 1] % WordBits \in Bitmap(l + 1, j)'
            BY <1>1, <1>2, <5>1, <5>2, <5>4
          <6> QED BY <4>2, <6>1 DEF Occupied
        <5> QED BY <5>3, <5>4
      <4> QED BY <4>1, <4>2
    <3> QED BY <3>1, <3>2
  <2> QED BY <2>1, <2>2
<1>8. CASE ~ At(l, i, c)
  <2>1. c \in Bitmap(l, i)' <=> c \in Bitmap(l, i)
    BY <1>1, <1>8
  <2>2. Occupied(l + 1, j)' <=> Occupied(l + 1, j)
    <3>1. CASE l + 1 = kNumLevels
      <4>1. j # b
        BY <1>6, <1>8, <3>1
      <4> QED BY <1>3, <3>1, <4>1 DEF Occupied
    <3>2. CASE l + 1 # kNumLevels
      <4>1. l + 1 \in Levels /\ j \in Nodes(l + 1) /\ j # path[l + 1]
        BY <1>5, <1>6, <1>8, <3>2
      <4>2. Bitmap(l + 1, j)' = Bitmap(l + 1, j)
        BY <1>1, <1>2, <4>1
      <4> QED BY <3>2, <4>2 DEF Occupied
    <3> QED BY <3>1, <3>2
  <2> HIDE DEF Occupied
  <2> QED BY <1>5, <2>1, <2>2
<1> QED BY <1>7, <1>8

-----------------------------------------------------------------------------
(* The size counter.                                                       *)

LEMMA EntriesBelowFacts ==
    ASSUME NEW bk \in [Buckets -> Seq(Tags)]
    PROVE  /\ EntriesBelow(bk)[0] = 0
           /\ \A n \in 0 .. kNumBuckets : EntriesBelow(bk)[n] \in Nat
           /\ \A n \in Buckets : EntriesBelow(bk)[n + 1] = EntriesBelow(bk)[n] + Len(bk[n])
<1> USE BucketsAssumption
<1> DEFINE Dom == 0 .. kNumBuckets
           step == [p \in Nat \X Nat |-> p[2] + (IF p[1] \in Buckets THEN Len(bk[p[1]]) ELSE 0)]
<1>1. \A n \in Buckets : Len(bk[n]) \in Nat
  OBVIOUS
<1>2. IsStep(step, Nat) /\ 0 \in Nat
  BY <1>1 DEF IsStep
<1>3. \A n \in Nat, t \in Nat : n \in Buckets => step[<<n, t>>] = t + Len(bk[n])
  BY <1>1
<1> HIDE DEF step
<1>4. PICK f : IsRecursion(f, Nat, 0, step)
  BY <1>2, PrimitiveRecursion
<1>5. f \in [Nat -> Nat] /\ f[0] = 0
  BY <1>4 DEF IsRecursion
<1>6. ASSUME NEW n \in Dom, n # 0 PROVE f[n] = f[n - 1] + Len(bk[n - 1])
  <2>1. n - 1 \in Nat /\ n \in Nat \ {0} /\ f[n - 1] \in Nat /\ n - 1 \in Buckets
    BY <1>5, <1>6 DEF Buckets
  <2>2. f[n] = step[<<n - 1, f[n - 1]>>]
    BY <1>4, <2>1 DEF IsRecursion
  <2> QED BY <1>3, <2>1, <2>2
<1> DEFINE g == [n \in Dom |-> f[n]]
<1>7. g = [n \in Dom |-> IF n = 0 THEN 0 ELSE g[n - 1] + Len(bk[n - 1])]
  <2>1. ASSUME NEW n \in Dom PROVE g[n] = IF n = 0 THEN 0 ELSE g[n - 1] + Len(bk[n - 1])
    <3>1. CASE n = 0
      BY <1>5, <3>1
    <3>2. CASE n # 0
      <4>1. n - 1 \in Dom
        BY <3>2
      <4> QED BY <1>6, <3>2, <4>1
    <3> QED BY <3>1, <3>2
  <2> QED BY <2>1
<1> HIDE DEF g
<1>8. EntriesBelow(bk) = [n \in Dom |-> IF n = 0 THEN 0 ELSE EntriesBelow(bk)[n - 1] + Len(bk[n - 1])]
  BY <1>7 DEF EntriesBelow
<1>9. EntriesBelow(bk)[0] = 0
  BY <1>8
<1>10. ASSUME NEW n \in Buckets PROVE EntriesBelow(bk)[n + 1] = EntriesBelow(bk)[n] + Len(bk[n])
  <2>1. n + 1 \in Dom /\ n + 1 # 0 /\ (n + 1) - 1 = n
    BY DEF Buckets
  <2> QED BY <1>8, <2>1
<1>11. \A n \in Dom : EntriesBelow(bk)[n] \in Nat
  <2> DEFINE S == {n \in Nat : n \in Dom => EntriesBelow(bk)[n] \in Nat}
  <2>1. 0 \in S
    BY <1>9
  <2>2. ASSUME NEW n \in Nat, n \in S PROVE n + 1 \in S
    BY <1>1, <1>10, <2>2 DEF Buckets
  <2>3. Nat \subseteq S
    <3> HIDE DEF S
    <3> QED BY <2>1, <2>2, SetInduction
  <2> QED BY <2>3
<1> QED BY <1>9, <1>10, <1>11

(* Changing the length of one bucket by d changes the sum by d.            *)
LEMMA EntriesChange ==
    ASSUME NEW f \in [Buckets -> Seq(Tags)], NEW g \in [Buckets -> Seq(Tags)],
           NEW b \in Buckets, NEW d \in Int,
           Len(g[b]) = Len(f[b]) + d,
           \A a \in Buckets \ {b} : Len(g[a]) = Len(f[a])
    PROVE  EntriesBelow(g)[kNumBuckets] = EntriesBelow(f)[kNumBuckets] + d
<1> USE BucketsAssumption
<1> DEFINE S == {n \in Nat : n <= kNumBuckets =>
                    EntriesBelow(g)[n] = EntriesBelow(f)[n] + (IF b < n THEN d ELSE 0)}
<1>0. /\ EntriesBelow(f)[0] = 0 /\ EntriesBelow(g)[0] = 0
      /\ \A n \in 0 .. kNumBuckets : EntriesBelow(f)[n] \in Nat /\ EntriesBelow(g)[n] \in Nat
      /\ \A n \in Buckets : /\ EntriesBelow(f)[n + 1] = EntriesBelow(f)[n] + Len(f[n])
                             /\ EntriesBelow(g)[n + 1] = EntriesBelow(g)[n] + Len(g[n])
      /\ \A n \in Buckets : Len(f[n]) \in Nat /\ Len(g[n]) \in Nat
  BY EntriesBelowFacts
<1>1. 0 \in S
  BY <1>0 DEF Buckets
<1>2. ASSUME NEW n \in Nat, n \in S PROVE n + 1 \in S
  <2>1. SUFFICES ASSUME n + 1 <= kNumBuckets
                 PROVE  EntriesBelow(g)[n + 1]
                            = EntriesBelow(f)[n + 1] + (IF b < n + 1 THEN d ELSE 0)
    BY DEF S
  <2>2. n \in Buckets /\ n \in 0 .. kNumBuckets
    BY <2>1 DEF Buckets
  <2>3. EntriesBelow(g)[n] = EntriesBelow(f)[n] + (IF b < n THEN d ELSE 0)
    BY <1>2, <2>1
  <2>4. b \in Nat /\ Len(g[n]) = Len(f[n]) + (IF n = b THEN d ELSE 0)
    BY <1>0, <2>2 DEF Buckets
  <2>5. /\ EntriesBelow(f)[n] \in Nat /\ Len(f[n]) \in Nat
        /\ EntriesBelow(f)[n + 1] = EntriesBelow(f)[n] + Len(f[n])
        /\ EntriesBelow(g)[n + 1] = EntriesBelow(g)[n] + Len(g[n])
    BY <1>0, <2>2
  <2>6. CASE n = b
    <3>1. ~ (b < n) /\ b < n + 1
      BY <2>4, <2>6
    <3> QED BY <2>3, <2>4, <2>5, <2>6, <3>1
  <2>7. CASE n # b
    <3>1. b < n <=> b < n + 1
      BY <2>4, <2>7
    <3>2. Len(g[n]) = Len(f[n])
      BY <2>4, <2>5, <2>7
    <3> QED BY <2>3, <2>5, <3>1, <3>2
  <2> QED BY <2>6, <2>7
<1>3. Nat \subseteq S
  <2> HIDE DEF S
  <2> QED BY <1>1, <1>2, SetInduction
<1>4. kNumBuckets \in S /\ b < kNumBuckets
  BY <1>3 DEF Buckets
<1> QED BY <1>4

(* The sum is positive when a bucket is in use, and zero when none is.     *)
LEMMA EntriesZero ==
    ASSUME NEW f \in [Buckets -> Seq(Tags)]
    PROVE  EntriesBelow(f)[kNumBuckets] = 0 <=> \A b \in Buckets : f[b] = <<>>
<1> USE BucketsAssumption
<1> DEFINE S == {n \in Nat : n <= kNumBuckets =>
                    (EntriesBelow(f)[n] = 0 <=> \A b \in 0 .. (n - 1) : f[b] = <<>>)}
<1>1. 0 \in S
  BY EntriesBelowFacts
<1>2. ASSUME NEW n \in Nat, n \in S PROVE n + 1 \in S
  <2>1. SUFFICES ASSUME n + 1 <= kNumBuckets
                 PROVE  EntriesBelow(f)[n + 1] = 0 <=> \A b \in 0 .. n : f[b] = <<>>
    BY DEF S
  <2>2. n \in Buckets /\ n \in 0 .. kNumBuckets
    BY <2>1 DEF Buckets
  <2>3. /\ EntriesBelow(f)[n] \in Nat
        /\ EntriesBelow(f)[n + 1] = EntriesBelow(f)[n] + Len(f[n])
        /\ EntriesBelow(f)[n] = 0 <=> \A b \in 0 .. (n - 1) : f[b] = <<>>
    BY <1>2, <2>1, <2>2, EntriesBelowFacts
  <2>4. Len(f[n]) \in Nat /\ (Len(f[n]) = 0 <=> f[n] = <<>>)
    BY <2>2
  <2>5. EntriesBelow(f)[n + 1] = 0 <=> EntriesBelow(f)[n] = 0 /\ Len(f[n]) = 0
    BY <2>3, <2>4
  <2>6. (\A b \in 0 .. n : f[b] = <<>>) <=> (\A b \in 0 .. (n - 1) : f[b] = <<>>) /\ f[n] = <<>>
    <3>1. \A b : b \in 0 .. n <=> b \in 0 .. (n - 1) \/ b = n
      OBVIOUS
    <3> QED BY <3>1
  <2> QED BY <2>3, <2>4, <2>5, <2>6
<1>3. Nat \subseteq S
  <2> HIDE DEF S
  <2> QED BY <1>1, <1>2, SetInduction
<1> QED BY <1>3 DEF Buckets

-----------------------------------------------------------------------------
(* The theorems.                                                           *)

LEMMA BucketIdxType == \A w \in Weights : BucketIdx(w) \in Nat
<1> SUFFICES ASSUME NEW w \in Weights PROVE BucketIdx(w) \in Nat
  OBVIOUS
<1>1. w.numerator \in Nat /\ w.denominator \in Nat \ {0}
  BY WeightAssumption
<1>2. w.numerator * kScaleFactor \in Nat
  BY <1>1, WeightAssumption
<1>3. (w.numerator * kScaleFactor) % WeightMod \in Nat
  BY <1>2, WeightAssumption
<1> QED BY <1>1, <1>3 DEF BucketIdx

(* The inductive invariant: neither the tree nor the counter is inductive  *)
(* alone, because the walk of a pop is only defined by a consistent tree.  *)
IInv == TypeOK /\ TreeConsistent /\ SizeCountsEntries

LEMMA InitIInv == Init => IInv
<1> SUFFICES ASSUME Init PROVE IInv
  OBVIOUS
<1> USE NumLevelsFacts, BucketsAssumption DEF Init
<1>1. TypeOK
  BY DEF TypeOK
<1>2. buckets \in [Buckets -> Seq(Tags)]
  BY <1>1 DEF TypeOK
<1>3. TreeConsistent
  <2>1. ASSUME NEW l \in Levels, NEW i \in Nodes(l) PROVE Bitmap(l, i) = {}
    BY BitmapIdxInjective DEF Bitmap
  <2>2. SUFFICES ASSUME NEW l \in Levels, NEW i \in Nodes(l), NEW c \in Bits
                 PROVE  ~ Occupied(l + 1, i * WordBits + c)
    BY <2>1 DEF TreeConsistent, Nodes
  <2> DEFINE j == i * WordBits + c
  <2>3. l \in Nat /\ i \in Nat /\ i < LevelWidth[l] /\ LevelWidth[l] \in Nat
    BY LevelWidthFacts DEF Levels, Nodes
  <2>4. j \in Nat /\ j < LevelWidth[l + 1] /\ LevelWidth[l + 1] \in Nat
    BY <2>3, ChildFacts, LevelWidthFacts
  <2>5. CASE l + 1 = kNumLevels
    BY <2>5 DEF Occupied
  <2>6. CASE l + 1 # kNumLevels
    <3> HIDE DEF j
    <3>1. l + 1 \in Levels /\ j \in Nodes(l + 1)
      BY <2>3, <2>4, <2>6 DEF Levels, Nodes
    <3> QED BY <2>1, <2>6, <3>1 DEF Occupied, j
  <2> QED BY <2>5, <2>6
<1>4. SizeCountsEntries
  BY <1>2, EntriesZero DEF SizeCountsEntries
<1> QED BY <1>1, <1>3, <1>4 DEF IInv

(* What a push does, in terms of the buckets alone.                        *)
LEMMA PushStep ==
    ASSUME IInv, NEW tag \in Tags, NEW w \in Weights, Push(tag, w)
    PROVE  /\ BucketIdx(w) \in Buckets
           /\ buckets' = [buckets EXCEPT ![BucketIdx(w)] = Append(@, tag)]
           /\ UNCHANGED ret
           /\ IInv'
<1> DEFINE b == BucketIdx(w)
<1>1. b \in Buckets
  BY BucketIdxType, BucketsAssumption DEF Push, Buckets
<1>2. /\ buckets' = [buckets EXCEPT ![b] = Append(@, tag)]
      /\ bitmaps' = BitmapsAfterPush(b)
      /\ size' = size + 1
      /\ UNCHANGED ret
  BY DEF Push
<1> HIDE DEF b
<1>3. BitmapsType /\ BucketsType /\ TreeConsistent
  BY DEF IInv, TypeOK, BitmapsType, BucketsType
<1>4. TreeConsistent'
  BY <1>1, <1>2, <1>3, PushKeepsTree
<1>5. /\ buckets' \in [Buckets -> Seq(Tags)]
      /\ Len(buckets'[b]) = Len(buckets[b]) + 1
      /\ \A a \in Buckets \ {b} : Len(buckets'[a]) = Len(buckets[a])
  BY <1>1, <1>2, <1>3 DEF BucketsType
<1>6. TypeOK'
  BY <1>1, <1>2, <1>3, <1>5, PushBitmaps DEF IInv, TypeOK
<1>7. SizeCountsEntries'
  <2>1. ASSUME NEW g \in [Buckets -> Seq(Tags)],
               Len(g[b]) = Len(buckets[b]) + 1,
               \A a \in Buckets \ {b} : Len(g[a]) = Len(buckets[a])
        PROVE  EntriesBelow(g)[kNumBuckets] = EntriesBelow(buckets)[kNumBuckets] + 1
    <3>1. buckets \in [Buckets -> Seq(Tags)] /\ 1 \in Int /\ b \in Buckets
      BY <1>1, <1>3 DEF BucketsType
    <3> QED BY ONLY <2>1, <3>1, EntriesChange
  <2>2. EntriesBelow(buckets')[kNumBuckets] = EntriesBelow(buckets)[kNumBuckets] + 1
    BY <2>1, <1>5
  <2> QED BY <1>2, <2>2 DEF IInv, SizeCountsEntries
<1> QED BY <1>1, <1>2, <1>4, <1>6, <1>7 DEF IInv, b

(* While size_ is not zero some bucket is in use.                          *)
LEMMA SomeBucketInUse ==
    ASSUME IInv, size # 0
    PROVE  \E b \in Buckets : buckets[b] # <<>>
BY EntriesZero DEF IInv, TypeOK, SizeCountsEntries

(* What a pop does, in terms of the buckets alone.                         *)
LEMMA PopStep ==
    ASSUME IInv, NEW isPopMin \in BOOLEAN, Pop(isPopMin)
    PROVE  /\ IInv'
           /\ \E b \in Buckets :
                /\ buckets[b] # <<>>
                /\ \A a \in Buckets : buckets[a] # <<>> => IF isPopMin THEN b <= a ELSE a <= b
                /\ ret' = <<isPopMin, Head(buckets[b])>>
                /\ buckets' = [buckets EXCEPT ![b] = Tail(@)]
<1> DEFINE path == Walk(isPopMin)
           b == path[kNumLevels]
<1>1. /\ size # 0
      /\ ret' = <<isPopMin, Head(buckets[b])>>
      /\ buckets' = [buckets EXCEPT ![b] = Tail(@)]
      /\ bitmaps' = BitmapsAfterPop(path)
      /\ size' = size - 1
  BY DEF Pop
<1>2. BitmapsType /\ BucketsType /\ TreeConsistent
  BY DEF IInv, TypeOK, BitmapsType, BucketsType
<1>3. PICK b0 \in Buckets : buckets[b0] # <<>>
  BY <1>1, SomeBucketInUse
<1>4. /\ WalkAsserts(isPopMin)
      /\ \A l \in Levels : path[l + 1] % WordBits \in Bitmap(l, path[l])
      /\ \A a \in Buckets : buckets[a] # <<>> => IF isPopMin THEN b <= a ELSE a <= b
  BY <1>2, <1>3, WalkEndsInExtremum
<1>5. b \in Buckets /\ buckets[b] # <<>>
  BY <1>4 DEF WalkAsserts
<1>6. \A l \in Levels : /\ path[l] \in Nodes(l)
                        /\ path[l + 1] \in Nat
                        /\ path[l + 1] \div WordBits = path[l]
  <2> SUFFICES ASSUME NEW l \in Levels
               PROVE  /\ path[l] \in Nodes(l)
                      /\ path[l + 1] \in Nat
                      /\ path[l + 1] \div WordBits = path[l]
    OBVIOUS
  <2>1. /\ path[l] \in Nodes(l)
        /\ path[l + 1] = path[l] * WordBits + FindFirstSet(isPopMin, Bitmap(l, path[l]))
    BY <1>2, WalkFacts
  <2>2. FindFirstSet(isPopMin, Bitmap(l, path[l])) \in Bits
    BY <1>2, <2>1, BitmapType, FindFirstSetFacts
  <2>3. path[l] \in Nat
    BY <2>1 DEF Nodes
  <2> HIDE DEF path
  <2> QED BY <2>1, <2>2, <2>3, ChildFacts
<1> HIDE DEF path, b
<1>7. path[kNumLevels] = b
  BY DEF b
<1>8. TreeConsistent'
  BY <1>1, <1>2, <1>4, <1>5, <1>6, <1>7, PopKeepsTree
<1>9. /\ buckets' \in [Buckets -> Seq(Tags)]
      /\ Len(buckets'[b]) = Len(buckets[b]) + (-1)
      /\ \A a \in Buckets \ {b} : Len(buckets'[a]) = Len(buckets[a])
      /\ Head(buckets[b]) \in Tags
  BY <1>1, <1>2, <1>5 DEF BucketsType
<1>10. TypeOK'
  <2>1. bitmaps' \in [0 .. (kNumBitmaps - 1) -> SUBSET Bits]
    BY <1>1, <1>2, <1>6, PopBitmaps
  <2>2. size' \in Nat
    BY <1>1 DEF IInv, TypeOK
  <2> QED BY <1>1, <1>9, <2>1, <2>2 DEF TypeOK
<1>11. SizeCountsEntries'
  <2>1. ASSUME NEW g \in [Buckets -> Seq(Tags)],
               Len(g[b]) = Len(buckets[b]) + (-1),
               \A a \in Buckets \ {b} : Len(g[a]) = Len(buckets[a])
        PROVE  EntriesBelow(g)[kNumBuckets] = EntriesBelow(buckets)[kNumBuckets] + (-1)
    <3>1. buckets \in [Buckets -> Seq(Tags)] /\ (-1) \in Int /\ b \in Buckets
      BY <1>2, <1>5 DEF BucketsType
    <3> QED BY ONLY <2>1, <3>1, EntriesChange
  <2>2. EntriesBelow(buckets')[kNumBuckets] = EntriesBelow(buckets)[kNumBuckets] + (-1)
    BY <2>1, <1>9
  <2>3. EntriesBelow(buckets)[kNumBuckets] = size /\ size \in Nat
    BY DEF IInv, SizeCountsEntries, TypeOK
  <2> QED BY <1>1, <2>2, <2>3 DEF SizeCountsEntries
<1> QED BY <1>1, <1>4, <1>5, <1>8, <1>10, <1>11 DEF IInv

LEMMA NextIInv == IInv /\ [Next]_vars => IInv'
<1> SUFFICES ASSUME IInv, [Next]_vars PROVE IInv'
  OBVIOUS
<1>1. ASSUME NEW tag \in Tags, NEW w \in Weights, Push(tag, w) PROVE IInv'
  BY <1>1, PushStep
<1>2. CASE popMin
  BY <1>2, PopStep DEF popMin
<1>3. CASE popMax
  BY <1>3, PopStep DEF popMax
<1>4. ASSUME UNCHANGED <<bitmaps, buckets, size>>, ret' \in (BOOLEAN \X Tags) \cup {NoTag, Threw}
      PROVE  IInv'
  BY <1>4 DEF IInv, TypeOK, TreeConsistent, SizeCountsEntries, Occupied, Bitmap
<1>5. CASE PopEmpty
  BY <1>4, <1>5 DEF PopEmpty
<1>6. CASE UNCHANGED vars
  BY <1>4, <1>6 DEF vars, IInv, TypeOK
<1> QED BY <1>1, <1>2, <1>3, <1>5, <1>6 DEF Next

LEMMA SpecIInv == Spec => []IInv
BY InitIInv, NextIInv, PTL DEF Spec

(* The state of the queue keeps its type, for every bitmap width and       *)
(* number of buckets: bitmaps of WordBits bits, buckets of pushed tags, and *)
(* a tag or the exception as the result of a pop.                          *)
THEOREM TypeCorrect == Spec => []TypeOK
BY SpecIInv, PTL DEF IInv

(* A bit of the bitmap tree is set exactly when there is an entry below    *)
(* it, although both update loops stop early.                              *)
THEOREM TreeCorrect == Spec => []TreeConsistent
BY SpecIInv, PTL DEF IInv

(* size_ is the number of entries.                                         *)
THEOREM SizeCorrect == Spec => []SizeCountsEntries
BY SpecIInv, PTL DEF IInv

(* The assertions of pop_ never fail.                                      *)
THEOREM AssertsCorrect == Spec => []AssertsHold
<1>1. IInv => AssertsHold
  <2> SUFFICES ASSUME IInv, size # 0 PROVE WalkAsserts(TRUE) /\ WalkAsserts(FALSE)
    BY DEF AssertsHold
  <2>1. PICK b0 \in Buckets : buckets[b0] # <<>>
    BY SomeBucketInUse
  <2> QED BY <2>1, WalkEndsInExtremum DEF IInv, TypeOK, BitmapsType
<1> QED BY <1>1, SpecIInv, PTL

(* The bitmaps are invisible: the queue implements the array of FIFO       *)
(* buckets whose pops take the head of the lowest or the highest bucket in *)
(* use and throw only when there is none.                                  *)
THEOREM Refinement == Spec => RefinesBucketQueue
<1>1. Init => BQ!BQInit
  BY DEF Init, BQ!BQInit
<1>2. IInv /\ [Next]_vars => [BQ!BQNext]_<<buckets, ret>>
  <2> SUFFICES ASSUME IInv, [Next]_vars PROVE [BQ!BQNext]_<<buckets, ret>>
    OBVIOUS
  <2>1. ASSUME NEW tag \in Tags, NEW w \in Weights, Push(tag, w) PROVE BQ!BQNext
    <3>1. BQ!BQPush(tag, BucketIdx(w)) /\ BucketIdx(w) \in Buckets
      BY <2>1, PushStep DEF BQ!BQPush
    <3> QED BY <3>1 DEF BQ!BQNext
  <2>2. CASE popMin
    <3>1. BQ!BQPopMin
      BY <2>2, PopStep DEF popMin, BQ!BQPopMin, BQ!BQPopFrom, BQ!NonEmpty
    <3> QED BY <3>1 DEF BQ!BQNext
  <2>3. CASE popMax
    <3>1. BQ!BQPopMax
      BY <2>3, PopStep DEF popMax, BQ!BQPopMax, BQ!BQPopFrom, BQ!NonEmpty
    <3> QED BY <3>1 DEF BQ!BQNext
  <2>4. CASE PopEmpty
    <3>1. \A b \in Buckets : buckets[b] = <<>>
      BY <2>4, EntriesZero DEF PopEmpty, IInv, TypeOK, SizeCountsEntries
    <3>2. BQ!BQThrow
      BY <2>4, <3>1 DEF PopEmpty, BQ!BQThrow, BQ!NonEmpty
    <3> QED BY <3>2 DEF BQ!BQNext
  <2>5. CASE UNCHANGED vars
    BY <2>5 DEF vars
  <2> QED BY <2>1, <2>2, <2>3, <2>4, <2>5 DEF Next
<1> QED BY <1>1, <1>2, SpecIInv, PTL DEF Spec, RefinesBucketQueue, BQ!BQSpec, BQ!bqVars

=============================================================================
