-------------------------- MODULE BenchServerProofs --------------------------
(***************************************************************************)
(* What the benchmark server keeps, for every size of burst, queue, rings  *)
(* and pool, and every set of packets: mbufs are conserved and within the  *)
(* budget, and the policies that drop by weight drop the right ones.       *)
(***************************************************************************)
EXTENDS BenchServer, NatRecursion, SequenceTheorems

-----------------------------------------------------------------------------
(* Weights and buckets.                                                    *)

LEMMA PacketFacts ==
    ASSUME NEW p \in Packets
    PROVE  p.jsize \in Nat /\ p.psize \in Nat \ {0}
BY PacketAssumption

LEMMA BucketType ==
    ASSUME NEW p \in Packets
    PROVE  BucketIdx(p) \in Nat
<1> DEFINE n == p.jsize * kScaleFactor
<1>1. n \in Nat /\ p.psize \in Nat \ {0}
  BY PacketFacts, ScaleAssumption
<1> HIDE DEF n
<1>2. n % WeightMod \in Nat
  BY <1>1, ScaleAssumption
<1>3. \A a \in Nat, b \in Nat \ {0} : a \div b \in Nat
  OBVIOUS
<1> QED BY <1>1, <1>2, <1>3 DEF BucketIdx, n

(* Cross products order the weights: not to be lighter is transitive.      *)
LEMMA CrossMultiply ==
    ASSUME NEW a \in Nat, NEW b \in Nat, NEW c \in Nat,
           NEW x \in Nat \ {0}, NEW y \in Nat \ {0}, NEW z \in Nat \ {0},
           ~ (a * y < b * x), ~ (b * z < c * y)
    PROVE  ~ (a * z < c * x)
<1>1. (b * x) * z <= (a * y) * z
  <2>1. \A m, n \in Nat, k \in Nat : m <= n => m * k <= n * k
    OBVIOUS
  <2>2. b * x \in Nat /\ a * y \in Nat /\ b * x <= a * y
    OBVIOUS
  <2> QED BY <2>1, <2>2
<1>2. (c * y) * x <= (b * z) * x
  <2>1. \A m, n \in Nat, k \in Nat : m <= n => m * k <= n * k
    OBVIOUS
  <2>2. c * y \in Nat /\ b * z \in Nat /\ c * y <= b * z
    OBVIOUS
  <2> QED BY <2>1, <2>2
<1>3. (b * x) * z = (b * z) * x /\ (c * y) * x = (c * x) * y /\ (a * y) * z = (a * z) * y
  OBVIOUS
<1>4. (c * x) * y <= (a * z) * y
  <2>1. \A k, m, n \in Nat : k <= m /\ m <= n => k <= n
    OBVIOUS
  <2>2. (b * z) * x \in Nat /\ (c * x) * y \in Nat /\ (a * z) * y \in Nat
    OBVIOUS
  <2> QED BY <1>1, <1>2, <1>3, <2>1, <2>2
<1>5. \A m, n \in Nat, k \in Nat \ {0} : m * k <= n * k => ~ (n < m)
  <2>1. ASSUME NEW m \in Nat, NEW n \in Nat, NEW k \in Nat \ {0}, n < m
        PROVE  ~ (m * k <= n * k)
    <3>1. PICK e \in Nat \ {0} : m = n + e
      <4>1. m - n \in Nat \ {0} /\ m = n + (m - n)
        BY <2>1
      <4> QED BY <4>1
    <3>2. m * k = n * k + e * k
      BY <3>1
    <3>3. e * k \in Nat \ {0} /\ n * k \in Nat
      OBVIOUS
    <3> QED BY <3>2, <3>3
  <2> QED BY <2>1
<1>6. c * x \in Nat /\ a * z \in Nat
  OBVIOUS
<1> QED BY <1>4, <1>5, <1>6

LEMMA NotLighterTransitive ==
    ASSUME NEW p \in Packets, NEW q \in Packets, NEW r \in Packets,
           ~ Lighter(p, q), ~ Lighter(q, r)
    PROVE  ~ Lighter(p, r)
BY PacketFacts, CrossMultiply DEF Lighter

(* A lighter packet is in no higher bucket, unless the other has wrapped.  *)
LEMMA TruncationKeepsOrder ==
    ASSUME NEW p \in Packets, NEW q \in Packets, Lighter(p, q),
           q.jsize * kScaleFactor < WeightMod
    PROVE  BucketIdx(p) <= BucketIdx(q)
<1> DEFINE m == (p.jsize * kScaleFactor) % WeightMod
           n == q.jsize * kScaleFactor
           x == p.psize
           y == q.psize
           s == m \div x
           t == n \div y
<1>1. /\ p.jsize \in Nat /\ q.jsize \in Nat /\ x \in Nat \ {0} /\ y \in Nat \ {0}
      /\ kScaleFactor \in Nat /\ WeightMod \in Nat \ {0} /\ p.jsize * kScaleFactor \in Nat
      /\ n \in Nat
  BY PacketFacts, ScaleAssumption
<1>2. m \in Nat /\ m <= p.jsize * kScaleFactor /\ n % WeightMod = n
  <2>1. \A a \in Nat, b \in Nat \ {0} : a % b \in Nat /\ a % b <= a /\ (a < b => a % b = a)
    OBVIOUS
  <2> QED BY <1>1, <2>1
<1>3. BucketIdx(p) = s /\ BucketIdx(q) = t
  BY <1>2 DEF BucketIdx
<1>4. m * y <= n * x
  <2>1. p.jsize * y \in Nat /\ q.jsize * x \in Nat /\ p.jsize * y <= q.jsize * x
    BY <1>1 DEF Lighter
  <2>2. \A a, b, c \in Nat : a <= b => a * c <= b * c
    OBVIOUS
  <2>3. (p.jsize * y) * kScaleFactor <= (q.jsize * x) * kScaleFactor
    BY <1>1, <2>1, <2>2
  <2>4. m * y <= (p.jsize * kScaleFactor) * y
    BY <1>1, <1>2, <2>2
  <2>5. /\ (p.jsize * kScaleFactor) * y = (p.jsize * y) * kScaleFactor
        /\ (q.jsize * x) * kScaleFactor = n * x
    BY <1>1
  <2>6. m * y \in Nat /\ (p.jsize * y) * kScaleFactor \in Nat /\ n * x \in Nat
    BY <1>1, <1>2
  <2>7. \A a, b, c \in Nat : a <= b /\ b <= c => a <= c
    OBVIOUS
  <2> QED BY <2>3, <2>4, <2>5, <2>6, <2>7
<1> HIDE DEF m, n, x, y
<1>5. s \in Nat /\ t \in Nat /\ s * x <= m /\ n < (t + 1) * y
  BY <1>1, <1>2
<1> HIDE DEF s, t
<1>6. SUFFICES ASSUME t < s PROVE FALSE
  BY <1>3, <1>5
(* With n / y < t + 1 <= s <= m / x, the weight of q would be the smaller.  *)
<1>7. (t + 1) * x <= m
  <2>1. \A a, b, c \in Nat : a <= b => a * c <= b * c
    OBVIOUS
  <2>2. t + 1 \in Nat /\ t + 1 <= s /\ x \in Nat
    BY <1>1, <1>5, <1>6
  <2>3. (t + 1) * x <= s * x
    BY <1>5, <2>1, <2>2
  <2>4. (t + 1) * x \in Nat /\ s * x \in Nat
    BY <1>1, <1>5
  <2> QED BY <1>2, <1>5, <2>3, <2>4
<1>8. ((t + 1) * x) * y <= m * y
  <2>1. \A a, b, c \in Nat : a <= b => a * c <= b * c
    OBVIOUS
  <2>2. (t + 1) * x \in Nat
    BY <1>1, <1>5
  <2> QED BY <1>1, <1>2, <1>7, <2>1, <2>2
<1>9. n * x < ((t + 1) * y) * x
  <2>1. \A a, b \in Nat, c \in Nat \ {0} : a < b => a * c < b * c
    <3>1. ASSUME NEW a \in Nat, NEW b \in Nat, NEW c \in Nat \ {0}, a < b PROVE a * c < b * c
      <4>1. PICK e \in Nat \ {0} : b = a + e
        <5>1. b - a \in Nat \ {0} /\ b = a + (b - a)
          BY <3>1
        <5> QED BY <5>1
      <4>2. b * c = a * c + e * c
        BY <4>1
      <4>3. e * c \in Nat \ {0} /\ a * c \in Nat
        OBVIOUS
      <4> QED BY <4>2, <4>3
    <3> QED BY <3>1
  <2>2. (t + 1) * y \in Nat
    BY <1>1, <1>5
  <2> QED BY <1>1, <1>5, <2>1, <2>2
<1>10. ((t + 1) * x) * y = ((t + 1) * y) * x
  BY <1>1, <1>5
<1>11. n * x \in Nat /\ m * y \in Nat /\ ((t + 1) * y) * x \in Nat
  BY <1>1, <1>2, <1>5
<1> QED BY <1>4, <1>8, <1>9, <1>10, <1>11

-----------------------------------------------------------------------------
(* The packet queue.                                                       *)

(* Where place k of a queue was before place i was removed.                *)
Behind(i, k) == IF k < i THEN k ELSE k + 1

LEMMA RemoveAtFacts ==
    ASSUME NEW q \in Seq(Packets), NEW i \in DOMAIN q
    PROVE  /\ RemoveAt(q, i) \in Seq(Packets)
           /\ Len(RemoveAt(q, i)) = Len(q) - 1 /\ Len(q) > 0
           /\ \A k \in DOMAIN RemoveAt(q, i) :
                /\ RemoveAt(q, i)[k] = q[Behind(i, k)]
                /\ Behind(i, k) \in DOMAIN q \ {i}
<1> DEFINE n == Len(q)
           s == SubSeq(q, 1, i - 1)
           t == SubSeq(q, i + 1, n)
<1>1. n \in Nat /\ DOMAIN q = 1 .. n /\ i \in 1 .. n /\ n > 0
  BY LenProperties
<1>2. \A k \in 1 .. n : q[k] \in Packets
  BY <1>1, ElementOfSeq
<1>3. /\ s \in Seq(Packets) /\ Len(s) = i - 1
      /\ \A k \in 1 .. (i - 1) : s[k] = q[k]
  <2>1. 1 \in Int /\ i - 1 \in Int /\ \A k \in 1 .. (i - 1) : q[k] \in Packets
    BY <1>1, <1>2
  <2>2. /\ SubSeq(q, 1, i - 1) \in Seq(Packets)
        /\ Len(SubSeq(q, 1, i - 1)) = IF 1 <= i - 1 THEN (i - 1) - 1 + 1 ELSE 0
        /\ \A k \in 1 .. (i - 1) - 1 + 1 : SubSeq(q, 1, i - 1)[k] = q[1 + k - 1]
    BY <2>1, SubSeqProperties
  <2> QED BY <1>1, <2>2
<1>4. /\ t \in Seq(Packets) /\ Len(t) = n - i
      /\ \A k \in 1 .. (n - i) : t[k] = q[i + k]
  <2>1. i + 1 \in Int /\ n \in Int /\ \A k \in (i + 1) .. n : q[k] \in Packets
    BY <1>1, <1>2
  <2>2. /\ SubSeq(q, i + 1, n) \in Seq(Packets)
        /\ Len(SubSeq(q, i + 1, n)) = IF i + 1 <= n THEN n - (i + 1) + 1 ELSE 0
        /\ \A k \in 1 .. n - (i + 1) + 1 : SubSeq(q, i + 1, n)[k] = q[(i + 1) + k - 1]
    <3> HIDE DEF n
    <3> QED BY <2>1, SubSeqProperties
  <2> QED BY <1>1, <2>2
<1>5. RemoveAt(q, i) = s \o t
  BY DEF RemoveAt
<1> HIDE DEF n, s, t
<1>6. /\ s \o t \in Seq(Packets) /\ Len(s \o t) = Len(s) + Len(t)
      /\ \A k \in 1 .. (Len(s) + Len(t)) : (s \o t)[k] = IF k <= Len(s) THEN s[k] ELSE t[k - Len(s)]
  BY <1>3, <1>4, ConcatProperties
<1>7. Len(s \o t) = n - 1 /\ DOMAIN (s \o t) = 1 .. (n - 1)
  BY <1>1, <1>3, <1>4, <1>6, LenProperties
<1>8. ASSUME NEW k \in 1 .. (n - 1)
      PROVE  (s \o t)[k] = q[Behind(i, k)] /\ Behind(i, k) \in (1 .. n) \ {i}
  <2>1. CASE k < i
    <3>1. k \in 1 .. (i - 1) /\ k <= Len(s) /\ k \in 1 .. (Len(s) + Len(t))
      BY <1>1, <1>3, <1>4, <2>1
    <3>2. (s \o t)[k] = q[k] /\ Behind(i, k) = k
      BY <1>3, <1>6, <2>1, <3>1 DEF Behind
    <3> QED BY <1>1, <2>1, <3>2
  <2>2. CASE ~ (k < i)
    <3>1. ~ (k <= Len(s)) /\ k \in 1 .. (Len(s) + Len(t)) /\ k - (i - 1) \in 1 .. (n - i)
      BY <1>1, <1>3, <1>4, <2>2
    <3>2. (s \o t)[k] = t[k - (i - 1)] /\ t[k - (i - 1)] = q[i + (k - (i - 1))]
      BY <1>3, <1>4, <1>6, <3>1
    <3>3. i + (k - (i - 1)) = k + 1
      BY <1>1
    <3> QED BY <1>1, <2>2, <3>2, <3>3 DEF Behind
  <2> QED BY <2>1, <2>2
<1> QED BY <1>1, <1>5, <1>6, <1>7, <1>8 DEF n

(* A queue of hffs with packets in it has a lowest and a highest bucket.   *)
LEMMA ExtremeBuckets ==
    ASSUME NEW q \in Seq(Packets), q # <<>>, policy = "wsjf_hffs"
    PROVE  Foremost(q) # {} /\ Hindmost(q) # {}
<1> DEFINE B == {BucketIdx(q[i]) : i \in DOMAIN q}
<1>1. Len(q) \in Nat \ {0} /\ DOMAIN q = 1 .. Len(q)
  BY LenProperties, EmptySeq
<1>2. \A i \in DOMAIN q : q[i] \in Packets /\ BucketIdx(q[i]) \in Nat
  BY <1>1, ElementOfSeq, BucketType
<1>3. B \subseteq Nat /\ B # {}
  <2>1. 1 \in DOMAIN q
    BY <1>1
  <2> QED BY <1>2, <2>1
<1>4. IsFiniteSet(B)
  <2> DEFINE f == [i \in DOMAIN q |-> BucketIdx(q[i])]
  <2>1. IsFiniteSet(DOMAIN q)
    BY <1>1, FS_Interval
  <2>2. f \in Surjection(DOMAIN q, B)
    BY DEF Surjection
  <2> HIDE DEF f, B
  <2> QED BY <2>1, <2>2, FS_Surjection
<1>5. PICK low \in DOMAIN q : \A i \in DOMAIN q : BucketIdx(q[low]) <= BucketIdx(q[i])
  <2>1. \E n \in B : \A m \in B : n <= m
    <3> HIDE DEF B
    <3> QED BY <1>3, LeastElement
  <2> QED BY <2>1
<1>6. PICK high \in DOMAIN q : \A i \in DOMAIN q : BucketIdx(q[i]) <= BucketIdx(q[high])
  <2>1. \E n \in B : \A m \in B : m <= n
    <3> HIDE DEF B
    <3> QED BY <1>3, <1>4, GreatestElement
  <2> QED BY <2>1
<1>7. low \in Foremost(q)
  BY <1>2, <1>5 DEF Foremost, Before
<1>8. high \in Hindmost(q)
  BY <1>2, <1>6 DEF Hindmost, Before
<1> QED BY <1>7, <1>8

(* A pop takes out one packet.                                             *)
LEMMA PopMinFacts ==
    ASSUME NEW q \in Seq(Packets), q # <<>>, NEW t \in PopMin(q)
    PROVE  t \in Seq(Packets) /\ Len(t) = Len(q) - 1 /\ Len(q) > 0
<1>1. PICK i \in Choice(Foremost(q)) : t = RemoveAt(q, i)
  BY DEF PopMin
<1>2. Foremost(q) \subseteq DOMAIN q /\ DOMAIN q \subseteq Nat
  BY LenProperties DEF Foremost
<1>3. i \in DOMAIN q
  <2>1. CASE policy = "wsjf_hffs"
    <3>1. Foremost(q) # {} /\ Foremost(q) \subseteq Nat
      BY <1>2, <2>1, ExtremeBuckets
    <3> QED BY <1>2, <2>1, <3>1, MinFacts DEF Choice
  <2>2. CASE policy # "wsjf_hffs"
    BY <1>2, <2>2 DEF Choice
  <2> QED BY <2>1, <2>2
<1> QED BY <1>1, <1>3, RemoveAtFacts

(* What a pop at the other end takes goes before no other, and is the       *)
(* oldest of its bucket.                                                   *)
LEMMA PopMaxFacts ==
    ASSUME NEW q \in Seq(Packets), q # <<>>, NEW t \in PopMax(q)
    PROVE  \E i \in DOMAIN q :
             /\ t = RemoveAt(q, i)
             /\ \A k \in DOMAIN q : ~ Before(q[i], q[k])
             /\ policy = "wsjf_hffs" =>
                    \A k \in DOMAIN q : BucketIdx(q[i]) = BucketIdx(q[k]) => i <= k
<1>1. PICK i \in Choice(Hindmost(q)) : t = RemoveAt(q, i)
  BY DEF PopMax
<1>2. Hindmost(q) \subseteq DOMAIN q /\ DOMAIN q \subseteq Nat
  BY LenProperties DEF Hindmost
<1>3. CASE policy = "wsjf_hffs"
  <2>1. Hindmost(q) # {} /\ Hindmost(q) \subseteq Nat
    BY <1>2, <1>3, ExtremeBuckets
  <2>2. i \in Hindmost(q) /\ \A k \in Hindmost(q) : i <= k
    BY <1>3, <2>1, MinFacts DEF Choice
  <2>3. ASSUME NEW k \in DOMAIN q, BucketIdx(q[i]) = BucketIdx(q[k]) PROVE i <= k
    <3>1. k \in Hindmost(q)
      BY <1>3, <2>2, <2>3 DEF Hindmost, Before
    <3> QED BY <2>2, <3>1
  <2>4. i \in DOMAIN q /\ \A k \in DOMAIN q : ~ Before(q[i], q[k])
    BY <2>2 DEF Hindmost
  <2> QED BY <1>1, <2>3, <2>4
<1>4. CASE policy # "wsjf_hffs"
  BY <1>1, <1>4 DEF Choice, Hindmost
<1> QED BY <1>3, <1>4

-----------------------------------------------------------------------------
(* Bursts.                                                                 *)

LEMMA BurstFacts ==
    /\ \A b \in Bursts : b \in Seq(Packets) /\ Len(b) \in 0 .. BURST_SIZE
    /\ \A b \in Seq(Packets) : Len(b) <= BURST_SIZE => b \in Bursts
<1>1. ASSUME NEW b \in Bursts PROVE b \in Seq(Packets) /\ Len(b) \in 0 .. BURST_SIZE
  <2>1. PICK n \in 0 .. BURST_SIZE : b \in [1 .. n -> Packets]
    BY DEF Bursts
  <2> QED BY <2>1, SizeAssumption
<1>2. ASSUME NEW b \in Seq(Packets), Len(b) <= BURST_SIZE PROVE b \in Bursts
  <2>1. Len(b) \in 0 .. BURST_SIZE /\ b \in [1 .. Len(b) -> Packets]
    BY <1>2, LenProperties, SizeAssumption
  <2> QED BY <2>1 DEF Bursts
<1> QED BY <1>1, <1>2

LEMMA EmptyBurst == <<>> \in Bursts /\ <<>> \in Seq(Packets) /\ Len(<<>>) = 0
<1>1. <<>> \in Seq(Packets) /\ Len(<<>>) = 0
  BY EmptySeq
<1>2. Len(<<>>) <= BURST_SIZE
  BY <1>1, SizeAssumption
<1> QED BY <1>1, <1>2, BurstFacts

LEMMA TailOfBurst ==
    ASSUME NEW b \in Bursts, b # <<>>
    PROVE  /\ Head(b) \in Packets
           /\ Tail(b) \in Bursts /\ Len(Tail(b)) = Len(b) - 1
<1>1. b \in Seq(Packets) /\ Len(b) \in 0 .. BURST_SIZE
  BY BurstFacts
<1>2. Head(b) \in Packets /\ Tail(b) \in Seq(Packets) /\ Len(Tail(b)) = Len(b) - 1
  BY <1>1, HeadTailProperties
<1>3. Len(Tail(b)) <= BURST_SIZE
  BY <1>1, <1>2, SizeAssumption
<1> QED BY <1>2, <1>3, BurstFacts

(* A burst that moves into the queue packet by packet.                     *)
LEMMA MoveToQueue ==
    ASSUME NEW q \in Seq(Packets), NEW b \in Seq(Packets), b # <<>>
    PROVE  /\ Append(q, Head(b)) \in Seq(Packets) /\ Tail(b) \in Seq(Packets)
           /\ Len(Append(q, Head(b))) = Len(q) + 1
           /\ Append(q, Head(b)) \o Tail(b) = q \o b
<1> DEFINE h == Head(b)
           r == Append(q, h)
           s == Tail(b)
<1>1. /\ Len(q) \in Nat /\ Len(b) \in Nat \ {0} /\ h \in Packets /\ h = b[1]
      /\ s \in Seq(Packets) /\ Len(s) = Len(b) - 1 /\ \A i \in 1 .. Len(s) : s[i] = b[i + 1]
  BY HeadTailProperties, LenProperties, EmptySeq
<1> HIDE DEF h, s
<1>2. /\ r \in Seq(Packets) /\ Len(r) = Len(q) + 1
      /\ r[Len(q) + 1] = h /\ \A i \in 1 .. Len(q) : r[i] = q[i]
  BY <1>1, AppendProperties
<1> HIDE DEF r
<1>3. /\ r \o s \in Seq(Packets) /\ Len(r \o s) = Len(r) + Len(s)
      /\ \A i \in 1 .. Len(r) + Len(s) : (r \o s)[i] = IF i <= Len(r) THEN r[i] ELSE s[i - Len(r)]
  BY <1>1, <1>2, ConcatProperties
<1>4. /\ q \o b \in Seq(Packets) /\ Len(q \o b) = Len(q) + Len(b)
      /\ \A i \in 1 .. Len(q) + Len(b) : (q \o b)[i] = IF i <= Len(q) THEN q[i] ELSE b[i - Len(q)]
  BY ConcatProperties
<1>5. Len(r) + Len(s) = Len(q) + Len(b)
  BY <1>1, <1>2
<1>6. ASSUME NEW i \in 1 .. Len(q) + Len(b) PROVE (r \o s)[i] = (q \o b)[i]
  <2>1. CASE i <= Len(q)
    <3>1. i <= Len(r) /\ i \in 1 .. Len(q)
      BY <1>1, <1>2, <2>1
    <3> QED BY <1>2, <1>3, <1>4, <1>5, <2>1, <3>1
  <2>2. CASE i = Len(q) + 1
    <3>1. i <= Len(r) /\ ~ (i <= Len(q)) /\ i - Len(q) = 1
      BY <1>1, <1>2, <2>2
    <3>2. (r \o s)[i] = h /\ (q \o b)[i] = b[1]
      BY <1>2, <1>3, <1>4, <1>5, <2>2, <3>1
    <3> QED BY <1>1, <3>2
  <2>3. CASE i > Len(q) + 1
    <3>1. /\ ~ (i <= Len(r)) /\ ~ (i <= Len(q)) /\ i - Len(r) \in 1 .. Len(s)
          /\ (i - Len(r)) + 1 = i - Len(q)
      BY <1>1, <1>2, <2>3
    <3>2. (r \o s)[i] = s[i - Len(r)] /\ (q \o b)[i] = b[i - Len(q)]
      BY <1>3, <1>4, <1>5, <3>1
    <3> QED BY <1>1, <3>1, <3>2
  <2>4. i <= Len(q) \/ i = Len(q) + 1 \/ i > Len(q) + 1
    BY <1>1
  <2> QED BY <2>1, <2>2, <2>3, <2>4
<1>7. r \o s = q \o b
  BY <1>3, <1>4, <1>5, <1>6, SeqEqual
<1> QED BY <1>1, <1>2, <1>7 DEF r, h, s

-----------------------------------------------------------------------------
(* The inductive invariant.                                                *)

(* Where each lcore can be, and where the policy does not go.              *)
ControlOK ==
    /\ pc["scheduler"] \in {"schedule", "hand_on", "rx", "enqueue", "free_rest", "trim", "done"}
    /\ pc["process"] \in {"poll", "hand_off", "done"}
    /\ pc["profile"] \in {"poll", "free", "done"}
    /\ pc["scheduler"] = "hand_on" => policy # "fcfs"
    /\ pc["scheduler"] = "free_rest" => policy \in {"fcfs", "wsjf_drop_tail"}
    /\ pc["scheduler"] = "trim" => policy = "wsjf_hffs"

(* A burst is held only until it is dealt with, and fcfs queues nothing.   *)
BurstOK ==
    /\ pc["scheduler"] \notin {"enqueue", "free_rest"} => bufs = <<>>
    /\ policy = "fcfs" => queue = <<>>

(* The scheduler's count of free slots is never above those of the ring,   *)
(* which only the processing lcore empties meanwhile.                      *)
SlotsOK == pc["scheduler"] = "hand_on" => free_slots + process_ring <= ProcessCapacity

(* The queue is over its limit only where hffs has yet to trim it.         *)
LimitOK ==
    IF policy = "wsjf_hffs" /\ pc["scheduler"] \in {"enqueue", "trim"}
    THEN Len(queue) + Len(bufs) <= SCHEDULER_QUEUE_SIZE + BURST_SIZE
    ELSE Len(queue) <= SCHEDULER_QUEUE_SIZE

(* d was rightly dropped rather than k, which arrived after it (or not).   *)
RightlyDropped(d, k, older) ==
    /\ ~ Before(d, k)
    /\ policy = "wsjf_hffs" /\ BucketIdx(d) = BucketIdx(k) => older

(* Whatever is gone of c, when q and b are left, was dropped for want of   *)
(* room and rightly.                                                       *)
DroppedRightly(c, q, b) ==
    \E place \in Places(q \o b, c) :
        \A i \in DOMAIN c \ Range(place) :
            /\ Len(q) >= SCHEDULER_QUEUE_SIZE
            /\ \A k \in DOMAIN q : RightlyDropped(c[i], q[k], i < place[k])

DropOK ==
    policy \in DropByWeight =>
        /\ pc["scheduler"] \in {"enqueue", "trim", "schedule"} =>
                DroppedRightly(candidates, queue, bufs)
        /\ policy = "wsjf_hffs" /\ pc["scheduler"] = "enqueue" =>
                candidates = queue \o bufs

IInv ==
    /\ TypeOK
    /\ NoLeak
    /\ ControlOK
    /\ BurstOK
    /\ SlotsOK
    /\ LimitOK
    /\ DropOK

-----------------------------------------------------------------------------
(* What dropping by weight keeps.                                          *)

LEMMA NothingDropped ==
    ASSUME NEW q \in Seq(Packets), NEW b \in Seq(Packets)
    PROVE  DroppedRightly(q \o b, q, b)
<1> DEFINE c == q \o b
           place == [i \in DOMAIN c |-> i]
<1>1. DOMAIN c = 1 .. Len(c) /\ Len(c) \in Nat
  BY ConcatProperties, LenProperties
<1> HIDE DEF c
<1>2. place \in Places(c, c)
  BY DEF Places
<1>3. DOMAIN c \ Range(place) = {}
  BY DEF Range
<1> QED BY <1>2, <1>3 DEF DroppedRightly, c

(* place2 is place without what was in the queue at i, t being what is left. *)
Without(place, place2, i, t, c) ==
    /\ \A k \in DOMAIN t : place2[k] = place[Behind(i, k)]
    /\ \A d \in DOMAIN c \ Range(place2) : d \in Range(place) => d = place[i]

(* Taking a packet out of the queue leaves the others in their places.     *)
LEMMA RemovePlace ==
    ASSUME NEW c \in Seq(Packets), NEW q \in Seq(Packets), NEW b \in Seq(Packets),
           NEW place \in Places(q \o b, c), NEW i \in DOMAIN q
    PROVE  \E place2 \in Places(RemoveAt(q, i) \o b, c) : Without(place, place2, i, RemoveAt(q, i), c)
<1> DEFINE t == RemoveAt(q, i)
           s == q \o b
           u == t \o b
           place2 == [k \in DOMAIN u |-> place[Behind(i, k)]]
<1>1. /\ t \in Seq(Packets) /\ Len(t) = Len(q) - 1
      /\ \A k \in DOMAIN t : t[k] = q[Behind(i, k)]
  BY RemoveAtFacts
<1>2. /\ Len(q) \in Nat /\ Len(b) \in Nat /\ i \in 1 .. Len(q)
      /\ DOMAIN q = 1 .. Len(q) /\ DOMAIN t = 1 .. (Len(q) - 1)
  BY <1>1, LenProperties
<1> HIDE DEF t
<1>3. /\ Len(s) = Len(q) + Len(b) /\ DOMAIN s = 1 .. (Len(q) + Len(b))
      /\ \A k \in 1 .. (Len(q) + Len(b)) : s[k] = IF k <= Len(q) THEN q[k] ELSE b[k - Len(q)]
  BY ConcatProperties, LenProperties
<1>4. /\ Len(u) = Len(t) + Len(b) /\ DOMAIN u = 1 .. (Len(t) + Len(b))
      /\ \A k \in 1 .. (Len(t) + Len(b)) : u[k] = IF k <= Len(t) THEN t[k] ELSE b[k - Len(t)]
  <2>1. /\ u \in Seq(Packets) /\ Len(u) = Len(t) + Len(b)
        /\ \A k \in 1 .. Len(t) + Len(b) : u[k] = IF k <= Len(t) THEN t[k] ELSE b[k - Len(t)]
    BY <1>1, ConcatProperties
  <2> HIDE DEF s, u, place2
  <2> QED BY <2>1, LenProperties
<1> HIDE DEF s, u
<1>5. DOMAIN u = 1 .. (Len(s) - 1) /\ Len(s) \in Nat
  BY <1>1, <1>2, <1>3, <1>4
<1>6. ASSUME NEW k \in DOMAIN u
      PROVE  Behind(i, k) \in DOMAIN s \ {i} /\ u[k] = s[Behind(i, k)]
  <2>1. k \in 1 .. (Len(q) + Len(b) - 1)
    BY <1>2, <1>3, <1>5
  <2>2. Behind(i, k) \in DOMAIN s \ {i}
    BY <1>2, <1>3, <2>1 DEF Behind
  <2>3. CASE k <= Len(t)
    <3>1. k \in DOMAIN t /\ k \in 1 .. (Len(t) + Len(b))
      BY <1>1, <1>2, <2>1, <2>3
    <3>2. u[k] = q[Behind(i, k)]
      BY <1>1, <1>4, <2>3, <3>1
    <3>3. Behind(i, k) <= Len(q) /\ Behind(i, k) \in 1 .. (Len(q) + Len(b))
      BY <1>1, <1>2, <2>1, <2>3 DEF Behind
    <3> QED BY <1>3, <2>2, <3>2, <3>3
  <2>4. CASE ~ (k <= Len(t))
    <3>1. /\ k \in 1 .. (Len(t) + Len(b)) /\ Behind(i, k) = k + 1 /\ k - Len(t) = (k + 1) - Len(q)
          /\ ~ (k + 1 <= Len(q)) /\ k + 1 \in 1 .. (Len(q) + Len(b))
      BY <1>1, <1>2, <2>1, <2>4 DEF Behind
    <3> QED BY <1>3, <1>4, <2>2, <2>4, <3>1
  <2> QED BY <2>3, <2>4
<1>7. /\ place \in [DOMAIN s -> DOMAIN c]
      /\ \A k \in DOMAIN s : c[place[k]] = s[k]
      /\ \A j, k \in DOMAIN s : j < k => place[j] < place[k]
  BY DEF Places, s
<1>8. \A j, k \in DOMAIN u : j < k => Behind(i, j) < Behind(i, k)
  BY <1>2, <1>5 DEF Behind
<1>9. place2 \in Places(u, c)
  BY <1>6, <1>7, <1>8 DEF Places
<1>10. ASSUME NEW d \in Range(place), d # place[i] PROVE d \in Range(place2)
  <2>1. PICK k \in DOMAIN s \ {i} : d = place[k]
    BY <1>7, <1>10 DEF Range
  <2>2. \E j \in DOMAIN u : Behind(i, j) = k
    <3>1. k \in 1 .. Len(s) /\ k # i /\ i \in 1 .. Len(s)
      BY <1>2, <1>3, <2>1
    <3>2. CASE k < i
      BY <1>5, <3>1, <3>2 DEF Behind
    <3>3. CASE k > i
      <4>1. k - 1 \in DOMAIN u /\ Behind(i, k - 1) = k
        BY <1>5, <3>1, <3>3 DEF Behind
      <4> QED BY <4>1
    <3> QED BY <3>1, <3>2, <3>3
  <2> QED BY <2>1, <2>2 DEF Range
<1>11. \A k \in DOMAIN t : place2[k] = place[Behind(i, k)]
  <2>1. DOMAIN t \subseteq DOMAIN u
    BY <1>1, <1>2, <1>4
  <2> QED BY <2>1
<1> HIDE DEF place2
<1> QED BY <1>9, <1>10, <1>11 DEF Without, t, u

(* Trimming: the queue is over its limit, and its last packet goes.        *)
LEMMA TrimDropsRightly ==
    ASSUME NEW c \in Seq(Packets), NEW q \in Seq(Packets), NEW t \in PopMax(q),
           DroppedRightly(c, q, <<>>), Len(q) > SCHEDULER_QUEUE_SIZE
    PROVE  /\ t \in Seq(Packets) /\ Len(t) = Len(q) - 1
           /\ DroppedRightly(c, t, <<>>)
<1>1. <<>> \in Seq(Packets) /\ Len(q) \in Nat /\ q # <<>> /\ SCHEDULER_QUEUE_SIZE \in Nat
  BY EmptySeq, LenProperties, SizeAssumption
<1>2. PICK i \in DOMAIN q :
        /\ t = RemoveAt(q, i)
        /\ \A k \in DOMAIN q : ~ Before(q[i], q[k])
        /\ policy = "wsjf_hffs" =>
                \A k \in DOMAIN q : BucketIdx(q[i]) = BucketIdx(q[k]) => i <= k
  BY <1>1, PopMaxFacts
<1>3. /\ t \in Seq(Packets) /\ Len(t) = Len(q) - 1
      /\ \A k \in DOMAIN t : t[k] = q[Behind(i, k)] /\ Behind(i, k) \in DOMAIN q \ {i}
  BY <1>2, RemoveAtFacts
<1>4. PICK place \in Places(q \o <<>>, c) :
        \A d \in DOMAIN c \ Range(place), k \in DOMAIN q : RightlyDropped(c[d], q[k], d < place[k])
  BY DEF DroppedRightly
<1>5. q \o <<>> = q
  BY ConcatEmptySeq
<1>6. /\ place \in [DOMAIN q -> DOMAIN c]
      /\ \A k \in DOMAIN q : c[place[k]] = q[k]
      /\ \A j, k \in DOMAIN q : j < k => place[j] < place[k]
  BY <1>4, <1>5 DEF Places
<1>7. PICK place2 \in Places(t \o <<>>, c) :
        /\ \A k \in DOMAIN t : place2[k] = place[Behind(i, k)]
        /\ \A d \in DOMAIN c \ Range(place2) : d \in Range(place) => d = place[i]
  <2>1. \E place2 \in Places(RemoveAt(q, i) \o <<>>, c) : Without(place, place2, i, RemoveAt(q, i), c)
    BY <1>1, <1>4, RemovePlace
  <2> QED BY <1>2, <2>1 DEF Without
<1>8. Len(t) >= SCHEDULER_QUEUE_SIZE
  BY <1>1, <1>3
<1>9. ASSUME NEW d \in DOMAIN c \ Range(place2), NEW k \in DOMAIN t
      PROVE  RightlyDropped(c[d], t[k], d < place2[k])
  <2> DEFINE j == Behind(i, k)
  <2>1. j \in DOMAIN q /\ j # i /\ t[k] = q[j] /\ place2[k] = place[j]
    BY <1>3, <1>7
  <2> HIDE DEF j
  <2>2. CASE d \notin Range(place)
    BY <1>4, <2>1, <2>2
  <2>3. CASE d = place[i]
    <3>1. c[d] = q[i] /\ ~ Before(q[i], q[j])
      BY <1>2, <1>6, <2>1, <2>3
    <3>2. ASSUME policy = "wsjf_hffs", BucketIdx(q[i]) = BucketIdx(q[j])
          PROVE  place[i] < place[j]
      <4>1. i <= j /\ i \in Nat /\ j \in Nat
        BY <1>2, <2>1, <3>2, LenProperties
      <4>2. i < j
        BY <2>1, <4>1
      <4> QED BY <1>6, <2>1, <4>2
    <3> QED BY <2>1, <2>3, <3>1, <3>2 DEF RightlyDropped
  <2> QED BY <1>7, <2>2, <2>3
<1>10. DroppedRightly(c, t, <<>>)
  BY <1>7, <1>8, <1>9 DEF DroppedRightly
<1> QED BY <1>3, <1>10

(* A push that finds the queue full drops the last packet, the newcomer    *)
(* included.                                                               *)
LEMMA DropMaxDropsRightly ==
    ASSUME NEW c \in Seq(Packets), NEW q \in Seq(Packets), NEW b \in Seq(Packets), b # <<>>,
           policy = "wsjf_drop_max",
           DroppedRightly(c, q, b), Len(q) <= SCHEDULER_QUEUE_SIZE,
           NEW t \in AfterDrop(Append(q, Head(b)))
    PROVE  /\ t \in Seq(Packets) /\ DroppedRightly(c, t, Tail(b))
           /\ Len(t) = IF Dropped(Append(q, Head(b))) THEN Len(q) ELSE Len(q) + 1
           /\ Len(t) <= SCHEDULER_QUEUE_SIZE
<1> DEFINE r == Append(q, Head(b))
           b2 == Tail(b)
<1>1. /\ r \in Seq(Packets) /\ b2 \in Seq(Packets) /\ Len(r) = Len(q) + 1 /\ r \o b2 = q \o b
      /\ \A k \in DOMAIN q : r[k] = q[k] /\ k \in DOMAIN r
      /\ \A k \in DOMAIN r : k \in DOMAIN q \/ k = Len(q) + 1
  <2>1. Head(b) \in Packets
    BY HeadTailProperties
  <2>2. DOMAIN q = 1 .. Len(q) /\ DOMAIN r = 1 .. Len(r) /\ Len(q) \in Nat
    BY <2>1, MoveToQueue, LenProperties
  <2> QED BY <2>1, <2>2, MoveToQueue, AppendProperties
<1>2. Len(q) \in Nat /\ SCHEDULER_QUEUE_SIZE \in Nat
  BY LenProperties, SizeAssumption
<1>3. PICK place \in Places(r \o b2, c) :
        \A d \in DOMAIN c \ Range(place) :
            /\ Len(q) >= SCHEDULER_QUEUE_SIZE
            /\ \A k \in DOMAIN q : RightlyDropped(c[d], q[k], d < place[k])
  BY <1>1 DEF DroppedRightly
<1> HIDE DEF r, b2
<1>4. CASE Dropped(r)
  <2>1. t \in PopMax(r) /\ Len(q) = SCHEDULER_QUEUE_SIZE /\ r # <<>>
    BY <1>1, <1>2, <1>4, EmptySeq DEF AfterDrop, Dropped, r
  <2>2. PICK i \in DOMAIN r :
          /\ t = RemoveAt(r, i)
          /\ \A k \in DOMAIN r : ~ Before(r[i], r[k])
    BY <1>1, <2>1, PopMaxFacts
  <2>3. /\ t \in Seq(Packets) /\ Len(t) = Len(q)
        /\ \A k \in DOMAIN t : t[k] = r[Behind(i, k)] /\ Behind(i, k) \in DOMAIN r \ {i}
    <3>1. /\ RemoveAt(r, i) \in Seq(Packets) /\ Len(RemoveAt(r, i)) = Len(r) - 1
          /\ \A k \in DOMAIN RemoveAt(r, i) :
                RemoveAt(r, i)[k] = r[Behind(i, k)] /\ Behind(i, k) \in DOMAIN r \ {i}
      BY <1>1, RemoveAtFacts
    <3>2. Len(r) - 1 = Len(q)
      BY <1>1, <1>2
    <3> QED BY <2>2, <3>1, <3>2
  <2>4. PICK place2 \in Places(t \o b2, c) :
          /\ \A k \in DOMAIN t : place2[k] = place[Behind(i, k)]
          /\ \A d \in DOMAIN c \ Range(place2) : d \in Range(place) => d = place[i]
    <3>1. \E place2 \in Places(RemoveAt(r, i) \o b2, c) : Without(place, place2, i, RemoveAt(r, i), c)
      BY <1>1, <1>3, RemovePlace
    <3> QED BY <2>2, <3>1 DEF Without
  <2>5. \A k \in DOMAIN r : place[k] \in DOMAIN c /\ c[place[k]] = r[k]
    <3>1. ASSUME NEW k \in DOMAIN r PROVE k \in DOMAIN (r \o b2) /\ (r \o b2)[k] = r[k]
      <4>1. k \in 1 .. Len(r) /\ Len(r) \in Nat /\ Len(b2) \in Nat
        BY <1>1, LenProperties
      <4>2. k \in 1 .. (Len(r) + Len(b2)) /\ k <= Len(r)
        BY <4>1
      <4> QED BY <1>1, <4>2, ConcatProperties, LenProperties
    <3>2. /\ place \in [DOMAIN (r \o b2) -> DOMAIN c]
          /\ \A k \in DOMAIN (r \o b2) : c[place[k]] = (r \o b2)[k]
      BY <1>3 DEF Places
    <3> QED BY <3>1, <3>2
  <2>6. ASSUME NEW d \in DOMAIN c \ Range(place2), NEW k \in DOMAIN t
        PROVE  RightlyDropped(c[d], t[k], d < place2[k])
    <3> DEFINE j == Behind(i, k)
    <3>1. j \in DOMAIN r /\ t[k] = r[j]
      BY <2>3
    <3> HIDE DEF j
    <3>2. ~ Before(c[d], r[j])
      <4>1. CASE d = place[i]
        BY <2>2, <2>5, <3>1, <4>1
      <4>2. CASE d \notin Range(place)
        <5>1. CASE j \in DOMAIN q
          BY <1>1, <1>3, <4>2, <5>1 DEF RightlyDropped
        <5>2. CASE i \in DOMAIN q
          <6>1. ~ Before(c[d], r[i]) /\ ~ Before(r[i], r[j])
            BY <1>1, <1>3, <2>2, <3>1, <4>2, <5>2 DEF RightlyDropped
          <6>2. ~ Lighter(c[d], r[i]) /\ ~ Lighter(r[i], r[j])
            BY <6>1 DEF Before
          <6>3. c[d] \in Packets /\ r[i] \in Packets /\ r[j] \in Packets
            BY <1>1, <3>1, ElementOfSeq, LenProperties
          <6>4. ~ Lighter(c[d], r[j])
            BY <6>2, <6>3, NotLighterTransitive
          <6> QED BY <6>4 DEF Before
        <5>3. j \in DOMAIN q \/ i \in DOMAIN q
          BY <1>1, <2>2, <2>3, <3>1 DEF j
        <5> QED BY <5>1, <5>2, <5>3
      <4> QED BY <2>4, <4>1, <4>2
    <3> QED BY <3>1, <3>2 DEF RightlyDropped
  <2>7. DroppedRightly(c, t, b2)
    BY <1>2, <2>1, <2>3, <2>4, <2>6 DEF DroppedRightly
  <2> QED BY <1>2, <1>4, <2>1, <2>3, <2>7 DEF r, b2
<1>5. CASE ~ Dropped(r)
  <2>1. t = r /\ Len(q) + 1 <= SCHEDULER_QUEUE_SIZE
    BY <1>1, <1>2, <1>5 DEF AfterDrop, Dropped, r
  <2>2. DOMAIN c \ Range(place) = {}
    BY <1>2, <1>3, <2>1
  <2>3. DroppedRightly(c, r, b2)
    BY <1>3, <2>2 DEF DroppedRightly
  <2> QED BY <1>1, <1>5, <2>1, <2>3 DEF r, b2
<1> QED BY <1>4, <1>5

-----------------------------------------------------------------------------
(* The steps.                                                              *)

(* The numbers the invariant speaks of.                                    *)
LEMMA StateFacts ==
    ASSUME IInv
    PROVE  /\ Len(queue) \in Nat /\ Len(candidates) \in Nat
           /\ bufs \in Seq(Packets) /\ Len(bufs) \in Nat /\ Len(bufs) <= BURST_SIZE
           /\ ProcessCapacity \in Nat /\ ProcessCapacity > 0
           /\ ProfileCapacity \in Nat /\ ProfileCapacity > 0
           /\ pool \in Nat /\ PoolSize \in Nat /\ free_slots \in Nat
           /\ process_ring \in Nat /\ process_ring <= ProcessCapacity
           /\ profile_ring \in Nat /\ profile_ring <= ProfileCapacity
           /\ InHand \in Nat
<1>1. TypeOK /\ queue \in Seq(Packets) /\ candidates \in Seq(Packets)
  BY DEF IInv, TypeOK
<1>2. /\ bufs \in Seq(Packets) /\ Len(bufs) \in 0 .. BURST_SIZE
      /\ Len(queue) \in Nat /\ Len(candidates) \in Nat
  BY <1>1, BurstFacts, LenProperties DEF TypeOK
<1>3. ProcessCapacity \in Nat \ {0} /\ ProfileCapacity \in Nat \ {0}
  BY SizeAssumption DEF ProcessCapacity, ProfileCapacity
<1>4. /\ pool \in 0 .. PoolSize /\ free_slots \in Nat
      /\ process_ring \in 0 .. ProcessCapacity /\ profile_ring \in 0 .. ProfileCapacity
  BY <1>1 DEF TypeOK
<1>5. InHand \in Nat
  BY DEF InHand
<1> QED BY <1>2, <1>3, <1>4, <1>5, SizeAssumption

LEMMA GotoFacts ==
    ASSUME TypeOK, NEW lcore \in Lcores, NEW label \in Labels, Goto(lcore, label)
    PROVE  /\ pc' \in [Lcores -> Labels]
           /\ pc'[lcore] = label
           /\ \A other \in Lcores \ {lcore} : pc'[other] = pc[other]
BY DEF TypeOK, Goto

(* Mbufs only ever move between the places that are counted.               *)
LEMMA MbufsMove ==
    ASSUME IInv, NEW free \in Nat, NEW used \in Nat, free + used = pool + InUse,
           pool' = free, InUse' = used
    PROVE  NoLeak' /\ pool' \in 0 .. PoolSize
<1>1. free + used = PoolSize
  BY DEF IInv, NoLeak
<1>2. free \in 0 .. PoolSize
  BY <1>1, SizeAssumption
<1> QED BY <1>1, <1>2 DEF NoLeak

(* No step changes the policy.                                             *)
LEMMA DropKept ==
    ASSUME policy' = policy
    PROVE  DroppedRightly(candidates, queue, bufs)' <=>
                DroppedRightly(candidates', queue', bufs')
BY DEF DroppedRightly, RightlyDropped, Before

(* The workers and the environment leave the scheduler's part alone, but   *)
(* that the process ring may shrink.                                       *)
LEMMA SchedulerUntouched ==
    ASSUME IInv,
           UNCHANGED <<policy, queue, bufs, candidates, free_slots>>,
           pc'["scheduler"] = pc["scheduler"],
           process_ring' \in Nat, process_ring' <= process_ring
    PROVE  BurstOK' /\ SlotsOK' /\ LimitOK' /\ DropOK'
<1>2. BurstOK' /\ LimitOK'
  BY DEF IInv, BurstOK, LimitOK
<1>3. SlotsOK'
  <2>1. ProcessCapacity' = ProcessCapacity
    BY DEF ProcessCapacity
  <2>2. process_ring \in Nat /\ free_slots \in Nat /\ ProcessCapacity \in Nat
    BY StateFacts DEF IInv, TypeOK
  <2>3. pc["scheduler"] = "hand_on" => free_slots + process_ring <= ProcessCapacity
    BY DEF IInv, SlotsOK
  <2>4. \A free, ring, less, cap \in Nat : free + ring <= cap /\ less <= ring => free + less <= cap
    OBVIOUS
  <2> QED BY <2>1, <2>2, <2>3, <2>4 DEF SlotsOK
<1>4. DropOK'
  BY DropKept DEF IInv, DropOK
<1> QED BY <1>2, <1>3, <1>4

LEMMA EnvironmentStep ==
    ASSUME IInv, SignalHandler \/ TrafficEnds \/ UNCHANGED vars
    PROVE  IInv'
<1>1. /\ UNCHANGED <<policy, pool, queue, bufs, free_slots, process_ring, profile_ring, pc, candidates>>
      /\ sending' \in BOOLEAN /\ quit' \in BOOLEAN
  BY DEF IInv, TypeOK, SignalHandler, TrafficEnds, vars
<1>2. TypeOK' /\ NoLeak' /\ ControlOK'
  BY <1>1 DEF IInv, TypeOK, ProcessCapacity, NoLeak, InUse, InHand, ControlOK
<1>3. BurstOK' /\ SlotsOK' /\ LimitOK' /\ DropOK'
  BY <1>1, SchedulerUntouched, StateFacts
<1> QED BY <1>2, <1>3 DEF IInv

(* One mbuf goes from ring to lcore, from lcore to ring, or to the pool.   *)
LEMMA ProcessStepKeeps ==
    ASSUME IInv, ProcessStep
    PROVE  IInv'
<1>0. /\ Len(queue) \in Nat /\ bufs \in Seq(Packets) /\ Len(bufs) \in Nat /\ pool \in Nat
      /\ process_ring \in Nat /\ process_ring <= ProcessCapacity /\ ProcessCapacity \in Nat
      /\ profile_ring \in Nat /\ profile_ring <= ProfileCapacity /\ ProfileCapacity \in Nat
      /\ InHand \in Nat
  BY StateFacts
<1>1. CASE Exit("process")
  <2>1. /\ pc["process"] = "poll"
        /\ UNCHANGED <<policy, sending, quit, pool, queue, bufs, free_slots, process_ring, profile_ring, candidates>>
        /\ Goto("process", "done")
    BY <1>1 DEF Exit
  <2>2. /\ pc' \in [Lcores -> Labels] /\ pc'["process"] = "done"
        /\ pc'["scheduler"] = pc["scheduler"] /\ pc'["profile"] = pc["profile"]
    BY <2>1, GotoFacts DEF IInv, Lcores, Labels
  <2>3. TypeOK' /\ NoLeak' /\ ControlOK'
    BY <2>1, <2>2 DEF IInv, TypeOK, ProcessCapacity, NoLeak, InUse, InHand, ControlOK
  <2> QED BY <1>0, <2>1, <2>2, <2>3, SchedulerUntouched DEF IInv
<1>2. CASE ProcessTake
  <2>1. /\ pc["process"] = "poll" /\ process_ring > 0 /\ process_ring' = process_ring - 1
        /\ UNCHANGED <<policy, sending, quit, pool, queue, bufs, free_slots, profile_ring, candidates>>
        /\ Goto("process", "hand_off")
    BY <1>2 DEF ProcessTake
  <2>2. /\ pc' \in [Lcores -> Labels] /\ pc'["process"] = "hand_off"
        /\ pc'["scheduler"] = pc["scheduler"] /\ pc'["profile"] = pc["profile"]
    BY <2>1, GotoFacts DEF IInv, Lcores, Labels
  <2>3. NoLeak' /\ pool' \in 0 .. PoolSize
    <3>1. Len(queue)' = Len(queue) /\ Len(bufs)' = Len(bufs)
      BY <2>1
    <3>2. InHand' = InHand + 1
      BY <2>1, <2>2 DEF InHand
    <3>3. InUse' = Len(queue) + Len(bufs) + (process_ring - 1) + profile_ring + (InHand + 1)
      BY <2>1, <3>1, <3>2 DEF InUse
    <3>4. InUse' = InUse /\ InUse \in Nat
      BY <1>0, <3>3 DEF InUse
    <3> QED BY <1>0, <2>1, <3>4, MbufsMove
  <2>4. TypeOK' /\ NoLeak' /\ ControlOK'
    BY <1>0, <2>1, <2>2, <2>3 DEF IInv, TypeOK, ProcessCapacity, ControlOK
  <2> QED BY <1>0, <2>1, <2>2, <2>4, SchedulerUntouched DEF IInv
<1>3. CASE ProcessHandOff
  <2>1. /\ pc["process"] = "hand_off"
        /\ IF profile_ring < ProfileCapacity
           THEN profile_ring' = profile_ring + 1 /\ pool' = pool
           ELSE pool' = pool + 1 /\ profile_ring' = profile_ring
        /\ UNCHANGED <<policy, sending, quit, queue, bufs, free_slots, process_ring, candidates>>
        /\ Goto("process", "poll")
    BY <1>3 DEF ProcessHandOff
  <2>2. /\ pc' \in [Lcores -> Labels] /\ pc'["process"] = "poll"
        /\ pc'["scheduler"] = pc["scheduler"] /\ pc'["profile"] = pc["profile"]
    BY <2>1, GotoFacts DEF IInv, Lcores, Labels
  <2>3. NoLeak' /\ pool' \in 0 .. PoolSize
    <3>1. Len(queue)' = Len(queue) /\ Len(bufs)' = Len(bufs)
      BY <2>1
    <3>2. InHand' = InHand - 1 /\ InHand - 1 \in Nat
      BY <2>1, <2>2 DEF InHand
    <3>3. CASE profile_ring < ProfileCapacity
      <4>1. InUse' = Len(queue) + Len(bufs) + process_ring + (profile_ring + 1) + (InHand - 1)
        BY <2>1, <3>1, <3>2, <3>3 DEF InUse
      <4>2. InUse' = InUse /\ InUse \in Nat
        BY <1>0, <4>1 DEF InUse
      <4> QED BY <1>0, <2>1, <3>3, <4>2, MbufsMove
    <3>4. CASE ~ (profile_ring < ProfileCapacity)
      <4>1. InUse' = Len(queue) + Len(bufs) + process_ring + profile_ring + (InHand - 1)
        BY <2>1, <3>1, <3>2, <3>4 DEF InUse
      <4>2. InUse' = InUse - 1 /\ InUse - 1 \in Nat /\ InUse \in Nat
        BY <1>0, <3>2, <4>1 DEF InUse
      <4>3. pool + 1 \in Nat /\ (pool + 1) + (InUse - 1) = pool + InUse
        BY <1>0, <4>2
      <4> QED BY <2>1, <3>4, <4>2, <4>3, MbufsMove
    <3> QED BY <3>3, <3>4
  <2>4. TypeOK' /\ ControlOK'
    BY <1>0, <2>1, <2>2, <2>3 DEF IInv, TypeOK, ProcessCapacity, ProfileCapacity, ControlOK
  <2> QED BY <1>0, <2>1, <2>2, <2>3, <2>4, SchedulerUntouched DEF IInv
<1> QED BY <1>1, <1>2, <1>3 DEF ProcessStep

LEMMA ProfileStepKeeps ==
    ASSUME IInv, ProfileStep
    PROVE  IInv'
<1>0. /\ Len(queue) \in Nat /\ bufs \in Seq(Packets) /\ Len(bufs) \in Nat /\ pool \in Nat
      /\ process_ring \in Nat /\ process_ring <= ProcessCapacity /\ ProcessCapacity \in Nat
      /\ profile_ring \in Nat /\ profile_ring <= ProfileCapacity /\ ProfileCapacity \in Nat
      /\ InHand \in Nat
  BY StateFacts
<1>1. CASE Exit("profile")
  <2>1. /\ pc["profile"] = "poll"
        /\ UNCHANGED <<policy, sending, quit, pool, queue, bufs, free_slots, process_ring, profile_ring, candidates>>
        /\ Goto("profile", "done")
    BY <1>1 DEF Exit
  <2>2. /\ pc' \in [Lcores -> Labels] /\ pc'["profile"] = "done"
        /\ pc'["scheduler"] = pc["scheduler"] /\ pc'["process"] = pc["process"]
    BY <2>1, GotoFacts DEF IInv, Lcores, Labels
  <2>3. TypeOK' /\ NoLeak' /\ ControlOK'
    BY <2>1, <2>2 DEF IInv, TypeOK, ProcessCapacity, NoLeak, InUse, InHand, ControlOK
  <2> QED BY <1>0, <2>1, <2>2, <2>3, SchedulerUntouched DEF IInv
<1>2. CASE ProfileTake
  <2>1. /\ pc["profile"] = "poll" /\ profile_ring > 0 /\ profile_ring' = profile_ring - 1
        /\ UNCHANGED <<policy, sending, quit, pool, queue, bufs, free_slots, process_ring, candidates>>
        /\ Goto("profile", "free")
    BY <1>2 DEF ProfileTake, ProfileReady
  <2>2. /\ pc' \in [Lcores -> Labels] /\ pc'["profile"] = "free"
        /\ pc'["scheduler"] = pc["scheduler"] /\ pc'["process"] = pc["process"]
    BY <2>1, GotoFacts DEF IInv, Lcores, Labels
  <2>3. NoLeak' /\ pool' \in 0 .. PoolSize
    <3>1. Len(queue)' = Len(queue) /\ Len(bufs)' = Len(bufs)
      BY <2>1
    <3>2. InHand' = InHand + 1
      BY <2>1, <2>2 DEF InHand
    <3>3. InUse' = Len(queue) + Len(bufs) + process_ring + (profile_ring - 1) + (InHand + 1)
      BY <2>1, <3>1, <3>2 DEF InUse
    <3>4. InUse' = InUse /\ InUse \in Nat
      BY <1>0, <3>3 DEF InUse
    <3> QED BY <1>0, <2>1, <3>4, MbufsMove
  <2>4. TypeOK' /\ NoLeak' /\ ControlOK'
    BY <1>0, <2>1, <2>2, <2>3 DEF IInv, TypeOK, ProcessCapacity, ControlOK
  <2> QED BY <1>0, <2>1, <2>2, <2>4, SchedulerUntouched DEF IInv
<1>3. CASE ProfileFree
  <2>1. /\ pc["profile"] = "free" /\ pool' = pool + 1
        /\ UNCHANGED <<policy, sending, quit, queue, bufs, free_slots, process_ring, profile_ring, candidates>>
        /\ Goto("profile", "poll")
    BY <1>3 DEF ProfileFree
  <2>2. /\ pc' \in [Lcores -> Labels] /\ pc'["profile"] = "poll"
        /\ pc'["scheduler"] = pc["scheduler"] /\ pc'["process"] = pc["process"]
    BY <2>1, GotoFacts DEF IInv, Lcores, Labels
  <2>3. NoLeak' /\ pool' \in 0 .. PoolSize
    <3>1. Len(queue)' = Len(queue) /\ Len(bufs)' = Len(bufs)
      BY <2>1
    <3>2. InHand' = InHand - 1 /\ InHand - 1 \in Nat
      BY <2>1, <2>2 DEF InHand
    <3>3. InUse' = Len(queue) + Len(bufs) + process_ring + profile_ring + (InHand - 1)
      BY <2>1, <3>1, <3>2 DEF InUse
    <3>4. InUse' = InUse - 1 /\ InUse - 1 \in Nat /\ InUse \in Nat
      BY <1>0, <3>2, <3>3 DEF InUse
    <3>5. pool + 1 \in Nat /\ (pool + 1) + (InUse - 1) = pool + InUse
      BY <1>0, <3>4
    <3> QED BY <2>1, <3>4, <3>5, MbufsMove
  <2>4. TypeOK' /\ ControlOK'
    BY <1>0, <2>1, <2>2, <2>3 DEF IInv, TypeOK, ProcessCapacity, ControlOK
  <2> QED BY <1>0, <2>1, <2>2, <2>3, <2>4, SchedulerUntouched DEF IInv
<1> QED BY <1>1, <1>2, <1>3 DEF ProfileStep
-----------------------------------------------------------------------------
(* The steps of the scheduler.                                             *)

(* The scheduler moves alone.                                              *)
LEMMA SchedulerGoes ==
    ASSUME IInv, NEW label \in Labels, Goto("scheduler", label)
    PROVE  /\ pc' \in [Lcores -> Labels] /\ pc'["scheduler"] = label
           /\ pc'["process"] = pc["process"] /\ pc'["profile"] = pc["profile"]
           /\ InHand' = InHand
<1>1. /\ pc' \in [Lcores -> Labels] /\ pc'["scheduler"] = label
      /\ pc'["process"] = pc["process"] /\ pc'["profile"] = pc["profile"]
  BY GotoFacts DEF IInv, TypeOK, Lcores
<1> QED BY <1>1 DEF InHand

LEMMA TypeKept ==
    ASSUME IInv, UNCHANGED <<policy, sending, quit, profile_ring>>,
           pool' \in 0 .. PoolSize, queue' \in Seq(Packets), candidates' \in Seq(Packets), bufs' \in Bursts,
           free_slots' \in Nat, process_ring' \in 0 .. ProcessCapacity, pc' \in [Lcores -> Labels]
    PROVE  TypeOK'
<1>1. ProcessCapacity' = ProcessCapacity
  BY DEF ProcessCapacity
<1> QED BY <1>1 DEF IInv, TypeOK, ProfileCapacity

LEMMA ScheduleBurstKeeps ==
    ASSUME IInv, ScheduleBurst
    PROVE  IInv'
<1>0. /\ process_ring \in Nat /\ process_ring <= ProcessCapacity /\ ProcessCapacity \in Nat
      /\ pool \in Nat /\ free_slots \in Nat
  BY StateFacts
<1>1. /\ pc["scheduler"] = "schedule"
      /\ UNCHANGED <<policy, sending, quit, pool, queue, bufs, process_ring, profile_ring>>
      /\ candidates' \in Seq(Packets)
  BY EmptySeq DEF ScheduleBurst
<1>2. PICK label \in {"done", "rx", "hand_on"} :
        /\ Goto("scheduler", label)
        /\ label = "hand_on" => policy # "fcfs" /\ free_slots' = ProcessCapacity - process_ring
        /\ label # "hand_on" => free_slots' = free_slots
  BY DEF ScheduleBurst
<1>3. /\ pc' \in [Lcores -> Labels] /\ pc'["scheduler"] = label
      /\ pc'["process"] = pc["process"] /\ pc'["profile"] = pc["profile"]
      /\ InHand' = InHand
  <2>1. label \in Labels
    BY DEF Labels
  <2> QED BY <1>2, <2>1, SchedulerGoes
<1>4. NoLeak'
  BY <1>1, <1>3 DEF IInv, NoLeak, InUse
<1>5. ProcessCapacity - process_ring \in Nat
  BY <1>0
<1>6. TypeOK'
  BY <1>0, <1>1, <1>2, <1>3, <1>5, TypeKept DEF IInv, TypeOK
<1>7. ControlOK' /\ BurstOK' /\ DropOK'
  BY <1>1, <1>2, <1>3 DEF IInv, ControlOK, BurstOK, DropOK
<1>8. SlotsOK'
  <2>1. CASE label = "hand_on"
    <3>1. free_slots' + process_ring' = (ProcessCapacity - process_ring) + process_ring
      BY <1>1, <1>2, <2>1
    <3>2. free_slots' + process_ring' = ProcessCapacity
      BY <1>0, <3>1
    <3>3. ProcessCapacity' = ProcessCapacity
      BY <1>1 DEF ProcessCapacity
    <3> QED BY <1>0, <3>2, <3>3 DEF SlotsOK
  <2>2. CASE label # "hand_on"
    BY <1>3, <2>2 DEF SlotsOK
  <2> QED BY <2>1, <2>2
<1>9. LimitOK'
  BY <1>1, <1>2, <1>3 DEF IInv, LimitOK
<1> QED BY <1>4, <1>6, <1>7, <1>8, <1>9 DEF IInv

LEMMA HandOnKeeps ==
    ASSUME IInv, HandOn
    PROVE  IInv'
<1>0. /\ Len(queue) \in Nat /\ Len(bufs) \in Nat /\ pool \in Nat /\ free_slots \in Nat
      /\ process_ring \in Nat /\ process_ring <= ProcessCapacity /\ ProcessCapacity \in Nat
      /\ profile_ring \in Nat /\ InHand \in Nat
  BY StateFacts
<1>1. /\ pc["scheduler"] = "hand_on" /\ policy # "fcfs" /\ bufs = <<>>
      /\ free_slots + process_ring <= ProcessCapacity /\ Len(queue) <= SCHEDULER_QUEUE_SIZE
      /\ UNCHANGED <<policy, sending, quit, pool, bufs, profile_ring, candidates>>
  BY DEF HandOn, IInv, ControlOK, BurstOK, SlotsOK, LimitOK
<1>2. ProcessCapacity' = ProcessCapacity
  BY <1>1 DEF ProcessCapacity
<1>3. CASE queue # <<>> /\ free_slots > 0
  <2>1. /\ queue' \in PopMin(queue) /\ process_ring' = Min({process_ring + 1, ProcessCapacity})
        /\ free_slots' = free_slots - 1 /\ UNCHANGED pc
    BY <1>3 DEF HandOn, RemainingSlots
  <2>2. process_ring + 1 \in Nat /\ process_ring + 1 <= ProcessCapacity
    BY <1>0, <1>1, <1>3
  <2>3. process_ring' = process_ring + 1
    BY <1>0, <2>1, <2>2, MinOfTwo
  <2>4. queue' \in Seq(Packets) /\ Len(queue') = Len(queue) - 1 /\ Len(queue) > 0
    BY <1>3, <2>1, PopMinFacts DEF IInv, TypeOK
  <2>5. Len(queue)' = Len(queue) - 1
    BY <2>4
  <2>6. InHand' = InHand /\ Len(bufs)' = Len(bufs) /\ pc' \in [Lcores -> Labels]
    BY <1>1, <2>1 DEF InHand, IInv, TypeOK
  <2>7. InUse' = (Len(queue) - 1) + Len(bufs) + (process_ring + 1) + profile_ring + InHand
    BY <1>1, <2>3, <2>5, <2>6 DEF InUse
  <2>8. InUse' = InUse
    <3>1. (Len(queue) - 1) + Len(bufs) + (process_ring + 1) + profile_ring + InHand = InUse
      BY <1>0 DEF InUse
    <3> QED BY <2>7, <3>1
  <2>9. NoLeak'
    BY <1>1, <2>8 DEF IInv, NoLeak
  <2>10. free_slots - 1 \in Nat /\ process_ring + 1 \in 0 .. ProcessCapacity
    BY <1>0, <1>3, <2>2
  <2>11. TypeOK'
    BY <1>1, <2>1, <2>3, <2>4, <2>6, <2>10, TypeKept DEF IInv, TypeOK
  <2>12. ControlOK' /\ BurstOK' /\ DropOK'
    BY <1>1, <2>1 DEF IInv, ControlOK, BurstOK, DropOK
  <2>13. SlotsOK'
    <3>1. free_slots' + process_ring' = (free_slots - 1) + (process_ring + 1)
      BY <2>1, <2>3
    <3>2. free_slots' + process_ring' = free_slots + process_ring
      BY <1>0, <3>1
    <3> QED BY <1>1, <1>2, <3>2 DEF SlotsOK
  <2>14. LimitOK'
    <3>1. Len(queue) - 1 <= SCHEDULER_QUEUE_SIZE
      BY <1>0, <1>1, SizeAssumption
    <3> QED BY <1>1, <2>1, <2>5, <3>1 DEF LimitOK
  <2> QED BY <2>9, <2>11, <2>12, <2>13, <2>14 DEF IInv
<1>4. CASE ~ (queue # <<>> /\ free_slots > 0)
  <2>1. Goto("scheduler", "rx") /\ free_slots' = 0 /\ UNCHANGED <<queue, process_ring>>
    BY <1>4 DEF HandOn
  <2>2. /\ pc' \in [Lcores -> Labels] /\ pc'["scheduler"] = "rx"
        /\ pc'["process"] = pc["process"] /\ pc'["profile"] = pc["profile"]
        /\ InHand' = InHand
    <3>1. "rx" \in Labels
      BY DEF Labels
    <3> QED BY <2>1, <3>1, SchedulerGoes
  <2>3. NoLeak'
    BY <1>1, <2>1, <2>2 DEF IInv, NoLeak, InUse
  <2>4. TypeOK'
    BY <1>1, <2>1, <2>2, TypeKept DEF IInv, TypeOK
  <2>5. ControlOK' /\ BurstOK' /\ DropOK' /\ SlotsOK' /\ LimitOK'
    BY <1>1, <2>1, <2>2 DEF IInv, ControlOK, BurstOK, DropOK, SlotsOK, LimitOK
  <2> QED BY <2>3, <2>4, <2>5 DEF IInv
<1> QED BY <1>3, <1>4
LEMMA RxBurstKeeps ==
    ASSUME IInv, RxBurst
    PROVE  IInv'
<1>0. /\ Len(queue) \in Nat /\ Len(bufs) \in Nat /\ pool \in Nat /\ free_slots \in Nat
      /\ process_ring \in Nat /\ process_ring <= ProcessCapacity /\ ProcessCapacity \in Nat
      /\ profile_ring \in Nat /\ InHand \in Nat
  BY StateFacts
<1>1. /\ pc["scheduler"] = "rx" /\ bufs = <<>> /\ Len(queue) <= SCHEDULER_QUEUE_SIZE
      /\ UNCHANGED <<policy, sending, quit, queue, free_slots, process_ring, profile_ring>>
  BY DEF RxBurst, IInv, BurstOK, LimitOK
<1>2. PICK burst \in Bursts :
        /\ Len(burst) <= pool
        /\ bufs' = burst
        /\ pool' = pool - Len(burst)
        /\ candidates' = IF policy \in DropByWeight THEN queue \o burst ELSE <<>>
        /\ Goto("scheduler", IF burst = <<>> THEN "schedule" ELSE "enqueue")
  BY DEF RxBurst
<1> DEFINE label == IF burst = <<>> THEN "schedule" ELSE "enqueue"
<1>3. /\ pc' \in [Lcores -> Labels] /\ pc'["scheduler"] = label
      /\ pc'["process"] = pc["process"] /\ pc'["profile"] = pc["profile"]
      /\ InHand' = InHand
  <2>1. label \in Labels /\ Goto("scheduler", label)
    BY <1>2 DEF Labels
  <2> QED BY <2>1, SchedulerGoes
<1>4. burst \in Seq(Packets) /\ Len(burst) \in Nat /\ Len(burst) <= BURST_SIZE
  BY BurstFacts, SizeAssumption
<1>5. NoLeak' /\ pool' \in 0 .. PoolSize
  <2>1. Len(queue)' = Len(queue) /\ Len(bufs)' = Len(burst) /\ Len(bufs) = 0
    BY <1>1, <1>2
  <2>2. InUse' = Len(queue) + Len(burst) + process_ring + profile_ring + InHand
    BY <1>1, <1>3, <2>1 DEF InUse
  <2>3. Len(queue) + Len(burst) + process_ring + profile_ring + InHand = InUse + Len(burst)
    BY <1>0, <1>4, <2>1 DEF InUse
  <2>4. InUse \in Nat
    BY <1>0 DEF InUse
  <2>5. /\ pool - Len(burst) \in Nat /\ InUse + Len(burst) \in Nat
        /\ (pool - Len(burst)) + (InUse + Len(burst)) = pool + InUse
    BY <1>0, <1>2, <1>4, <2>4
  <2> QED BY <1>2, <2>2, <2>3, <2>5, MbufsMove
<1>6. TypeOK'
  <2>1. queue' \in Seq(Packets) /\ candidates' \in Seq(Packets)
    <3>1. queue \in Seq(Packets)
      BY DEF IInv, TypeOK
    <3>2. queue \o burst \in Seq(Packets) /\ <<>> \in Seq(Packets)
      BY <1>4, <3>1, ConcatProperties, EmptySeq
    <3> QED BY <1>1, <1>2, <3>1, <3>2
  <2> QED BY <1>1, <1>2, <1>3, <1>5, <2>1, TypeKept DEF IInv, TypeOK
<1>7. ControlOK' /\ BurstOK' /\ SlotsOK'
  BY <1>1, <1>2, <1>3 DEF IInv, ControlOK, BurstOK, SlotsOK
<1>8. LimitOK'
  <2>1. Len(queue)' = Len(queue) /\ Len(bufs)' = Len(burst)
    BY <1>1, <1>2
  <2>2. Len(queue) + Len(burst) <= SCHEDULER_QUEUE_SIZE + BURST_SIZE
    BY <1>0, <1>1, <1>4, SizeAssumption
  <2>3. Len(queue)' + Len(bufs)' <= SCHEDULER_QUEUE_SIZE + BURST_SIZE
    BY <2>1, <2>2
  <2> QED BY <1>1, <2>1, <2>3 DEF LimitOK
<1>9. DropOK'
  <2>1. queue \in Seq(Packets) /\ DroppedRightly(queue \o burst, queue, burst)
    BY <1>4, NothingDropped DEF IInv, TypeOK
  <2>2. policy \in DropByWeight =>
            candidates' = queue' \o bufs' /\ DroppedRightly(candidates', queue', bufs')
    BY <1>1, <1>2, <2>1
  <2> QED BY <1>1, <2>2, DropKept DEF DropOK
<1> QED BY <1>5, <1>6, <1>7, <1>8, <1>9 DEF IInv

(* What the ring takes of a burst is no more than there is room for.       *)
LEMMA NumEnqueuedFacts ==
    ASSUME IInv
    PROVE  /\ num_enqueued \in Nat /\ num_enqueued <= Len(bufs)
           /\ num_enqueued <= ProcessCapacity - process_ring
<1>1. /\ Len(bufs) \in Nat /\ ProcessCapacity \in Nat
      /\ process_ring \in Nat /\ process_ring <= ProcessCapacity
  BY StateFacts
<1>2. ProcessCapacity - process_ring \in Nat
  BY <1>1
<1>3. num_enqueued = IF Len(bufs) <= ProcessCapacity - process_ring
                     THEN Len(bufs) ELSE ProcessCapacity - process_ring
  BY <1>1, <1>2, MinOfTwo DEF num_enqueued
<1> QED BY <1>1, <1>2, <1>3

LEMMA EnqueueFCFSKeeps ==
    ASSUME IInv, EnqueueFCFS
    PROVE  IInv'
<1>0. /\ Len(queue) \in Nat /\ Len(bufs) \in Nat /\ pool \in Nat /\ free_slots \in Nat
      /\ process_ring \in Nat /\ process_ring <= ProcessCapacity /\ ProcessCapacity \in Nat
      /\ profile_ring \in Nat /\ InHand \in Nat /\ bufs \in Seq(Packets) /\ Len(bufs) <= BURST_SIZE
  BY StateFacts
<1>1. /\ pc["scheduler"] = "enqueue" /\ policy = "fcfs" /\ Len(queue) = 0
      /\ UNCHANGED <<policy, sending, quit, pool, queue, free_slots, profile_ring, candidates>>
      /\ process_ring' = process_ring + num_enqueued
      /\ bufs' = SubSeq(bufs, num_enqueued + 1, Len(bufs))
      /\ Goto("scheduler", "free_rest")
  BY DEF EnqueueFCFS, IInv, BurstOK
<1>2. /\ num_enqueued \in Nat /\ num_enqueued <= Len(bufs)
      /\ num_enqueued <= ProcessCapacity - process_ring
  BY NumEnqueuedFacts
<1>3. /\ pc' \in [Lcores -> Labels] /\ pc'["scheduler"] = "free_rest"
      /\ pc'["process"] = pc["process"] /\ pc'["profile"] = pc["profile"]
      /\ InHand' = InHand
  <2>1. "free_rest" \in Labels
    BY DEF Labels
  <2> QED BY <1>1, <2>1, SchedulerGoes
<1>4. bufs' \in Seq(Packets) /\ Len(bufs') = Len(bufs) - num_enqueued
  <2> DEFINE m == num_enqueued + 1
             n == Len(bufs)
  <2>1. m \in Int /\ n \in Int /\ (IF m <= n THEN n - m + 1 ELSE 0) = n - num_enqueued
    BY <1>0, <1>2
  <2>2. \A i \in m .. n : bufs[i] \in Packets
    BY <1>0, <1>2, ElementOfSeq
  <2>3. bufs' = SubSeq(bufs, m, n)
    BY <1>1
  <2> HIDE DEF m, n
  <2>4. bufs' \in Seq(Packets) /\ Len(bufs') = IF m <= n THEN n - m + 1 ELSE 0
    BY <2>1, <2>2, <2>3, SubSeqProperties
  <2> QED BY <2>1, <2>4 DEF n
<1>5. bufs' \in Bursts
  <2>1. Len(bufs) - num_enqueued <= BURST_SIZE
    BY <1>0, <1>2, SizeAssumption
  <2> QED BY <1>4, <2>1, BurstFacts
<1>6. NoLeak'
  <2>1. Len(queue)' = Len(queue)
    BY <1>1
  <2>2. InUse' = Len(queue) + (Len(bufs) - num_enqueued) + (process_ring + num_enqueued) + profile_ring + InHand
    BY <1>1, <1>3, <1>4, <2>1 DEF InUse
  <2>3. Len(queue) + (Len(bufs) - num_enqueued) + (process_ring + num_enqueued) + profile_ring + InHand = InUse
    BY <1>0, <1>2 DEF InUse
  <2> QED BY <1>1, <2>2, <2>3 DEF IInv, NoLeak
<1>7. TypeOK'
  <2>1. process_ring + num_enqueued \in 0 .. ProcessCapacity
    BY <1>0, <1>2
  <2> QED BY <1>1, <1>3, <1>5, <2>1, TypeKept DEF IInv, TypeOK
<1>8. ControlOK' /\ BurstOK' /\ SlotsOK' /\ LimitOK' /\ DropOK'
  BY <1>1, <1>3, SizeAssumption
     DEF IInv, ControlOK, BurstOK, SlotsOK, LimitOK, DropOK, DropByWeight
<1> QED BY <1>6, <1>7, <1>8 DEF IInv
LEMMA EnqueueDropTailKeeps ==
    ASSUME IInv, EnqueueDropTail
    PROVE  IInv'
<1>0. /\ Len(queue) \in Nat /\ Len(bufs) \in Nat /\ pool \in Nat /\ process_ring \in Nat
      /\ profile_ring \in Nat /\ InHand \in Nat
      /\ bufs \in Bursts /\ queue \in Seq(Packets) /\ candidates \in Seq(Packets)
  BY StateFacts DEF IInv, TypeOK
<1>1. /\ pc["scheduler"] = "enqueue" /\ policy = "wsjf_drop_tail"
      /\ UNCHANGED <<policy, sending, quit, pool, free_slots, process_ring, profile_ring, candidates>>
  BY DEF EnqueueDropTail
<1>2. CASE bufs # <<>> /\ Len(queue) < SCHEDULER_QUEUE_SIZE
  <2>1. queue' = Append(queue, Head(bufs)) /\ bufs' = Tail(bufs) /\ UNCHANGED pc
    BY <1>2 DEF EnqueueDropTail
  <2>2. InHand' = InHand /\ pc' \in [Lcores -> Labels]
    BY <2>1 DEF InHand, IInv, TypeOK
  <2>3. /\ Head(bufs) \in Packets /\ bufs' \in Bursts /\ Len(bufs') = Len(bufs) - 1
        /\ queue' \in Seq(Packets) /\ Len(queue') = Len(queue) + 1 /\ Len(bufs) - 1 \in Nat
    <3>1. /\ Head(bufs) \in Packets /\ Tail(bufs) \in Bursts /\ Len(Tail(bufs)) = Len(bufs) - 1
          /\ Len(Tail(bufs)) \in Nat
      BY <1>0, <1>2, TailOfBurst, BurstFacts, LenProperties
    <3> QED BY <1>0, <1>2, <2>1, <3>1, BurstFacts, MoveToQueue
  <2>4. Len(queue)' = Len(queue) + 1
    BY <2>3
  <2>5. NoLeak'
    <3>1. InUse' = (Len(queue) + 1) + (Len(bufs) - 1) + process_ring + profile_ring + InHand
      BY <1>1, <2>2, <2>3, <2>4 DEF InUse
    <3>2. (Len(queue) + 1) + (Len(bufs) - 1) + process_ring + profile_ring + InHand = InUse
      BY <1>0 DEF InUse
    <3> QED BY <1>1, <3>1, <3>2 DEF IInv, NoLeak
  <2>6. TypeOK'
    BY <1>0, <1>1, <2>2, <2>3, TypeKept DEF IInv, TypeOK
  <2>7. ControlOK' /\ BurstOK' /\ SlotsOK' /\ DropOK'
    BY <1>1, <2>1 DEF IInv, ControlOK, BurstOK, SlotsOK, DropOK, DropByWeight
  <2>8. LimitOK'
    <3>1. Len(queue) + 1 <= SCHEDULER_QUEUE_SIZE
      BY <1>0, <1>2, SizeAssumption
    <3> QED BY <1>1, <2>4, <3>1 DEF LimitOK
  <2> QED BY <2>5, <2>6, <2>7, <2>8 DEF IInv
<1>3. CASE ~ (bufs # <<>> /\ Len(queue) < SCHEDULER_QUEUE_SIZE)
  <2>1. Goto("scheduler", "free_rest") /\ UNCHANGED <<queue, bufs>>
    BY <1>3 DEF EnqueueDropTail
  <2>2. /\ pc' \in [Lcores -> Labels] /\ pc'["scheduler"] = "free_rest"
        /\ pc'["process"] = pc["process"] /\ pc'["profile"] = pc["profile"]
        /\ InHand' = InHand
    <3>1. "free_rest" \in Labels
      BY DEF Labels
    <3> QED BY <2>1, <3>1, SchedulerGoes
  <2>3. NoLeak'
    BY <1>1, <2>1, <2>2 DEF IInv, NoLeak, InUse
  <2>4. TypeOK'
    BY <1>0, <1>1, <2>1, <2>2, TypeKept DEF IInv, TypeOK
  <2>5. ControlOK' /\ BurstOK' /\ DropOK' /\ SlotsOK' /\ LimitOK'
    BY <1>1, <2>1, <2>2
       DEF IInv, ControlOK, BurstOK, DropOK, DropByWeight, SlotsOK, LimitOK
  <2> QED BY <2>3, <2>4, <2>5 DEF IInv
<1> QED BY <1>2, <1>3

LEMMA EnqueueHffsKeeps ==
    ASSUME IInv, EnqueueHffs
    PROVE  IInv'
<1>0. /\ Len(queue) \in Nat /\ Len(bufs) \in Nat /\ pool \in Nat /\ process_ring \in Nat
      /\ profile_ring \in Nat /\ InHand \in Nat
      /\ bufs \in Bursts /\ queue \in Seq(Packets) /\ candidates \in Seq(Packets)
  BY StateFacts DEF IInv, TypeOK
<1>1. /\ pc["scheduler"] = "enqueue" /\ policy = "wsjf_hffs"
      /\ UNCHANGED <<policy, sending, quit, pool, free_slots, process_ring, profile_ring, candidates>>
      /\ Len(queue) + Len(bufs) <= SCHEDULER_QUEUE_SIZE + BURST_SIZE
      /\ candidates = queue \o bufs /\ DroppedRightly(candidates, queue, bufs)
  BY DEF EnqueueHffs, IInv, LimitOK, DropOK, DropByWeight
<1>2. CASE bufs # <<>>
  <2>1. queue' = Append(queue, Head(bufs)) /\ bufs' = Tail(bufs) /\ UNCHANGED pc
    BY <1>2 DEF EnqueueHffs
  <2>2. InHand' = InHand /\ pc' \in [Lcores -> Labels]
    BY <2>1 DEF InHand, IInv, TypeOK
  <2>3. /\ Head(bufs) \in Packets /\ bufs' \in Bursts /\ Len(bufs') = Len(bufs) - 1
        /\ queue' \in Seq(Packets) /\ Len(queue') = Len(queue) + 1 /\ Len(bufs) - 1 \in Nat
    <3>1. /\ Head(bufs) \in Packets /\ Tail(bufs) \in Bursts /\ Len(Tail(bufs)) = Len(bufs) - 1
          /\ Len(Tail(bufs)) \in Nat
      BY <1>0, <1>2, TailOfBurst, BurstFacts, LenProperties
    <3> QED BY <1>0, <1>2, <2>1, <3>1, BurstFacts, MoveToQueue
  <2>4. Len(queue)' = Len(queue) + 1
    BY <2>3
  <2>5. NoLeak'
    <3>1. InUse' = (Len(queue) + 1) + (Len(bufs) - 1) + process_ring + profile_ring + InHand
      BY <1>1, <2>2, <2>3, <2>4 DEF InUse
    <3>2. (Len(queue) + 1) + (Len(bufs) - 1) + process_ring + profile_ring + InHand = InUse
      BY <1>0 DEF InUse
    <3> QED BY <1>1, <3>1, <3>2 DEF IInv, NoLeak
  <2>6. TypeOK'
    BY <1>0, <1>1, <2>2, <2>3, TypeKept DEF IInv, TypeOK
  <2>7. ControlOK' /\ BurstOK' /\ SlotsOK'
    BY <1>1, <2>1 DEF IInv, ControlOK, BurstOK, SlotsOK
  <2>8. LimitOK'
    <3>1. (Len(queue) + 1) + (Len(bufs) - 1) <= SCHEDULER_QUEUE_SIZE + BURST_SIZE
      BY <1>0, <1>1, SizeAssumption
    <3>2. Len(queue)' + Len(bufs)' = (Len(queue) + 1) + (Len(bufs) - 1)
      BY <2>3, <2>4
    <3> QED BY <1>1, <2>1, <3>1, <3>2 DEF LimitOK
  <2>9. DropOK'
    <3>1. candidates' = queue' \o bufs'
      BY <1>0, <1>1, <1>2, <2>1, BurstFacts, MoveToQueue
    <3>2. queue' \in Seq(Packets) /\ bufs' \in Seq(Packets)
      BY <2>3, BurstFacts
    <3>3. DroppedRightly(candidates', queue', bufs')
      BY <3>1, <3>2, NothingDropped
    <3> QED BY <1>1, <3>1, <3>3, DropKept DEF DropOK
  <2> QED BY <2>5, <2>6, <2>7, <2>8, <2>9 DEF IInv
<1>3. CASE bufs = <<>>
  <2>1. Goto("scheduler", "trim") /\ UNCHANGED <<queue, bufs>>
    BY <1>3 DEF EnqueueHffs
  <2>2. /\ pc' \in [Lcores -> Labels] /\ pc'["scheduler"] = "trim"
        /\ pc'["process"] = pc["process"] /\ pc'["profile"] = pc["profile"]
        /\ InHand' = InHand
    <3>1. "trim" \in Labels
      BY DEF Labels
    <3> QED BY <2>1, <3>1, SchedulerGoes
  <2>3. NoLeak'
    BY <1>1, <2>1, <2>2 DEF IInv, NoLeak, InUse
  <2>4. TypeOK'
    BY <1>0, <1>1, <2>1, <2>2, TypeKept DEF IInv, TypeOK
  <2>5. ControlOK' /\ BurstOK' /\ SlotsOK' /\ LimitOK'
    BY <1>1, <1>3, <2>1, <2>2 DEF IInv, ControlOK, BurstOK, SlotsOK, LimitOK
  <2>6. DropOK'
    <3>1. DroppedRightly(candidates', queue', bufs')
      BY <1>1, <2>1
    <3> QED BY <1>1, <2>2, <3>1, DropKept DEF DropOK
  <2> QED BY <2>3, <2>4, <2>5, <2>6 DEF IInv
<1> QED BY <1>2, <1>3

LEMMA TrimKeeps ==
    ASSUME IInv, Trim
    PROVE  IInv'
<1>0. /\ Len(queue) \in Nat /\ Len(bufs) \in Nat /\ pool \in Nat /\ process_ring \in Nat
      /\ profile_ring \in Nat /\ InHand \in Nat
      /\ bufs \in Bursts /\ queue \in Seq(Packets) /\ candidates \in Seq(Packets)
  BY StateFacts DEF IInv, TypeOK
<1>1. /\ pc["scheduler"] = "trim" /\ policy = "wsjf_hffs" /\ bufs = <<>>
      /\ UNCHANGED <<policy, sending, quit, bufs, free_slots, process_ring, profile_ring, candidates>>
      /\ Len(queue) + Len(bufs) <= SCHEDULER_QUEUE_SIZE + BURST_SIZE
      /\ DroppedRightly(candidates, queue, bufs) /\ bufs \in Seq(Packets)
  BY StateFacts DEF Trim, IInv, ControlOK, BurstOK, LimitOK, DropOK, DropByWeight
<1>2. CASE Len(queue) > SCHEDULER_QUEUE_SIZE
  <2>1. queue' \in PopMax(queue) /\ pool' = pool + 1 /\ UNCHANGED pc
    BY <1>2 DEF Trim, OverLimit
  <2>2. InHand' = InHand /\ pc' \in [Lcores -> Labels] /\ Len(bufs)' = Len(bufs)
    BY <1>1, <2>1 DEF InHand, IInv, TypeOK
  <2>3. queue' \in Seq(Packets) /\ Len(queue') = Len(queue) - 1 /\ Len(queue) - 1 \in Nat
    <3>1. Len(queue) - 1 \in Nat
      BY <1>0, <1>2, SizeAssumption
    <3> QED BY <1>0, <1>1, <1>2, <2>1, <3>1, TrimDropsRightly
  <2>4. Len(queue)' = Len(queue) - 1
    BY <2>3
  <2>5. NoLeak' /\ pool' \in 0 .. PoolSize
    <3>1. InUse' = (Len(queue) - 1) + Len(bufs) + process_ring + profile_ring + InHand
      BY <1>1, <2>2, <2>4 DEF InUse
    <3>2. /\ (Len(queue) - 1) + Len(bufs) + process_ring + profile_ring + InHand = InUse - 1
          /\ InUse \in Nat /\ InUse - 1 \in Nat
      BY <1>0, <2>3 DEF InUse
    <3>3. pool + 1 \in Nat /\ (pool + 1) + (InUse - 1) = pool + InUse
      BY <1>0, <3>2
    <3> QED BY <2>1, <3>1, <3>2, <3>3, MbufsMove
  <2>6. TypeOK'
    BY <1>0, <1>1, <2>2, <2>3, <2>5, TypeKept DEF IInv, TypeOK
  <2>7. ControlOK' /\ BurstOK' /\ SlotsOK'
    BY <1>1, <2>1 DEF IInv, ControlOK, BurstOK, SlotsOK
  <2>8. LimitOK'
    <3>1. (Len(queue) - 1) + Len(bufs) <= SCHEDULER_QUEUE_SIZE + BURST_SIZE
      BY <1>0, <1>1, SizeAssumption
    <3>2. Len(queue)' + Len(bufs)' = (Len(queue) - 1) + Len(bufs)
      BY <2>2, <2>4
    <3> QED BY <1>1, <2>1, <3>1, <3>2 DEF LimitOK
  <2>9. DropOK'
    <3>1. DroppedRightly(candidates', queue', bufs')
      BY <1>0, <1>1, <1>2, <2>1, TrimDropsRightly
    <3> QED BY <1>1, <2>1, <3>1, DropKept DEF DropOK
  <2> QED BY <2>5, <2>6, <2>7, <2>8, <2>9 DEF IInv
<1>3. CASE ~ (Len(queue) > SCHEDULER_QUEUE_SIZE)
  <2>1. Goto("scheduler", "schedule") /\ UNCHANGED <<queue, pool>>
    BY <1>3 DEF Trim, OverLimit
  <2>2. /\ pc' \in [Lcores -> Labels] /\ pc'["scheduler"] = "schedule"
        /\ pc'["process"] = pc["process"] /\ pc'["profile"] = pc["profile"]
        /\ InHand' = InHand
    <3>1. "schedule" \in Labels
      BY DEF Labels
    <3> QED BY <2>1, <3>1, SchedulerGoes
  <2>3. NoLeak'
    BY <1>1, <2>1, <2>2 DEF IInv, NoLeak, InUse
  <2>4. TypeOK'
    BY <1>0, <1>1, <2>1, <2>2, TypeKept DEF IInv, TypeOK
  <2>5. ControlOK' /\ BurstOK' /\ SlotsOK'
    BY <1>1, <2>1, <2>2 DEF IInv, ControlOK, BurstOK, SlotsOK
  <2>6. LimitOK'
    <3>1. Len(queue) <= SCHEDULER_QUEUE_SIZE
      BY <1>0, <1>3, SizeAssumption
    <3>2. Len(queue)' = Len(queue)
      BY <2>1
    <3> QED BY <2>2, <3>1, <3>2 DEF LimitOK
  <2>7. DropOK'
    <3>1. DroppedRightly(candidates', queue', bufs')
      BY <1>1, <2>1
    <3> QED BY <1>1, <2>2, <3>1, DropKept DEF DropOK
  <2> QED BY <2>3, <2>4, <2>5, <2>6, <2>7 DEF IInv
<1> QED BY <1>2, <1>3

LEMMA EnqueueDropMaxKeeps ==
    ASSUME IInv, EnqueueDropMax
    PROVE  IInv'
<1>0. /\ Len(queue) \in Nat /\ Len(bufs) \in Nat /\ pool \in Nat /\ process_ring \in Nat
      /\ profile_ring \in Nat /\ InHand \in Nat
      /\ bufs \in Bursts /\ queue \in Seq(Packets) /\ candidates \in Seq(Packets)
  BY StateFacts DEF IInv, TypeOK
<1>1. /\ pc["scheduler"] = "enqueue" /\ policy = "wsjf_drop_max"
      /\ UNCHANGED <<policy, sending, quit, free_slots, process_ring, profile_ring, candidates>>
      /\ Len(queue) <= SCHEDULER_QUEUE_SIZE
      /\ DroppedRightly(candidates, queue, bufs)
  BY DEF EnqueueDropMax, IInv, LimitOK, DropOK, DropByWeight
<1>2. CASE bufs # <<>>
  <2>1. /\ queue' \in AfterDrop(Append(queue, Head(bufs))) /\ bufs' = Tail(bufs)
        /\ pool' = IF Dropped(Append(queue, Head(bufs))) THEN pool + 1 ELSE pool
        /\ UNCHANGED pc
    BY <1>2 DEF EnqueueDropMax
  <2>2. InHand' = InHand /\ pc' \in [Lcores -> Labels]
    BY <2>1 DEF InHand, IInv, TypeOK
  <2>3. bufs' \in Bursts /\ Len(bufs') = Len(bufs) - 1 /\ Len(bufs) - 1 \in Nat
    <3>1. Tail(bufs) \in Bursts /\ Len(Tail(bufs)) = Len(bufs) - 1 /\ Len(Tail(bufs)) \in Nat
      BY <1>0, <1>2, TailOfBurst, BurstFacts, LenProperties
    <3> QED BY <2>1, <3>1
  <2>4. /\ queue' \in Seq(Packets) /\ DroppedRightly(candidates', queue', bufs')
        /\ Len(queue') = IF Dropped(Append(queue, Head(bufs))) THEN Len(queue) ELSE Len(queue) + 1
        /\ Len(queue') <= SCHEDULER_QUEUE_SIZE
    <3>1. bufs \in Seq(Packets)
      BY <1>0, BurstFacts
    <3> QED
      BY <1>0, <1>1, <1>2, <2>1, <3>1, DropMaxDropsRightly
  <2>5. NoLeak' /\ pool' \in 0 .. PoolSize
    <3>1. InUse \in Nat
      BY <1>0 DEF InUse
    <3>2. Len(queue)' = Len(queue')
      OBVIOUS
    <3>3. CASE Dropped(Append(queue, Head(bufs)))
      <4>1. InUse' = Len(queue) + (Len(bufs) - 1) + process_ring + profile_ring + InHand
        BY <1>1, <2>2, <2>3, <2>4, <3>2, <3>3 DEF InUse
      <4>2. /\ Len(queue) + (Len(bufs) - 1) + process_ring + profile_ring + InHand = InUse - 1
            /\ InUse - 1 \in Nat
        BY <1>0, <2>3 DEF InUse
      <4>3. pool + 1 \in Nat /\ (pool + 1) + (InUse - 1) = pool + InUse
        BY <1>0, <3>1
      <4> QED BY <2>1, <3>3, <4>1, <4>2, <4>3, MbufsMove
    <3>4. CASE ~ Dropped(Append(queue, Head(bufs)))
      <4>1. InUse' = (Len(queue) + 1) + (Len(bufs) - 1) + process_ring + profile_ring + InHand
        BY <1>1, <2>2, <2>3, <2>4, <3>2, <3>4 DEF InUse
      <4>2. (Len(queue) + 1) + (Len(bufs) - 1) + process_ring + profile_ring + InHand = InUse
        BY <1>0 DEF InUse
      <4> QED BY <1>0, <2>1, <3>1, <3>4, <4>1, <4>2, MbufsMove
    <3> QED BY <3>3, <3>4
  <2>6. TypeOK'
    BY <1>0, <1>1, <2>2, <2>3, <2>4, <2>5, TypeKept DEF IInv, TypeOK
  <2>7. ControlOK' /\ BurstOK' /\ SlotsOK'
    BY <1>1, <2>1 DEF IInv, ControlOK, BurstOK, SlotsOK
  <2>8. LimitOK'
    <3>1. Len(queue)' <= SCHEDULER_QUEUE_SIZE
      BY <2>4
    <3> QED BY <1>1, <3>1 DEF LimitOK
  <2>9. DropOK'
    BY <1>1, <2>1, <2>4, DropKept DEF DropOK
  <2> QED BY <2>5, <2>6, <2>7, <2>8, <2>9 DEF IInv
<1>3. CASE bufs = <<>>
  <2>1. Goto("scheduler", "schedule") /\ UNCHANGED <<queue, pool, bufs>>
    BY <1>3 DEF EnqueueDropMax
  <2>2. /\ pc' \in [Lcores -> Labels] /\ pc'["scheduler"] = "schedule"
        /\ pc'["process"] = pc["process"] /\ pc'["profile"] = pc["profile"]
        /\ InHand' = InHand
    <3>1. "schedule" \in Labels
      BY DEF Labels
    <3> QED BY <2>1, <3>1, SchedulerGoes
  <2>3. NoLeak'
    BY <1>1, <2>1, <2>2 DEF IInv, NoLeak, InUse
  <2>4. TypeOK'
    BY <1>0, <1>1, <2>1, <2>2, TypeKept DEF IInv, TypeOK
  <2>5. ControlOK' /\ BurstOK' /\ SlotsOK' /\ LimitOK'
    BY <1>1, <1>3, <2>1, <2>2 DEF IInv, ControlOK, BurstOK, SlotsOK, LimitOK
  <2>6. DropOK'
    <3>1. DroppedRightly(candidates', queue', bufs')
      BY <1>1, <2>1
    <3> QED BY <1>1, <2>2, <3>1, DropKept DEF DropOK
  <2> QED BY <2>3, <2>4, <2>5, <2>6 DEF IInv
<1> QED BY <1>2, <1>3

LEMMA FreeRestKeeps ==
    ASSUME IInv, FreeRest
    PROVE  IInv'
<1>0. /\ Len(queue) \in Nat /\ Len(bufs) \in Nat /\ pool \in Nat /\ process_ring \in Nat
      /\ profile_ring \in Nat /\ InHand \in Nat
      /\ bufs \in Bursts /\ queue \in Seq(Packets) /\ candidates \in Seq(Packets)
  BY StateFacts DEF IInv, TypeOK
<1>1. /\ pc["scheduler"] = "free_rest" /\ policy \in {"fcfs", "wsjf_drop_tail"}
      /\ pool' = pool + Len(bufs) /\ bufs' = <<>>
      /\ UNCHANGED <<policy, sending, quit, queue, free_slots, process_ring, profile_ring, candidates>>
      /\ Goto("scheduler", "schedule")
  BY DEF FreeRest, IInv, ControlOK
<1>2. /\ pc' \in [Lcores -> Labels] /\ pc'["scheduler"] = "schedule"
      /\ pc'["process"] = pc["process"] /\ pc'["profile"] = pc["profile"]
      /\ InHand' = InHand
  <2>1. "schedule" \in Labels
    BY DEF Labels
  <2> QED BY <1>1, <2>1, SchedulerGoes
<1>3. bufs' \in Bursts /\ Len(bufs)' = 0
  BY <1>1, EmptyBurst
<1>4. NoLeak' /\ pool' \in 0 .. PoolSize
  <2>1. Len(queue)' = Len(queue)
    BY <1>1
  <2>2. InUse' = Len(queue) + 0 + process_ring + profile_ring + InHand
    BY <1>1, <1>2, <1>3, <2>1 DEF InUse
  <2>3. /\ Len(queue) + 0 + process_ring + profile_ring + InHand = InUse - Len(bufs)
        /\ InUse \in Nat /\ InUse - Len(bufs) \in Nat
    BY <1>0 DEF InUse
  <2>4. /\ pool + Len(bufs) \in Nat
        /\ (pool + Len(bufs)) + (InUse - Len(bufs)) = pool + InUse
    BY <1>0, <2>3
  <2> QED BY <1>1, <2>2, <2>3, <2>4, MbufsMove
<1>5. TypeOK'
  BY <1>0, <1>1, <1>2, <1>3, <1>4, TypeKept DEF IInv, TypeOK
<1>6. ControlOK' /\ BurstOK' /\ SlotsOK' /\ LimitOK' /\ DropOK'
  BY <1>1, <1>2
     DEF IInv, ControlOK, BurstOK, SlotsOK, LimitOK, DropOK, DropByWeight
<1> QED BY <1>4, <1>5, <1>6 DEF IInv
-----------------------------------------------------------------------------
(* The invariants.                                                         *)

LEMMA InitIInv == Init => IInv
<1> SUFFICES ASSUME Init PROVE IInv
  OBVIOUS
<1>1. /\ policy \in Policies /\ sending = TRUE /\ quit = FALSE /\ pool = PoolSize
      /\ queue = <<>> /\ bufs = <<>> /\ free_slots = 0
      /\ process_ring = 0 /\ profile_ring = 0 /\ candidates = <<>>
      /\ pc = [scheduler |-> "schedule", process |-> "poll", profile |-> "poll"]
  BY DEF Init
<1>2. queue \in Seq(Packets) /\ Len(queue) = 0 /\ candidates \in Seq(Packets)
  BY <1>1, EmptySeq
<1>3. bufs \in Bursts /\ Len(bufs) = 0 /\ bufs \in Seq(Packets)
  BY <1>1, EmptyBurst
<1>4. ProcessCapacity \in Nat /\ ProfileCapacity \in Nat
  BY SizeAssumption DEF ProcessCapacity, ProfileCapacity
<1>5. pc \in [Lcores -> Labels]
  BY <1>1 DEF Lcores, Labels
<1>6. TypeOK
  <2>1. /\ PoolSize \in 0 .. PoolSize /\ 0 \in Nat
        /\ 0 \in 0 .. ProcessCapacity /\ 0 \in 0 .. ProfileCapacity
    BY <1>4, SizeAssumption
  <2> QED BY <1>1, <1>2, <1>3, <1>5, <2>1 DEF TypeOK
<1>7. NoLeak
  <2>1. InHand = 0
    BY <1>1 DEF InHand
  <2> QED BY <1>1, <1>2, <1>3, <2>1, SizeAssumption DEF NoLeak, InUse
<1>8. ControlOK /\ BurstOK /\ SlotsOK /\ LimitOK
  BY <1>1, <1>2, SizeAssumption DEF ControlOK, BurstOK, SlotsOK, LimitOK
<1>9. DropOK
  <2>1. <<>> \in Seq(Packets) /\ <<>> \o <<>> = <<>>
    BY EmptySeq, ConcatEmptySeq
  <2>2. DroppedRightly(<<>> \o <<>>, <<>>, <<>>)
    BY <2>1, NothingDropped
  <2> QED BY <1>1, <2>1, <2>2 DEF DropOK
<1> QED BY <1>2, <1>6, <1>7, <1>8, <1>9 DEF IInv

LEMMA NextIInv == IInv /\ [Next]_vars => IInv'
<1> SUFFICES ASSUME IInv, [Next]_vars PROVE IInv'
  OBVIOUS
<1>1. CASE SchedulerStep
  BY <1>1, ScheduleBurstKeeps, HandOnKeeps, RxBurstKeeps, EnqueueFCFSKeeps, EnqueueDropTailKeeps,
     EnqueueDropMaxKeeps, EnqueueHffsKeeps, TrimKeeps, FreeRestKeeps DEF SchedulerStep
<1>2. CASE ProcessStep
  BY <1>2, ProcessStepKeeps
<1>3. CASE ProfileStep
  BY <1>3, ProfileStepKeeps
<1>4. CASE SignalHandler \/ TrafficEnds \/ Finished \/ UNCHANGED vars
  BY <1>4, EnvironmentStep DEF Finished
<1> QED BY <1>1, <1>2, <1>3, <1>4 DEF Next

(* The inductive invariant: besides the properties, where each lcore may   *)
(* be, that the slots the scheduler counts are there, and that what was    *)
(* dropped was dropped rightly.                                            *)
THEOREM ServerInvariant == Spec => []IInv
<1> QED BY InitIInv, NextIInv, PTL DEF Spec

(* Every count stays in its range and no ring is over its capacity.        *)
THEOREM ServerTypeCorrect == Spec => []TypeOK
<1>1. IInv => TypeOK
  BY DEF IInv
<1> QED BY <1>1, ServerInvariant, PTL

(* Every mbuf is free or in exactly one place, whichever of the three      *)
(* lcores moves next: none leaks, and none is freed twice.                 *)
THEOREM MbufsConserved == Spec => []NoLeak
<1>1. IInv => NoLeak
  BY DEF IInv
<1> QED BY <1>1, ServerInvariant, PTL

(* What main reserves for the mbufs in use is enough, with every policy,   *)
(* also while hffs holds a whole burst over its limit.                     *)
THEOREM BudgetSufficient == Spec => []PoolBudget
<1>1. ASSUME IInv PROVE PoolBudget
  <2>1. /\ Len(queue) \in Nat /\ Len(bufs) \in Nat /\ Len(bufs) <= BURST_SIZE
        /\ process_ring \in Nat /\ process_ring <= ProcessCapacity
        /\ profile_ring \in Nat /\ profile_ring <= ProfileCapacity
    BY <1>1, StateFacts
  <2>2. InHand \in Nat /\ InHand <= 2
    BY DEF InHand
  <2>3. profile_ring <= BURST_SIZE - 1
    BY <2>1 DEF ProfileCapacity
  <2>4. CASE policy = "fcfs"
    <3>1. Len(queue) = 0 /\ process_ring <= SCHEDULER_QUEUE_SIZE - 1
      BY <1>1, <2>1, <2>4 DEF IInv, BurstOK, ProcessCapacity
    <3> QED BY <2>1, <2>2, <2>3, <3>1, SizeAssumption DEF PoolBudget, InUse
  <2>5. CASE policy # "fcfs"
    <3>1. process_ring <= PROCESS_RING_SIZE - 1
      BY <2>1, <2>5 DEF ProcessCapacity
    <3>2. Len(queue) + Len(bufs) <= SCHEDULER_QUEUE_SIZE + BURST_SIZE
      BY <1>1, <2>1, SizeAssumption DEF IInv, LimitOK
    <3> QED BY <2>1, <2>2, <2>3, <3>1, <3>2, SizeAssumption DEF PoolBudget, InUse
  <2> QED BY <2>4, <2>5
<1> QED BY <1>1, ServerInvariant, PTL

(* The packets of a queue that all were somewhere else are no more than    *)
(* were there, and as many if none was lost.                               *)
LEMMA PlacesCount ==
    ASSUME NEW q \in Seq(Packets), NEW c \in Seq(Packets), NEW place \in Places(q, c)
    PROVE  /\ Len(q) <= Len(c)
           /\ DOMAIN c \ Range(place) = {} => Len(q) = Len(c)
<1> DEFINE Q == DOMAIN q
           C == DOMAIN c
<1>1. /\ Q = 1 .. Len(q) /\ C = 1 .. Len(c) /\ Len(q) \in Nat /\ Len(c) \in Nat
  BY LenProperties
<1>2. IsFiniteSet(C) /\ Cardinality(Q) = Len(q) /\ Cardinality(C) = Len(c)
  <2>1. \A n \in Nat : IsFiniteSet(1 .. n) /\ Cardinality(1 .. n) = n
    BY FS_Interval
  <2> QED BY <1>1, <2>1
<1>3. place \in [Q -> C] /\ \A i, j \in Q : i < j => place[i] < place[j]
  BY DEF Places
<1>4. place \in Injection(Q, C)
  <2>1. ASSUME NEW i \in Q, NEW j \in Q, place[i] = place[j] PROVE i = j
    <3>1. i \in Int /\ j \in Int /\ place[i] \in Int
      BY <1>1, <1>3
    <3>2. ~ (i < j) /\ ~ (j < i)
      BY <1>3, <2>1, <3>1
    <3> QED BY <3>1, <3>2
  <2> HIDE DEF Q, C
  <2> QED BY <1>3, <2>1 DEF Injection, IsInjective
<1> HIDE DEF Q, C
<1>5. Cardinality(Q) <= Cardinality(C) /\ (Cardinality(Q) = Cardinality(C) <=> place \in Surjection(Q, C))
  BY <1>2, <1>4, FS_Injection
<1>6. ASSUME C \ Range(place) = {} PROVE place \in Surjection(Q, C)
  BY <1>3, <1>6 DEF Surjection, Range
<1> QED BY <1>2, <1>5, <1>6 DEF C

(* Between bursts, drop-max and hffs have kept as many packets as fit, in  *)
(* order, and dropped none that goes before one they kept: drop-max no     *)
(* lighter one, and hffs none of a lower bucket, of one bucket only older  *)
(* ones, and lighter ones only of one bucket or past a wrap.               *)
THEOREM LightestKept == Spec => []KeepsLightest
<1>1. ASSUME IInv, pc["scheduler"] = "schedule", policy \in DropByWeight
      PROVE  KeepsLightest
  <2>1. /\ queue \in Seq(Packets) /\ candidates \in Seq(Packets) /\ bufs = <<>>
        /\ DroppedRightly(candidates, queue, bufs) /\ Len(queue) <= SCHEDULER_QUEUE_SIZE
    BY <1>1 DEF IInv, TypeOK, BurstOK, DropOK, LimitOK
  <2>2. queue \o <<>> = queue
    BY <2>1, ConcatEmptySeq
  <2>3. PICK place \in Places(queue, candidates) :
          \A i \in DOMAIN candidates \ Range(place) :
            /\ Len(queue) >= SCHEDULER_QUEUE_SIZE
            /\ \A k \in DOMAIN queue : RightlyDropped(candidates[i], queue[k], i < place[k])
    BY <2>1, <2>2 DEF DroppedRightly
  <2>4. Len(queue) = Min({Len(candidates), SCHEDULER_QUEUE_SIZE})
    <3>1. Len(queue) \in Nat /\ Len(candidates) \in Nat /\ SCHEDULER_QUEUE_SIZE \in Nat
      BY <2>1, LenProperties, SizeAssumption
    <3>2. Min({Len(candidates), SCHEDULER_QUEUE_SIZE}) =
            IF Len(candidates) <= SCHEDULER_QUEUE_SIZE THEN Len(candidates) ELSE SCHEDULER_QUEUE_SIZE
      BY <3>1, MinOfTwo
    <3>3. Len(queue) <= Len(candidates)
      BY <2>1, PlacesCount
    <3>4. Len(queue) = Len(candidates) \/ Len(queue) >= SCHEDULER_QUEUE_SIZE
      BY <2>1, <2>3, PlacesCount
    <3> QED BY <2>1, <3>1, <3>2, <3>3, <3>4
  <2>5. ASSUME NEW k \in DOMAIN queue, NEW i \in DOMAIN candidates \ Range(place)
        PROVE  LET kept == queue[k]
                   dropped == candidates[i]
               IN  /\ ~ Before(dropped, kept)
                   /\ policy = "wsjf_hffs" =>
                       /\ BucketIdx(dropped) = BucketIdx(kept) => i < place[k]
                       /\ Lighter(dropped, kept) =>
                           \/ BucketIdx(dropped) = BucketIdx(kept)
                           \/ kept.jsize * kScaleFactor >= WeightMod
    <3> DEFINE kept == queue[k]
               dropped == candidates[i]
    <3>1. kept \in Packets /\ dropped \in Packets
      BY <2>1, ElementOfSeq, LenProperties
    <3>2. /\ ~ Before(dropped, kept)
          /\ policy = "wsjf_hffs" /\ BucketIdx(dropped) = BucketIdx(kept) => i < place[k]
      BY <2>3 DEF RightlyDropped
    <3> HIDE DEF kept, dropped
    <3>3. ASSUME policy = "wsjf_hffs", Lighter(dropped, kept),
                 ~ (kept.jsize * kScaleFactor >= WeightMod)
          PROVE  BucketIdx(dropped) = BucketIdx(kept)
      <4>1. kept.jsize * kScaleFactor \in Nat /\ WeightMod \in Nat
        BY <3>1, PacketFacts, ScaleAssumption
      <4>2. kept.jsize * kScaleFactor < WeightMod
        BY <3>3, <4>1
      <4>3. BucketIdx(dropped) <= BucketIdx(kept)
        BY <3>1, <3>3, <4>2, TruncationKeepsOrder
      <4>4. ~ (BucketIdx(dropped) < BucketIdx(kept))
        BY <3>2, <3>3 DEF Before
      <4>5. BucketIdx(dropped) \in Nat /\ BucketIdx(kept) \in Nat
        BY <3>1, BucketType
      <4> QED BY <4>3, <4>4, <4>5
    <3> QED BY <3>2, <3>3 DEF kept, dropped
  <2> QED BY <2>3, <2>4, <2>5 DEF KeepsLightest
<1>2. IInv => KeepsLightest
  BY <1>1 DEF KeepsLightest
<1> QED BY <1>2, ServerInvariant, PTL
=============================================================================
