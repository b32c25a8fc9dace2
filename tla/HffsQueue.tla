----------------------------- MODULE HffsQueue -----------------------------
(***************************************************************************)
(* The software hierarchical find-first-set queue                          *)
(* (src/scheduler/heaps/hffs_queue/software/hffs_queue.hpp): kNumBuckets   *)
(* FIFO buckets under a tree of WordBits-wide bitmaps, stored level by     *)
(* level in one flat array.  A bitmap is the set of its one-bits.          *)
(*                                                                         *)
(* Every recursion is over Nat and written as a function, so that the      *)
(* module can be proved about (HffsQueueProofs).                           *)
(***************************************************************************)
EXTENDS Integers, Sequences

CONSTANTS
    WordBits,       \* bits of one bitmap (32 in the code)
    kNumBuckets,
    kScaleFactor,
    WeightMod,      \* arithmetic on Weight is modulo this (2^32 for uint32_t)
    Tags,
    Weights,        \* the unscaled weights callers push with
    NoTag, Threw,
    MaxSize         \* bound of the model: no push beyond this many entries

ASSUME WordBitsAssumption == WordBits \in Nat /\ WordBits >= 2
ASSUME BucketsAssumption == kNumBuckets \in Nat /\ kNumBuckets >= 1
ASSUME WeightAssumption ==
    /\ kScaleFactor \in Nat
    /\ WeightMod \in Nat \ {0}
    /\ Weights \subseteq [numerator : Nat, denominator : Nat \ {0}]
ASSUME MaxSizeAssumption == MaxSize \in Nat

VARIABLES
    bitmaps,    \* the flat bitmap array
    buckets,    \* the lists of tags, oldest first
    size,
    ret         \* the last pop: was it popMin, and the tag it returned; or Threw

vars == <<bitmaps, buckets, size, ret>>

Bits == 0 .. (WordBits - 1)
Buckets == 0 .. (kNumBuckets - 1)

-----------------------------------------------------------------------------
(* The layout init() computes.                                             *)

\* Number of bitmaps of level l; current_buckets in the loop is LevelWidth[l+1].
LevelWidth[l \in Nat] == IF l = 0 THEN 1 ELSE WordBits * LevelWidth[l - 1]

\* Index in the flat array of the first bitmap of level l.
level_offsets[l \in Nat] ==
    IF l = 0 THEN 0 ELSE level_offsets[l - 1] + LevelWidth[l - 1]

\* The loop stops at the first level whose bits cover every bucket.
kNumLevels ==
    CHOOSE n \in 1 .. kNumBuckets :
        /\ kNumBuckets <= LevelWidth[n]
        /\ \A m \in 1 .. (n - 1) : kNumBuckets > LevelWidth[m]

kNumBitmaps == level_offsets[kNumLevels]

Levels == 0 .. (kNumLevels - 1)

\* Flat index of bitmap i of level l.
BitmapIdx(l, i) == level_offsets[l] + i

Bitmap(l, i) == bitmaps[BitmapIdx(l, i)]

Init ==
    /\ bitmaps = [k \in 0 .. (kNumBitmaps - 1) |-> {}]
    /\ buckets = [b \in Buckets |-> <<>>]
    /\ size = 0
    /\ ret = NoTag

-----------------------------------------------------------------------------
(* push                                                                    *)

\* The bucket of a weight: the multiplication wraps, the division truncates.
BucketIdx(w) == ((w.numerator * kScaleFactor) % WeightMod) \div w.denominator

\* Intra-level index of the node k levels above bucket b (b itself for k = 0).
Above(b) ==
    LET up[k \in Nat] == IF k = 0 THEN b ELSE up[k - 1] \div WordBits
    IN  up

\* The node of level l that bucket b hangs below; level kNumLevels is b.
NodeOf(b, l) == Above(b)[kNumLevels - l]

\* Mutant: the bit index is not masked to the width of a bitmap.
MutantUnmaskedBit(b, l) == NodeOf(b, l + 1)

\* The bit of level l's bitmap that leads to bucket b.
BitOf(b, l) == NodeOf(b, l + 1) % WordBits

\* Mutant: only the lowest bitmap is updated.
MutantPushLowestOnly(b, l) == l = kNumLevels - 1

\* Levels the upward loop reaches: it goes on while what it updated was empty.
PushReaches(b, l) ==
    /\ buckets[b] = <<>>
    /\ \A m \in (l + 1) .. (kNumLevels - 1) : Bitmap(m, NodeOf(b, m)) = {}

BitmapsAfterPush(b) ==
    [k \in DOMAIN bitmaps |->
        bitmaps[k] \cup
            {BitOf(b, l) : l \in {m \in Levels : /\ k = BitmapIdx(m, NodeOf(b, m))
                                                 /\ PushReaches(b, m)}}]

\* Mutant: the size is only counted when the bitmaps change.
MutantPushCountsBuckets(tag, w) ==
    LET b == BucketIdx(w)
    IN  /\ b < kNumBuckets
        /\ size < MaxSize
        /\ buckets' = [buckets EXCEPT ![b] = Append(@, tag)]
        /\ bitmaps' = BitmapsAfterPush(b)
        /\ size' = IF buckets[b] = <<>> THEN size + 1 ELSE size
        /\ UNCHANGED ret

\* The range test is the code's SP_ASSERT: a weight out of range aborts.
Push(tag, w) ==
    LET b == BucketIdx(w)
    IN  /\ b < kNumBuckets
        /\ size < MaxSize
        /\ buckets' = [buckets EXCEPT ![b] = Append(@, tag)]
        /\ bitmaps' = BitmapsAfterPush(b)
        /\ size' = size + 1
        /\ UNCHANGED ret

-----------------------------------------------------------------------------
(* pop_                                                                    *)

\* Mutant: ctz and clz exchanged.
MutantSwappedFfs(isPopMin, bm) ==
    IF bm = {} THEN 0
    ELSE CHOOSE c \in bm : \A d \in bm : IF isPopMin THEN d <= c ELSE c <= d

\* ctz / clz of a bitmap.  Of an empty one they are undefined; the SP_ASSERT
\* before them (WalkAsserts) keeps the code from getting that far.
FindFirstSet(isPopMin, bm) ==
    IF bm = {} THEN 0
    ELSE CHOOSE c \in bm : \A d \in bm : IF isPopMin THEN c <= d ELSE d <= c

\* Intra-level index the downward walk has at each level; the last is the
\* bucket.  This is level_stack_, which is scratch: written before it is read.
Walk(isPopMin) ==
    LET idx[l \in 0 .. kNumLevels] ==
            IF l = 0 THEN 0
            ELSE LET i == idx[l - 1]
                 IN  i * WordBits + FindFirstSet(isPopMin, Bitmap(l - 1, i))
    IN  idx

\* The two assertions of pop_: no bitmap on the way is zero, and the bucket
\* the walk ends in exists and holds a tag.
WalkAsserts(isPopMin) ==
    LET path == Walk(isPopMin)
    IN  /\ \A l \in Levels : Bitmap(l, path[l]) # {}
        /\ path[kNumLevels] \in Buckets
        /\ buckets[path[kNumLevels]] # <<>>

\* Mutant: the loop does not stop at a bitmap that is still in use.
MutantPopClearsAll(path, l) == Tail(buckets[path[kNumLevels]]) = <<>>

\* Levels whose bit the clearing loop reaches: it goes on while the bitmap it
\* cleared a bit of became zero.
PopReaches(path, l) ==
    /\ Tail(buckets[path[kNumLevels]]) = <<>>
    /\ \A m \in (l + 1) .. (kNumLevels - 1) :
            Bitmap(m, path[m]) \subseteq {path[m + 1] % WordBits}

BitmapsAfterPop(path) ==
    [k \in DOMAIN bitmaps |->
        bitmaps[k] \
            {path[l + 1] % WordBits : l \in {m \in Levels : /\ k = BitmapIdx(m, path[m])
                                                            /\ PopReaches(path, m)}}]

Pop(isPopMin) ==
    LET path == Walk(isPopMin)
        b == path[kNumLevels]
    IN  /\ size # 0
        /\ WalkAsserts(isPopMin)
        /\ ret' = <<isPopMin, Head(buckets[b])>>
        /\ buckets' = [buckets EXCEPT ![b] = Tail(@)]
        /\ bitmaps' = BitmapsAfterPop(path)
        /\ size' = size - 1

popMin == Pop(TRUE)
popMax == Pop(FALSE)

\* Either pop of the empty queue throws and changes nothing.
PopEmpty ==
    /\ size = 0
    /\ ret' = Threw
    /\ UNCHANGED <<bitmaps, buckets, size>>

Next ==
    \/ \E tag \in Tags, w \in Weights : Push(tag, w)
    \/ popMin
    \/ popMax
    \/ PopEmpty

Spec == Init /\ [][Next]_vars

-----------------------------------------------------------------------------
(* Properties                                                              *)

TypeOK ==
    /\ bitmaps \in [0 .. (kNumBitmaps - 1) -> SUBSET Bits]
    /\ buckets \in [Buckets -> Seq(Tags)]
    /\ size \in Nat
    /\ ret \in (BOOLEAN \X Tags) \cup {NoTag, Threw}

\* Whether there is an entry at or below node i of level l, as the level
\* itself tells: a bit for an inner level, the list for a bucket.
Occupied(l, i) ==
    IF l = kNumLevels THEN i \in Buckets /\ buckets[i] # <<>>
                      ELSE Bitmap(l, i) # {}

\* Every bit of the tree says exactly whether there is an entry below it: both
\* upward loops stop early, and stop no earlier than they may.
TreeConsistent ==
    \A l \in Levels : \A i \in 0 .. (LevelWidth[l] - 1) : \A c \in Bits :
        c \in Bitmap(l, i) <=> Occupied(l + 1, i * WordBits + c)

\* Entries in the buckets of bk below n.
EntriesBelow(bk) ==
    LET sum[n \in 0 .. kNumBuckets] ==
            IF n = 0 THEN 0 ELSE sum[n - 1] + Len(bk[n - 1])
    IN  sum

\* size_ counts the entries of all buckets; empty() is decided by it alone,
\* while the walk trusts the bitmaps.
SizeCountsEntries == size = EntriesBelow(buckets)[kNumBuckets]

\* No SP_ASSERT of pop_ fails: as long as size_ is not zero the walk down the
\* bitmaps, for the minimum and for the maximum, ends in a bucket with a tag.
AssertsHold == size # 0 => WalkAsserts(TRUE) /\ WalkAsserts(FALSE)

BQ == INSTANCE BucketQueue

\* popMin and popMax return the oldest tag of the lowest and of the highest
\* bucket in use, and throw exactly when there is none: the bitmap tree never
\* shows in what the callers see.
RefinesBucketQueue == BQ!BQSpec
=============================================================================
