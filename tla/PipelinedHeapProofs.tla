------------------------ MODULE PipelinedHeapProofs ------------------------
(***************************************************************************)
(* Theorems about the pipelined hardware heap, for every size of it.       *)
(***************************************************************************)
EXTENDS PipelinedHeap, NatRecursion, SequenceTheorems

-----------------------------------------------------------------------------
(* The inductive invariant.                                                *)

Busy(k) == reg[k] # Idle
Enque(k) == Busy(k) /\ IsEnque(reg[k])
NoOps == \A k \in 0 .. 4 : ~ Busy(k)

\* What INIT has written so far, and that nothing else has happened since rst.
Initialising ==
    /\ NoOps
    /\ free_list = [head |-> 0, tail |-> MaxEntries - 1]
    /\ l1_bitmap = {}
    /\ l2_bitmaps = [i \in Bits |-> {}]
    /\ size = 0
    /\ ~ init.fl_done => init.fl < MaxEntries
    /\ \A e \in Entries : init.fl_done \/ e < init.fl => fl[e] = e + 1
    /\ \A p \in Priorities : init.pb_done \/ p < init.pb => pb[p] = EmptyList
    /\ \A k \in 0 .. 3 : aux[k] = NoAux

\* The sequence s is what list and the links next hold.
IsChain(s, list, next) ==
    IF list.head = INVALID_PTR THEN s = <<>> ELSE s \in EntrySeqs /\ Links(list, next, s)

NextOf == [e \in Entries |-> he[e].next]

Partition(free, bucket) ==
    /\ \A e \in Entries : e \in Range(free) \/ \E p \in Priorities : e \in Range(bucket[p])
    /\ \A p \in Priorities : Range(free) \cap Range(bucket[p]) = {}
    /\ \A p \in Priorities : \A q \in Priorities :
          p # q => Range(bucket[p]) \cap Range(bucket[q]) = {}

ListsOK ==
    /\ IsChain(FreeEntries, free_list, fl)
    /\ \A p \in Priorities : IsChain(Bucket(p), pb[p], NextOf)
    /\ Partition(FreeEntries, [p \in Priorities |-> Bucket(p)])
    /\ size = Cardinality(Entries \ Range(FreeEntries))
    /\ \A p \in Priorities : \A e \in Range(Bucket(p)) : he[e].value \in Values

BitmapsOK ==
    /\ \A p \in Priorities :
          p % BitmapWidth \in l2_bitmaps[p \div BitmapWidth] <=> p \in Occupied(pb)
    /\ l1_bitmap = {i \in Bits : l2_bitmaps[i] # {}}

\* What the pipeline has read is what the memories hold, once the operation
\* that has just committed is taken into account.
ReadBucket == IF reg[4] # Idle /\ conflict.pb THEN last.pb ELSE pb_q

PipelineOK ==
    /\ reg_l1_bitmap_q0 = l1_bitmap
    /\ \A k \in 0 .. 3 : Enque(k) => reg[k].priority \in Priorities /\ reg[k].value \in Values
    /\ \A k \in 1 .. 3 : Busy(k) => reg[k].l2_bitmap = l2_bitmaps[reg[k].l1_idx]
    /\ Enque(1) => reg[1].l1_idx = reg[1].priority \div BitmapWidth
    /\ \A k \in 2 .. 3 : Busy(k) =>
          /\ reg[k].priority \in Priorities
          /\ reg[k].l1_idx = reg[k].priority \div BitmapWidth
    /\ Busy(2) => ReadBucket = pb[reg[2].priority]
    /\ Busy(3) =>
          /\ reg_pb_q3 = pb[reg[3].priority]
          /\ Enque(3) => free_list.head # INVALID_PTR /\ int_fl_q = fl[free_list.head]
          /\ ~ Enque(3) => reg_pb_q3.head # INVALID_PTR /\ int_he_q = he[reg_pb_q3.head]

\* A deque has not chosen worse than what has been occupied all the time.
OrderOK ==
    /\ \A k \in 0 .. 3 : aux[k].present \subseteq Occupied(pb)
    /\ Busy(1) => \A p \in aux[1].present :
          /\ reg[1].type = "DEQUE_MIN" => reg[1].l1_idx <= p \div BitmapWidth
          /\ reg[1].type = "DEQUE_MAX" => reg[1].l1_idx >= p \div BitmapWidth
    /\ \A k \in 2 .. 3 : Busy(k) => \A p \in aux[k].present :
          /\ reg[k].type = "DEQUE_MIN" => reg[k].priority <= p
          /\ reg[k].type = "DEQUE_MAX" => reg[k].priority >= p

\* An assured enque has a free entry to itself, and an assured deque finds the
\* bits of the way to its bucket set: no deque is in front of it.
EnquesFrom(k) == Cardinality({j \in k .. 3 : Enque(j)})

SureOK ==
    /\ \A k \in 0 .. 3 : aux[k].sure => Busy(k)
    /\ \A k \in 0 .. 3 : Enque(k) /\ aux[k].sure => size + EnquesFrom(k) <= MaxEntries
    /\ \A k \in 0 .. 2 : Busy(k) /\ ~ Enque(k) /\ aux[k].sure =>
          \A j \in (k + 1) .. 3 : Busy(j) => Enque(j)
    /\ Busy(0) /\ ~ Enque(0) /\ aux[0].sure => Occupied(pb) # {}
    /\ Busy(1) /\ ~ Enque(1) /\ aux[1].sure => l2_bitmaps[reg[1].l1_idx] # {}
    /\ Busy(2) /\ ~ Enque(2) /\ aux[2].sure => pb[reg[2].priority].head # INVALID_PTR

Operating == ListsOK /\ BitmapsOK /\ PipelineOK /\ OrderOK /\ SureOK

IInv ==
    /\ TypeOK
    /\ state = "IDLE" => NoOps /\ \A k \in 0 .. 3 : aux[k] = NoAux
    /\ state = "INIT" => Initialising
    /\ state = "READY" => Operating

-----------------------------------------------------------------------------
(* Addresses and priorities.                                               *)

LEMMA TwoToFacts ==
    /\ TwoTo \in [Nat -> Nat]
    /\ TwoTo[0] = 1
    /\ \A n \in Nat : TwoTo[n + 1] = 2 * TwoTo[n]
<1> DEFINE step == [p \in Nat \X Nat |-> 2 * p[2]]
<1>1. IsStep(step, Nat) /\ 1 \in Nat
  BY DEF IsStep
<1>2. \A n \in Nat, t \in Nat : step[<<n, t>>] = 2 * t
  OBVIOUS
<1> HIDE DEF step
<1>3. PICK f : IsRecursion(f, Nat, 1, step)
  BY <1>1, PrimitiveRecursion
<1>4. f \in [Nat -> Nat] /\ f[0] = 1
  BY <1>3 DEF IsRecursion
<1>5. ASSUME NEW n \in Nat, n # 0 PROVE f[n] = 2 * f[n - 1]
  <2>1. n - 1 \in Nat /\ n \in Nat \ {0} /\ f[n - 1] \in Nat
    BY <1>4, <1>5
  <2>2. f[n] = step[<<n - 1, f[n - 1]>>]
    BY <1>3, <2>1 DEF IsRecursion
  <2> QED BY <1>2, <2>1, <2>2
<1>6. f = [n \in Nat |-> IF n = 0 THEN 1 ELSE 2 * f[n - 1]]
  BY <1>4, <1>5
<1>7. TwoTo = [n \in Nat |-> IF n = 0 THEN 1 ELSE 2 * TwoTo[n - 1]]
  BY <1>6 DEF TwoTo
<1>8. TwoTo[0] = 1
  BY <1>7
<1>9. ASSUME NEW n \in Nat PROVE TwoTo[n + 1] = 2 * TwoTo[n]
  <2>1. n + 1 \in Nat /\ n + 1 # 0 /\ (n + 1) - 1 = n
    OBVIOUS
  <2> QED BY <1>7, <2>1
<1>10. TwoTo \in [Nat -> Nat]
  <2> DEFINE S == {n \in Nat : TwoTo[n] \in Nat}
  <2>1. 0 \in S /\ \A n \in Nat : n \in S => n + 1 \in S
    BY <1>1, <1>8, <1>9
  <2>2. Nat \subseteq S
    <3> HIDE DEF S
    <3> QED BY <2>1, SetInduction
  <2> QED BY <1>7, <2>2
<1> QED
  BY <1>8, <1>9, <1>10

LEMMA TwoToBound == \A n \in Nat : TwoTo[n] > n
<1> DEFINE S == {n \in Nat : TwoTo[n] > n}
<1>1. 0 \in S
  BY TwoToFacts
<1>2. ASSUME NEW n \in Nat, n \in S PROVE n + 1 \in S
  BY <1>2, TwoToFacts
<1>3. Nat \subseteq S
  <2> HIDE DEF S
  <2> QED BY <1>1, <1>2, SetInduction
<1> QED BY <1>3

LEMMA WidthFacts == BitmapWidth \in Nat /\ BitmapWidth >= 2
<1>1. PICK w \in 1 .. BitmapWidth : BitmapWidth = TwoTo[w]
  BY WidthAssumption
<1>2. BitmapWidth \in Nat
  BY WidthAssumption
<1>3. w \in Nat /\ w >= 1
  BY <1>1, <1>2
<1>4. BitmapWidth > w
  BY <1>1, <1>3, TwoToBound
<1> QED BY <1>2, <1>3, <1>4

(* The address width of the memories is enough for every entry, so an      *)
(* entry is its own address.                                               *)
LEMMA AddressFacts ==
    /\ AddressSpace \in Nat
    /\ MaxEntries <= AddressSpace
    /\ \A e \in Entries : Addr(e) = e
<1> DEFINE W == {w \in 1 .. MaxEntries : TwoTo[w] >= MaxEntries}
<1>2. MaxEntries \in W
  BY TwoToBound, EntriesAssumption, TwoToFacts
<1>3. Min(W) \in W
  <2>1. W \subseteq Nat /\ W # {}
    BY <1>2
  <2> HIDE DEF W
  <2> QED BY <2>1, MinFacts
<1>4. AddressSpace \in Nat /\ MaxEntries <= AddressSpace
  <2>1. HEAP_ENTRY_AWIDTH \in W
    BY <1>3 DEF HEAP_ENTRY_AWIDTH
  <2> QED BY <2>1, TwoToFacts, EntriesAssumption DEF AddressSpace
<1>5. ASSUME NEW e \in Entries PROVE Addr(e) = e
  <2>1. e \in Nat /\ e < AddressSpace
    BY <1>4, EntriesAssumption DEF Entries
  <2>2. e % AddressSpace = e
    BY <1>4, <2>1
  <2> QED BY <2>2 DEF Addr
<1> QED BY <1>4, <1>5

(* A priority is an L1 index and an L2 index.                              *)
LEMMA PriorityFacts ==
    ASSUME NEW p \in Priorities
    PROVE  /\ p \in Nat
           /\ p \div BitmapWidth \in Bits
           /\ p % BitmapWidth \in Bits
           /\ p = (p \div BitmapWidth) * BitmapWidth + (p % BitmapWidth)
<1>0. BitmapWidth \in Nat /\ BitmapWidth >= 1
  BY WidthAssumption
<1>1. p \in Nat /\ p < BitmapWidth * BitmapWidth
  BY <1>0 DEF Priorities
<1>2. p \div BitmapWidth \in Nat /\ p % BitmapWidth \in Bits
  BY <1>0, <1>1 DEF Bits
<1>3. p = (p \div BitmapWidth) * BitmapWidth + (p % BitmapWidth)
  <2> DEFINE w == BitmapWidth
  <2>1. w \in Nat /\ w >= 1
    BY <1>0
  <2> HIDE DEF w
  <2>2. p = (p \div w) * w + (p % w)
    BY <1>1, <2>1
  <2> QED BY <2>2 DEF w
<1>4. p \div BitmapWidth < BitmapWidth
  <2>1. SUFFICES ASSUME p \div BitmapWidth >= BitmapWidth PROVE FALSE
    BY <1>0, <1>2
  <2>2. (p \div BitmapWidth) * BitmapWidth >= BitmapWidth * BitmapWidth
    BY <1>0, <1>2, <2>1
  <2>3. p % BitmapWidth >= 0 /\ p % BitmapWidth \in Nat
    BY <1>2 DEF Bits
  <2> QED BY <1>0, <1>1, <1>2, <1>3, <2>2, <2>3
<1> QED BY <1>0, <1>1, <1>2, <1>3, <1>4 DEF Bits

LEMMA PriorityOf ==
    ASSUME NEW i \in Bits, NEW j \in Bits
    PROVE  /\ j + i * BitmapWidth \in Priorities
           /\ (j + i * BitmapWidth) \div BitmapWidth = i
           /\ (j + i * BitmapWidth) % BitmapWidth = j
<1>0. /\ BitmapWidth \in Nat /\ BitmapWidth >= 1
      /\ i \in Nat /\ j \in Nat /\ j < BitmapWidth /\ i <= BitmapWidth - 1
  BY WidthAssumption DEF Bits
<1>1. i * BitmapWidth \in Nat /\ i * BitmapWidth <= (BitmapWidth - 1) * BitmapWidth
  BY <1>0
<1>2. (BitmapWidth - 1) * BitmapWidth = BitmapWidth * BitmapWidth - BitmapWidth
  BY <1>0
<1>3. j + i * BitmapWidth \in Priorities
  BY <1>0, <1>1, <1>2 DEF Priorities
<1>4. (j + i * BitmapWidth) \div BitmapWidth = i
  BY <1>0, <1>1
<1>5. (j + i * BitmapWidth) % BitmapWidth = j
  BY <1>0, <1>1
<1> QED BY <1>3, <1>4, <1>5

-----------------------------------------------------------------------------
(* Linked lists.                                                           *)

LEMMA EntrySeqFacts ==
    ASSUME NEW s \in EntrySeqs
    PROVE  /\ s \in Seq(Entries) /\ s # <<>>
           /\ Len(s) \in 1 .. MaxEntries
           /\ s \in [1 .. Len(s) -> Entries] /\ DOMAIN s = 1 .. Len(s)
           /\ IsInjective(s)
<1>1. PICK n \in 1 .. MaxEntries : s \in [1 .. n -> Entries]
  BY DEF EntrySeqs
<1>2. n \in Nat /\ n >= 1
  BY <1>1, EntriesAssumption
<1>3. s \in Seq(Entries)
  BY <1>1, <1>2, SeqDef
<1>4. DOMAIN s = 1 .. n
  BY <1>1
<1>5. DOMAIN s = 1 .. Len(s) /\ Len(s) \in Nat /\ s \in [1 .. Len(s) -> Entries]
  BY <1>3, LenProperties
<1>6. Len(s) = n
  BY <1>2, <1>4, <1>5
<1>7. s # <<>>
  BY <1>2, <1>6, EmptySeq
<1> QED BY <1>1, <1>3, <1>5, <1>6, <1>7 DEF EntrySeqs

(* There are no more distinct entries than MaxEntries.                     *)
LEMMA EntrySeqIs ==
    ASSUME NEW s \in Seq(Entries), s # <<>>, IsInjective(s)
    PROVE  s \in EntrySeqs
<1>1. /\ Len(s) \in Nat /\ DOMAIN s = 1 .. Len(s)
      /\ s \in [1 .. Len(s) -> Entries] /\ Len(s) # 0
  BY LenProperties, EmptySeq
<1>2. s \in Injection(1 .. Len(s), Entries)
  BY <1>1 DEF Injection
<1>3. IsFiniteSet(Entries) /\ Cardinality(Entries) = MaxEntries
  BY EntriesAssumption, FS_Interval DEF Entries
<1>4. Cardinality(1 .. Len(s)) = Len(s)
  BY <1>1, FS_Interval
<1>5. Len(s) <= MaxEntries
  BY <1>2, <1>3, <1>4, FS_Injection
<1>6. Len(s) \in 1 .. MaxEntries
  BY <1>1, <1>5, EntriesAssumption
<1>7. s \in UNION {[1 .. n -> Entries] : n \in 1 .. MaxEntries}
  BY <1>1, <1>6
<1> QED BY <1>7 DEF EntrySeqs

(* The links determine the sequence.                                       *)
LEMMA LinksUnique ==
    ASSUME NEW list, NEW next, NEW s \in EntrySeqs, NEW t \in EntrySeqs,
           Links(list, next, s), Links(list, next, t)
    PROVE  s = t
<1> DEFINE S == {n \in Nat : n + 1 <= Len(s) /\ n + 1 <= Len(t) => s[n + 1] = t[n + 1]}
<1>1. /\ Len(s) \in Nat /\ Len(s) >= 1 /\ DOMAIN s = 1 .. Len(s)
      /\ Len(t) \in Nat /\ Len(t) >= 1 /\ DOMAIN t = 1 .. Len(t)
      /\ s \in Seq(Entries) /\ t \in Seq(Entries)
      /\ IsInjective(s) /\ IsInjective(t)
  BY EntrySeqFacts, EntriesAssumption
<1>2. 0 \in S
  BY DEF Links
<1>3. ASSUME NEW n \in Nat, n \in S PROVE n + 1 \in S
  <2>1. SUFFICES ASSUME (n + 1) + 1 <= Len(s), (n + 1) + 1 <= Len(t)
                 PROVE  s[(n + 1) + 1] = t[(n + 1) + 1]
    OBVIOUS
  <2>2. s[n + 1] = t[n + 1]
    BY <1>1, <1>3, <2>1
  <2>3. n + 1 \in 1 .. (Len(s) - 1) /\ n + 1 \in 1 .. (Len(t) - 1)
    BY <1>1, <2>1
  <2> QED BY <2>2, <2>3 DEF Links
<1>4. Nat \subseteq S
  <2> HIDE DEF S
  <2> QED BY <1>2, <1>3, SetInduction
<1>5. ASSUME NEW i \in 1 .. Len(s), i \in 1 .. Len(t) PROVE s[i] = t[i]
  <2>1. i - 1 \in S /\ (i - 1) + 1 = i
    BY <1>1, <1>4
  <2> QED BY <1>1, <2>1, <1>5
<1>6. Len(s) = Len(t)
  <2>1. s[Len(s)] = t[Len(t)]
    BY DEF Links
  <2>2. CASE Len(s) <= Len(t)
    <3>1. Len(s) \in 1 .. Len(t) /\ Len(t) \in 1 .. Len(t)
      BY <1>1, <2>2
    <3>2. t[Len(s)] = t[Len(t)]
      BY <1>1, <1>5, <2>1, <3>1
    <3> QED BY <1>1, <3>1, <3>2 DEF IsInjective
  <2>3. CASE Len(t) <= Len(s)
    <3>1. Len(t) \in 1 .. Len(s) /\ Len(s) \in 1 .. Len(s)
      BY <1>1, <2>3
    <3>2. s[Len(s)] = s[Len(t)]
      BY <1>1, <1>5, <2>1, <2>3
    <3> QED BY <1>1, <3>1, <3>2 DEF IsInjective
  <2>4. Len(s) <= Len(t) \/ Len(t) <= Len(s)
    <3>1. Len(s) \in Nat /\ Len(t) \in Nat
      BY <1>1
    <3> QED BY <3>1
  <2> QED BY <2>2, <2>3, <2>4
<1>7. \A i \in 1 .. Len(s) : s[i] = t[i]
  BY <1>5, <1>6
<1> QED BY <1>1, <1>6, <1>7, SeqEqual

(* Chain computes the sequence that a list and the links hold.             *)
LEMMA ChainIs ==
    ASSUME NEW list, NEW next, NEW s, IsChain(s, list, next)
    PROVE  Chain(list, next) = s
<1>1. CASE list.head = INVALID_PTR
  BY <1>1 DEF IsChain, Chain
<1>2. CASE list.head # INVALID_PTR
  <2>1. s \in EntrySeqs /\ Links(list, next, s)
    BY <1>2 DEF IsChain
  <2>2. /\ Len(s) \in Nat /\ Len(s) >= 1 /\ DOMAIN s = 1 .. Len(s)
        /\ IsInjective(s) /\ s \in Seq(Entries)
    BY <2>1, EntrySeqFacts, EntriesAssumption
  <2>3. list.head = list.tail => s = <<list.head>>
    <3>1. SUFFICES ASSUME list.head = list.tail PROVE s = <<list.head>>
      OBVIOUS
    <3>2. s[1] = s[Len(s)] /\ s[1] = list.head
      BY <2>1, <3>1 DEF Links
    <3>3. 1 \in DOMAIN s /\ Len(s) \in DOMAIN s
      BY <2>2
    <3>4. Len(s) = 1
      BY <3>2, <3>3, <2>2 DEF IsInjective
    <3>5. list.head \in Entries
      BY <2>1, <3>2, <3>3, EntrySeqFacts
    <3>6. <<list.head>> \in Seq(Entries) /\ Len(<<list.head>>) = 1
      BY <3>5
    <3>7. \A i \in 1 .. Len(s) : s[i] = <<list.head>>[i]
      BY <3>2, <3>4
    <3> QED BY <2>2, <3>4, <3>6, <3>7, SeqEqual
  <2>4. {t \in EntrySeqs : Links(list, next, t)} = {s}
    BY <2>1, LinksUnique
  <2>5. (CHOOSE t \in {s} : TRUE) = s
    OBVIOUS
  <2> QED BY <1>2, <2>3, <2>4, <2>5 DEF Chain
<1> QED BY <1>1, <1>2

LEMMA EntriesFacts ==
    /\ IsFiniteSet(Entries) /\ Cardinality(Entries) = MaxEntries
    /\ \A e \in Entries : e \in Nat /\ e < MaxEntries /\ e # INVALID_PTR
BY EntriesAssumption, FS_Interval DEF Entries, INVALID_PTR

LEMMA ChainFacts ==
    ASSUME NEW s, NEW list, NEW next, IsChain(s, list, next)
    PROVE  /\ s \in Seq(Entries) /\ IsInjective(s) /\ Len(s) \in Nat
           /\ DOMAIN s = 1 .. Len(s) /\ s \in [1 .. Len(s) -> Entries]
           /\ Range(s) \subseteq Entries
           /\ s # <<>> <=> list.head # INVALID_PTR
           /\ s # <<>> =>
                 /\ s \in EntrySeqs /\ Links(list, next, s)
                 /\ Len(s) >= 1
                 /\ list.head = s[1] /\ list.head \in Range(s)
                 /\ list.tail = s[Len(s)] /\ list.tail \in Range(s)
<1>1. CASE s = <<>>
  <2>1. s \in Seq(Entries) /\ Len(s) = 0
    BY <1>1, EmptySeq
  <2>2. DOMAIN s = 1 .. Len(s) /\ s \in [1 .. Len(s) -> Entries]
    BY <2>1, LenProperties
  <2>3. DOMAIN s = {}
    BY <2>1, <2>2
  <2>4. IsInjective(s) /\ Range(s) \subseteq Entries
    BY <2>3 DEF IsInjective, Range
  <2>5. list.head = INVALID_PTR
    BY <1>1, EntrySeqFacts DEF IsChain
  <2> QED BY <1>1, <2>1, <2>2, <2>4, <2>5
<1>2. CASE s # <<>>
  <2>1. s \in EntrySeqs /\ Links(list, next, s) /\ list.head # INVALID_PTR
    BY <1>2 DEF IsChain
  <2>2. /\ s \in Seq(Entries) /\ Len(s) \in 1 .. MaxEntries
        /\ s \in [1 .. Len(s) -> Entries] /\ DOMAIN s = 1 .. Len(s) /\ IsInjective(s)
    BY <2>1, EntrySeqFacts
  <2>3. Len(s) \in Nat /\ Len(s) >= 1
    BY <2>2, EntriesAssumption
  <2>4. list.head = s[1] /\ list.tail = s[Len(s)]
    BY <2>1 DEF Links
  <2>5. 1 \in DOMAIN s /\ Len(s) \in DOMAIN s
    BY <2>2, <2>3
  <2>6. Range(s) \subseteq Entries
    BY <2>2 DEF Range
  <2>7. s[1] \in Range(s) /\ s[Len(s)] \in Range(s)
    BY <2>5 DEF Range
  <2> QED BY <1>2, <2>1, <2>2, <2>3, <2>4, <2>6, <2>7
<1> QED BY <1>1, <1>2

(* A list whose links have not changed holds what it held.                 *)
LEMMA ChainFrame ==
    ASSUME NEW s, NEW list, NEW next, NEW next2, IsChain(s, list, next),
           \A e \in Range(s) : next2[e] = next[e]
    PROVE  IsChain(s, list, next2)
<1>1. CASE s = <<>>
  BY <1>1, EntrySeqFacts DEF IsChain
<1>2. CASE s # <<>>
  <2>1. s \in EntrySeqs /\ Links(list, next, s) /\ Len(s) \in Nat /\ DOMAIN s = 1 .. Len(s)
    BY <1>2, ChainFacts
  <2>2. \A i \in 1 .. (Len(s) - 1) : s[i] \in Range(s)
    BY <2>1 DEF Range
  <2>3. Links(list, next2, s)
    BY <2>1, <2>2 DEF Links
  <2> QED BY <1>2, <2>1, <2>3, ChainFacts DEF IsChain
<1> QED BY <1>1, <1>2

(* An entry put in front: what an enque does to its bucket.                *)
LEMMA ChainPush ==
    ASSUME NEW s, NEW list, NEW next, NEW list2, NEW next2, NEW e \in Entries,
           IsChain(s, list, next), e \notin Range(s),
           \A x \in Range(s) : next2[x] = next[x],
           next2[e] = list.head, list2.head = e,
           list2.tail = IF list.head = INVALID_PTR THEN e ELSE list.tail
    PROVE  /\ IsChain(<<e>> \o s, list2, next2)
           /\ Range(<<e>> \o s) = {e} \cup Range(s)
<1> DEFINE t == <<e>> \o s
<1>1. /\ s \in Seq(Entries) /\ IsInjective(s) /\ Len(s) \in Nat /\ DOMAIN s = 1 .. Len(s)
      /\ Range(s) \subseteq Entries
  BY ChainFacts
<1>2. <<e>> \in Seq(Entries) /\ Len(<<e>>) = 1 /\ <<e>>[1] = e
  OBVIOUS
<1>3. t \in Seq(Entries) /\ Len(t) = 1 + Len(s)
  BY <1>1, <1>2, ConcatProperties
<1>4. t[1] = e
  <2>1. 1 \in 1 .. (Len(<<e>>) + Len(s)) /\ 1 <= Len(<<e>>)
    BY <1>1, <1>2
  <2> QED BY <1>1, <1>2, <2>1, ConcatProperties
<1>5. ASSUME NEW i \in 1 .. Len(s) PROVE t[i + 1] = s[i]
  <2>1. i + 1 \in 1 .. (Len(<<e>>) + Len(s)) /\ ~ (i + 1 <= Len(<<e>>)) /\ (i + 1) - Len(<<e>>) = i
    BY <1>1, <1>2
  <2> QED BY <1>1, <1>2, <2>1, ConcatProperties
<1>6. DOMAIN t = 1 .. (1 + Len(s))
  BY <1>3, LenProperties
<1> HIDE DEF t
<1>7. ASSUME NEW i \in DOMAIN t, i # 1
      PROVE  i - 1 \in 1 .. Len(s) /\ t[i] = s[i - 1]
  <2>1. i - 1 \in 1 .. Len(s) /\ (i - 1) + 1 = i
    BY <1>1, <1>6, <1>7
  <2> QED BY <1>5, <2>1
<1>8. Range(t) = {e} \cup Range(s)
  <2>1. \A i \in DOMAIN t : t[i] \in {e} \cup Range(s)
    BY <1>1, <1>4, <1>7 DEF Range
  <2>2. e \in Range(t)
    <3>1. 1 \in DOMAIN t
      BY <1>1, <1>6
    <3> QED BY <1>4, <3>1 DEF Range
  <2>3. \A i \in DOMAIN s : s[i] \in Range(t)
    <3>1. \A i \in DOMAIN s : i + 1 \in DOMAIN t
      BY <1>1, <1>6
    <3> QED BY <1>1, <1>5, <3>1 DEF Range
  <2> QED BY <2>1, <2>2, <2>3 DEF Range
<1>9. IsInjective(t)
  <2>1. SUFFICES ASSUME NEW i \in DOMAIN t, NEW j \in DOMAIN t, t[i] = t[j] PROVE i = j
    BY DEF IsInjective
  <2>2. \A k \in DOMAIN t : k # 1 => t[k] \in Range(s)
    BY <1>1, <1>7 DEF Range
  <2>3. CASE i = 1 \/ j = 1
    BY <1>4, <2>1, <2>2, <2>3
  <2>4. CASE i # 1 /\ j # 1
    <3>1. i - 1 = j - 1
      <4>1. i - 1 \in DOMAIN s /\ j - 1 \in DOMAIN s /\ s[i - 1] = s[j - 1]
        BY <1>1, <1>7, <2>1, <2>4
      <4> QED BY <1>1, <4>1 DEF IsInjective
    <3> QED BY <1>1, <1>6, <3>1
  <2> QED BY <2>3, <2>4
<1>10. t # <<>>
  BY <1>1, <1>3, EmptySeq
<1>11. t \in EntrySeqs
  BY <1>3, <1>9, <1>10, EntrySeqIs
<1>12. t[Len(t)] = list2.tail
  <2>1. CASE s = <<>>
    <3>1. Len(t) = 1 /\ list.head = INVALID_PTR
      BY <1>3, <2>1, ChainFacts, EmptySeq
    <3> QED BY <1>4, <3>1
  <2>2. CASE s # <<>>
    <3>1. list.head # INVALID_PTR /\ list.tail = s[Len(s)] /\ Len(s) >= 1
      BY <2>2, ChainFacts
    <3>2. Len(s) \in 1 .. Len(s) /\ Len(t) = Len(s) + 1
      BY <1>1, <1>3, <3>1
    <3> QED BY <1>5, <3>1, <3>2
  <2> QED BY <2>1, <2>2
<1>13. ASSUME NEW i \in 1 .. (Len(t) - 1) PROVE next2[t[i]] = t[i + 1]
  <2>1. i \in 1 .. Len(s) /\ t[i + 1] = s[i]
    BY <1>1, <1>3, <1>5
  <2>2. s # <<>> /\ Links(list, next, s)
    <3>1. s # <<>>
      BY <1>1, <2>1, EmptySeq
    <3> QED BY <3>1, ChainFacts
  <2>3. CASE i = 1
    BY <1>4, <2>1, <2>2, <2>3 DEF Links
  <2>4. CASE i # 1
    <3>1. /\ i \in DOMAIN t /\ i - 1 \in 1 .. (Len(s) - 1) /\ i - 1 \in DOMAIN s
          /\ (i - 1) + 1 = i
      BY <1>1, <1>6, <2>1, <2>4
    <3>2. t[i] = s[i - 1] /\ s[i - 1] \in Range(s)
      BY <1>7, <2>4, <3>1 DEF Range
    <3>3. next[s[i - 1]] = s[i]
      BY <2>2, <3>1 DEF Links
    <3> QED BY <2>1, <3>2, <3>3
  <2> QED BY <2>3, <2>4
<1>14. Links(list2, next2, t)
  BY <1>4, <1>12, <1>13 DEF Links
<1>15. list2.head # INVALID_PTR
  BY EntriesFacts
<1> QED BY <1>8, <1>11, <1>14, <1>15 DEF IsChain, t

(* The first entry taken: what a deque does to its bucket, and an enque to *)
(* the free list.                                                          *)
LEMMA ChainPop ==
    ASSUME NEW s, NEW list, NEW next, NEW list2, IsChain(s, list, next),
           list.head # INVALID_PTR,
           list.head = list.tail => list2.head = INVALID_PTR,
           list.head # list.tail => list2.head = next[list.head] /\ list2.tail = list.tail
    PROVE  /\ IsChain(Tail(s), list2, next)
           /\ Range(Tail(s)) = Range(s) \ {list.head}
           /\ s = <<list.head>> \o Tail(s)
           /\ s # <<>> /\ Head(s) = list.head
<1> DEFINE t == Tail(s)
<1>1. /\ s \in Seq(Entries) /\ IsInjective(s) /\ Len(s) \in Nat /\ DOMAIN s = 1 .. Len(s)
      /\ s # <<>> /\ Links(list, next, s) /\ Len(s) >= 1
      /\ list.head = s[1] /\ list.tail = s[Len(s)]
  BY ChainFacts
<1>2. t \in Seq(Entries) /\ Len(t) = Len(s) - 1 /\ \A i \in 1 .. Len(t) : t[i] = s[i + 1]
  BY <1>1, HeadTailProperties
<1>3. DOMAIN t = 1 .. (Len(s) - 1)
  BY <1>2, LenProperties
<1>4. Head(s) = s[1]
  BY <1>1
<1>5. s = <<list.head>> \o t
  <2> DEFINE e == list.head
  <2>1. e \in Entries
    BY <1>1, ElementOfSeq
  <2> HIDE DEF e, t
  <2>2. <<e>> \in Seq(Entries) /\ Len(<<e>>) = 1 /\ <<e>>[1] = e
    BY <2>1
  <2>3. /\ <<e>> \o t \in Seq(Entries) /\ Len(<<e>> \o t) = 1 + Len(t)
        /\ \A i \in 1 .. (1 + Len(t)) : (<<e>> \o t)[i] = IF i <= 1 THEN <<e>>[i] ELSE t[i - 1]
    BY <1>2, <2>2, ConcatProperties
  <2>4. \A i \in 1 .. Len(s) : s[i] = (<<e>> \o t)[i]
    <3>1. SUFFICES ASSUME NEW i \in 1 .. Len(s) PROVE s[i] = (<<e>> \o t)[i]
      OBVIOUS
    <3>2. CASE i = 1
      <4>1. s[1] = e
        BY <1>1 DEF e
      <4>2. (<<e>> \o t)[1] = <<e>>[1]
        BY <1>1, <1>2, <2>3
      <4> QED BY <2>2, <3>2, <4>1, <4>2
    <3>3. CASE i # 1
      <4>1. i - 1 \in 1 .. Len(t) /\ (i - 1) + 1 = i /\ i \in 1 .. (1 + Len(t)) /\ ~ (i <= 1)
        BY <1>1, <1>2, <3>3
      <4>2. t[i - 1] = s[i]
        BY <1>2, <4>1
      <4> QED BY <2>3, <4>1, <4>2
    <3> QED BY <3>2, <3>3
  <2>5. Len(s) = Len(<<e>> \o t)
    <3>1. Len(s) \in Nat /\ Len(t) = Len(s) - 1 /\ Len(<<e>> \o t) = 1 + Len(t)
      BY <1>1, <1>2, <2>3
    <3> QED BY <3>1
  <2>6. s = <<e>> \o t
    BY <1>1, <2>3, <2>4, <2>5, SeqEqual
  <2> QED BY <2>6 DEF e
<1> HIDE DEF t
<1>6. Range(t) = Range(s) \ {list.head}
  <2>1. ASSUME NEW i \in DOMAIN t PROVE t[i] \in Range(s) \ {list.head}
    <3>1. t[i] = s[i + 1] /\ i + 1 \in DOMAIN s /\ 1 \in DOMAIN s /\ i + 1 # 1
      BY <1>1, <1>2, <1>3
    <3> QED BY <1>1, <3>1 DEF Range, IsInjective
  <2>2. ASSUME NEW i \in DOMAIN s, s[i] # list.head PROVE s[i] \in Range(t)
    <3>1. i - 1 \in 1 .. Len(t) /\ (i - 1) + 1 = i /\ i - 1 \in DOMAIN t
      BY <1>1, <1>2, <1>3, <2>2
    <3>2. t[i - 1] = s[i]
      BY <1>2, <3>1
    <3> QED BY <3>1, <3>2 DEF Range
  <2> QED BY <2>1, <2>2 DEF Range
<1>7. IsChain(t, list2, next)
  <2>1. CASE list.head = list.tail
    <3>1. 1 \in DOMAIN s /\ Len(s) \in DOMAIN s
      BY <1>1
    <3>2. Len(s) = 1
      BY <1>1, <2>1, <3>1 DEF IsInjective
    <3>3. t = <<>>
      <4>1. Len(t) = 0
        BY <1>2, <3>2
      <4> QED BY <1>2, <4>1, EmptySeq
    <3> QED BY <2>1, <3>3 DEF IsChain
  <2>2. CASE list.head # list.tail
    <3>1. Len(s) >= 2
      BY <1>1, <2>2
    <3>2. 1 \in 1 .. (Len(s) - 1) /\ 1 \in 1 .. Len(t) /\ Len(t) >= 1 /\ Len(t) \in 1 .. Len(t)
          /\ Len(t) + 1 = Len(s)
      BY <1>1, <1>2, <3>1
    <3>3. list2.head = s[2] /\ t[1] = s[2]
      <4>1. s[1 + 1] = s[2]
        OBVIOUS
      <4>2. next[s[1]] = s[1 + 1]
        BY <1>1, <3>2 DEF Links
      <4>3. t[1] = s[1 + 1]
        BY <1>2, <3>2
      <4> QED BY <1>1, <2>2, <4>1, <4>2, <4>3
    <3>4. list2.tail = t[Len(t)]
      BY <1>1, <1>2, <2>2, <3>2
    <3>5. ASSUME NEW i \in 1 .. (Len(t) - 1) PROVE next[t[i]] = t[i + 1]
      <4>1. /\ i \in 1 .. Len(t) /\ i + 1 \in 1 .. Len(t) /\ i + 1 \in 1 .. (Len(s) - 1)
        BY <1>1, <1>2
      <4>2. t[i] = s[i + 1] /\ t[i + 1] = s[(i + 1) + 1]
        BY <1>2, <4>1
      <4>3. next[s[i + 1]] = s[(i + 1) + 1]
        BY <1>1, <4>1 DEF Links
      <4> QED BY <4>2, <4>3
    <3>6. IsInjective(t)
      <4>1. SUFFICES ASSUME NEW i \in DOMAIN t, NEW j \in DOMAIN t, t[i] = t[j] PROVE i = j
        BY DEF IsInjective
      <4>2. i + 1 \in DOMAIN s /\ j + 1 \in DOMAIN s /\ s[i + 1] = s[j + 1]
        BY <1>1, <1>2, <1>3, <4>1
      <4>3. i + 1 = j + 1
        BY <1>1, <4>2 DEF IsInjective
      <4> QED BY <1>1, <1>3, <4>3
    <3>7. t # <<>>
      BY <3>2, EmptySeq
    <3>8. t \in EntrySeqs
      BY <1>2, <3>6, <3>7, EntrySeqIs
    <3>9. Links(list2, next, t)
      BY <3>3, <3>4, <3>5 DEF Links
    <3>10. t[1] \in Entries
      BY <1>2, <3>2, ElementOfSeq
    <3> QED BY <3>3, <3>8, <3>9, <3>10, EntriesFacts DEF IsChain
  <2> QED BY <2>1, <2>2
<1> QED BY <1>1, <1>4, <1>5, <1>6, <1>7 DEF t

(* An entry put behind: what a deque does to the free list.                *)
LEMMA ChainAppend ==
    ASSUME NEW s, NEW list, NEW next, NEW list2, NEW next2, NEW e \in Entries,
           IsChain(s, list, next), e \notin Range(s),
           \A x \in Range(s) : x # list.tail => next2[x] = next[x],
           list.head # INVALID_PTR => next2[list.tail] = e, list2.tail = e,
           list2.head = IF list.head = INVALID_PTR THEN e ELSE list.head
    PROVE  /\ IsChain(s \o <<e>>, list2, next2)
           /\ Range(s \o <<e>>) = Range(s) \cup {e}
<1> DEFINE t == s \o <<e>>
<1>1. /\ s \in Seq(Entries) /\ IsInjective(s) /\ Len(s) \in Nat /\ DOMAIN s = 1 .. Len(s)
      /\ Range(s) \subseteq Entries
  BY ChainFacts
<1>2. /\ t \in Seq(Entries) /\ t # <<>> /\ Len(t) = Len(s) + 1
      /\ \A i \in 1 .. Len(s) : t[i] = s[i]
      /\ t[Len(s) + 1] = e
  <2>1. <<e>> \in Seq(Entries) /\ Len(<<e>>) = 1 /\ <<e>>[1] = e
    OBVIOUS
  <2>2. /\ t \in Seq(Entries) /\ Len(t) = Len(s) + 1
        /\ \A i \in 1 .. Len(s) + Len(<<e>>) :
              t[i] = IF i <= Len(s) THEN s[i] ELSE <<e>>[i - Len(s)]
    BY <1>1, <2>1, ConcatProperties
  <2> HIDE DEF t
  <2>3. \A i \in 1 .. Len(s) : t[i] = s[i]
    <3>1. SUFFICES ASSUME NEW i \in 1 .. Len(s) PROVE t[i] = s[i]
      OBVIOUS
    <3>2. i \in 1 .. Len(s) + Len(<<e>>) /\ i <= Len(s)
      BY <1>1, <2>1
    <3> QED BY <2>2, <3>2
  <2>4. t[Len(s) + 1] = e
    <3>1. /\ Len(s) + 1 \in 1 .. Len(s) + Len(<<e>>) /\ ~ (Len(s) + 1 <= Len(s))
          /\ (Len(s) + 1) - Len(s) = 1
      BY <1>1, <2>1
    <3> QED BY <2>1, <2>2, <3>1
  <2>5. t # <<>>
    BY <1>1, <2>2, EmptySeq
  <2> QED BY <2>2, <2>3, <2>4, <2>5
<1>3. DOMAIN t = 1 .. (Len(s) + 1)
  BY <1>2, LenProperties
<1> HIDE DEF t
<1>4. ASSUME NEW i \in DOMAIN t, i # Len(s) + 1
      PROVE  i \in DOMAIN s /\ t[i] = s[i] /\ t[i] \in Range(s)
  <2>1. i \in 1 .. Len(s)
    BY <1>1, <1>3, <1>4
  <2> QED BY <1>1, <1>2, <2>1 DEF Range
<1>5. Range(t) = Range(s) \cup {e}
  <2>1. \A i \in DOMAIN t : t[i] \in Range(s) \cup {e}
    BY <1>2, <1>4
  <2>2. e \in Range(t)
    <3>1. Len(s) + 1 \in DOMAIN t
      BY <1>1, <1>3
    <3> QED BY <1>2, <3>1 DEF Range
  <2>3. \A i \in DOMAIN s : s[i] \in Range(t)
    <3>1. \A i \in DOMAIN s : i \in DOMAIN t
      BY <1>1, <1>3
    <3> QED BY <1>1, <1>2, <3>1 DEF Range
  <2> QED BY <2>1, <2>2, <2>3 DEF Range
<1>6. IsInjective(t)
  <2>1. SUFFICES ASSUME NEW i \in DOMAIN t, NEW j \in DOMAIN t, t[i] = t[j] PROVE i = j
    BY DEF IsInjective
  <2>2. CASE i = Len(s) + 1 \/ j = Len(s) + 1
    BY <1>2, <1>4, <2>1, <2>2
  <2>3. CASE i # Len(s) + 1 /\ j # Len(s) + 1
    <3>1. i \in DOMAIN s /\ j \in DOMAIN s /\ s[i] = s[j]
      BY <1>4, <2>1, <2>3
    <3> QED BY <1>1, <3>1 DEF IsInjective
  <2> QED BY <2>2, <2>3
<1>7. t \in EntrySeqs
  BY <1>2, <1>6, EntrySeqIs
<1>8. t[1] = list2.head
  <2>1. CASE s = <<>>
    <3>1. Len(s) = 0 /\ list.head = INVALID_PTR
      BY <2>1, ChainFacts, EmptySeq
    <3> QED BY <1>2, <3>1
  <2>2. CASE s # <<>>
    <3>1. list.head # INVALID_PTR /\ list.head = s[1] /\ 1 \in 1 .. Len(s)
      BY <1>1, <2>2, ChainFacts
    <3> QED BY <1>2, <3>1
  <2> QED BY <2>1, <2>2
<1>9. ASSUME NEW i \in 1 .. (Len(t) - 1) PROVE next2[t[i]] = t[i + 1]
  <2>1. i \in 1 .. Len(s) /\ t[i] = s[i]
    BY <1>1, <1>2
  <2>2. list.head # INVALID_PTR /\ Links(list, next, s) /\ list.tail = s[Len(s)]
    <3>1. s # <<>>
      BY <1>1, <2>1, EmptySeq
    <3> QED BY <3>1, ChainFacts
  <2>3. CASE i = Len(s)
    BY <1>2, <2>1, <2>2, <2>3
  <2>4. CASE i # Len(s)
    <3>1. /\ i \in 1 .. (Len(s) - 1) /\ i + 1 \in 1 .. Len(s)
          /\ i \in DOMAIN s /\ Len(s) \in DOMAIN s
      <4>1. Len(s) \in Nat /\ i \in 1 .. Len(s) /\ DOMAIN s = 1 .. Len(s)
        BY <1>1, <2>1
      <4>2. i \in Nat /\ 1 <= i /\ i <= Len(s) /\ Len(s) \in Nat
        BY <4>1
      <4>3. i \in 1 .. (Len(s) - 1) /\ i + 1 \in 1 .. Len(s) /\ Len(s) \in 1 .. Len(s)
        <5> HIDE <4>1
        <5> QED BY <2>4, <4>2
      <4> QED BY <4>1, <4>3
    <3>2. next[s[i]] = s[i + 1] /\ t[i + 1] = s[i + 1]
      BY <1>2, <2>2, <3>1 DEF Links
    <3>3. s[i] # list.tail /\ s[i] \in Range(s)
      BY <1>1, <2>2, <2>4, <3>1 DEF IsInjective, Range
    <3> QED BY <2>1, <3>2, <3>3
  <2> QED BY <2>3, <2>4
<1>10. t[Len(t)] = e
  BY <1>2
<1>11. Links(list2, next2, t)
  BY <1>8, <1>9, <1>10 DEF Links
<1>12. list2.head # INVALID_PTR
  BY EntriesFacts
<1> QED BY <1>5, <1>7, <1>11, <1>12 DEF IsChain, t

-----------------------------------------------------------------------------
(* What a commit does to the memories.                                     *)

Committing == CommitWrites /\ free_list' = int_free_list /\ size' = int_size

\* The priority and the entry of the operation that commits.
AtPriority == reg[3].priority

(* Stage 4 of an enque: the first free entry moves to its bucket.          *)
LEMMA EnqueMemory ==
    ASSUME IInv, state = "READY", Enque(3), Committing
    PROVE  LET e == free_list.head
               q == AtPriority
           IN  /\ e \in Range(FreeEntries) /\ e \in Entries /\ q \in Priorities
               /\ he' = [x \in Entries |-> IF x = e THEN [value |-> reg[3].value, next |-> pb[q].head]
                                           ELSE he[x]]
               /\ pb' = [p \in Priorities |->
                            IF p = q
                            THEN [head |-> e,
                                  tail |-> IF pb[q].head = INVALID_PTR THEN e ELSE pb[q].tail]
                            ELSE pb[p]]
               /\ fl' = fl
               /\ free_list' = IF e = free_list.tail THEN EmptyList
                               ELSE [head |-> fl[e], tail |-> free_list.tail]
               /\ size' = size + 1
               /\ reg[3].value \in Values
<1> DEFINE e == free_list.head
           q == AtPriority
<1>1. /\ q \in Priorities /\ reg_pb_q3 = pb[q] /\ e # INVALID_PTR /\ int_fl_q = fl[e]
      /\ reg[3].value \in Values
  BY DEF IInv, Operating, PipelineOK, AtPriority, Enque, Busy
<1>2. e \in Range(FreeEntries) /\ e \in Entries
  <2>1. IsChain(FreeEntries, free_list, fl)
    BY DEF IInv, Operating, ListsOK
  <2> QED BY <1>1, <2>1, ChainFacts
<1>3. EnqueCommits /\ en_q4 /\ ~ DequeCommits /\ ~ fl_wren
  BY DEF EnqueCommits, en_q4, DequeCommits, fl_wren, Enque, Busy
<1>4. he_wraddress = e
  BY <1>2, AddressFacts DEF he_wraddress
<1>5. DOMAIN he = Entries /\ DOMAIN pb = Priorities
  BY DEF IInv, TypeOK
<1>6. he' = [x \in Entries |-> IF x = e THEN [value |-> reg[3].value, next |-> pb[q].head]
                               ELSE he[x]]
  BY <1>1, <1>3, <1>4, <1>5 DEF Committing, CommitWrites, Write, int_he_data
<1>7. pb' = [p \in Priorities |->
                IF p = q
                THEN [head |-> e, tail |-> IF pb[q].head = INVALID_PTR THEN e ELSE pb[q].tail]
                ELSE pb[p]]
  BY <1>1, <1>3, <1>4, <1>5 DEF Committing, CommitWrites, Write, int_pb_data, AtPriority
<1>8. fl' = fl /\ size' = size + 1
  BY <1>3 DEF Committing, CommitWrites, int_size
<1>9. free_list' = IF e = free_list.tail THEN EmptyList
                   ELSE [head |-> fl[e], tail |-> free_list.tail]
  <2>1. free_list \in [head : Entries \cup {INVALID_PTR}, tail : Entries \cup {INVALID_PTR}]
    BY DEF IInv, TypeOK
  <2>2. [free_list EXCEPT !.head = int_fl_q] = [head |-> int_fl_q, tail |-> free_list.tail]
    BY <2>1
  <2> QED BY <1>1, <1>3, <2>2 DEF Committing, int_free_list
<1> QED BY <1>1, <1>2, <1>6, <1>7, <1>8, <1>9

(* Stage 4 of a deque: the first entry of its bucket is free again.        *)
LEMMA DequeMemory ==
    ASSUME IInv, state = "READY", Busy(3), ~ Enque(3), Committing
    PROVE  LET q == AtPriority
               e == pb[q].head
           IN  /\ q \in Priorities /\ e # INVALID_PTR
               /\ e \in Range(Bucket(q)) /\ e \in Entries
               /\ he' = he
               /\ pb' = [p \in Priorities |->
                            IF p = q
                            THEN IF e = pb[q].tail THEN EmptyList
                                 ELSE [head |-> he[e].next, tail |-> pb[q].tail]
                            ELSE pb[p]]
               /\ fl' = IF free_list.head = INVALID_PTR THEN fl
                        ELSE [x \in Entries |-> IF x = free_list.tail THEN e ELSE fl[x]]
               /\ free_list' = [head |-> IF free_list.head = INVALID_PTR THEN e
                                         ELSE free_list.head,
                                tail |-> e]
               /\ size' = size - 1
               /\ int_he_q = he[e] /\ he_value_q4 = he[e].value /\ he[e].value \in Values
<1> DEFINE q == AtPriority
           e == pb[q].head
<1>1. q \in Priorities /\ reg_pb_q3 = pb[q] /\ e # INVALID_PTR /\ int_he_q = he[e]
  BY DEF IInv, Operating, PipelineOK, AtPriority, Busy
<1>2. IsChain(Bucket(q), pb[q], NextOf) /\ \A x \in Range(Bucket(q)) : he[x].value \in Values
  BY <1>1 DEF IInv, Operating, ListsOK
<1>3. e \in Range(Bucket(q)) /\ e \in Entries /\ he[e].value \in Values
  BY <1>1, <1>2, ChainFacts
<1>4. DequeCommits /\ en_q4 /\ ~ EnqueCommits /\ (fl_wren <=> free_list.head # INVALID_PTR)
  BY DEF EnqueCommits, en_q4, DequeCommits, fl_wren, Enque, Busy
<1>5. DOMAIN he = Entries /\ DOMAIN pb = Priorities /\ DOMAIN fl = Entries
  BY DEF IInv, TypeOK
<1>6. he' = he /\ size' = size - 1
  BY <1>4 DEF Committing, CommitWrites, int_size
<1>7. pb_empty_q4 <=> e = pb[q].tail
  BY <1>1 DEF pb_empty_q4
<1>8. [reg_pb_q3 EXCEPT !.head = int_he_q.next] = [head |-> he[e].next, tail |-> pb[q].tail]
  <2>1. reg_pb_q3 \in Lists
    BY DEF IInv, TypeOK
  <2> QED BY <1>1, <2>1 DEF Lists
<1>9. pb' = [p \in Priorities |->
                IF p = q
                THEN IF e = pb[q].tail THEN EmptyList
                     ELSE [head |-> he[e].next, tail |-> pb[q].tail]
                ELSE pb[p]]
  <2>1. int_pb_data = IF e = pb[q].tail THEN EmptyList
                      ELSE [head |-> he[e].next, tail |-> pb[q].tail]
    BY <1>4, <1>7, <1>8 DEF int_pb_data
  <2>2. pb' = Write(pb, q, int_pb_data)
    BY <1>4 DEF Committing, CommitWrites, AtPriority
  <2> QED BY <1>5, <2>1, <2>2 DEF Write
<1>10. fl' = IF free_list.head = INVALID_PTR THEN fl
             ELSE [x \in Entries |-> IF x = free_list.tail THEN e ELSE fl[x]]
  <2>1. CASE free_list.head = INVALID_PTR
    BY <1>4, <2>1 DEF Committing, CommitWrites
  <2>2. CASE free_list.head # INVALID_PTR
    <3>1. IsChain(FreeEntries, free_list, fl)
      BY DEF IInv, Operating, ListsOK
    <3>2. free_list.tail \in Entries
      BY <2>2, <3>1, ChainFacts
    <3>3. fl_wraddress = free_list.tail
      BY <3>2, AddressFacts DEF fl_wraddress
    <3> QED BY <1>1, <1>4, <1>5, <2>2, <3>3 DEF Committing, CommitWrites, Write, int_fl_data
  <2> QED BY <2>1, <2>2
<1>11. free_list' = [head |-> IF free_list.head = INVALID_PTR THEN e ELSE free_list.head,
                     tail |-> e]
  BY <1>1, <1>4 DEF Committing, int_free_list
<1>12. he_value_q4 = he[e].value
  BY <1>1, <1>4 DEF he_value_q4
<1> QED BY <1>1, <1>3, <1>6, <1>9, <1>10, <1>11, <1>12

LEMMA NoMemory ==
    ASSUME ~ Busy(3), Committing
    PROVE  UNCHANGED <<he, pb, fl, free_list, size>>
BY DEF Busy, Committing, CommitWrites, EnqueCommits, DequeCommits, fl_wren, en_q4,
       int_free_list, int_size

LEMMA BucketNext ==
    /\ \A p : Bucket(p) = Chain(pb[p], NextOf)
    /\ \A p : Bucket(p)' = Chain(pb'[p], NextOf')
    /\ \A e \in Entries : NextOf[e] = he[e].next /\ NextOf'[e] = he'[e].next
BY DEF Bucket, NextOf

LEMMA ReadyLists ==
    ASSUME IInv, state = "READY"
    PROVE  /\ IsChain(FreeEntries, free_list, fl)
           /\ \A p \in Priorities : IsChain(Bucket(p), pb[p], NextOf)
           /\ \A e \in Entries :
                 e \in Range(FreeEntries) \/ \E p \in Priorities : e \in Range(Bucket(p))
           /\ \A p \in Priorities : Range(FreeEntries) \cap Range(Bucket(p)) = {}
           /\ \A p \in Priorities : \A q \in Priorities :
                 p # q => Range(Bucket(p)) \cap Range(Bucket(q)) = {}
           /\ size = Cardinality(Entries \ Range(FreeEntries))
           /\ \A p \in Priorities : \A e \in Range(Bucket(p)) : he[e].value \in Values
           /\ Range(FreeEntries) \subseteq Entries
           /\ \A p \in Priorities : Range(Bucket(p)) \subseteq Entries
<1>1. ListsOK
  BY DEF IInv, Operating
<1>2. /\ IsChain(FreeEntries, free_list, fl)
      /\ \A p \in Priorities : IsChain(Bucket(p), pb[p], NextOf)
  BY <1>1 DEF ListsOK
<1>3. /\ Range(FreeEntries) \subseteq Entries
      /\ \A p \in Priorities : Range(Bucket(p)) \subseteq Entries
  BY <1>2, ChainFacts
<1>4. Partition(FreeEntries, [p \in Priorities |-> Bucket(p)])
  BY <1>1 DEF ListsOK
<1> QED BY <1>1, <1>2, <1>3, <1>4 DEF ListsOK, Partition

(* The lists after the commit of an enque.                                 *)
LEMMA EnqueLists ==
    ASSUME IInv, state = "READY", Enque(3), Committing,
           NEW q, q = AtPriority, NEW e, e = free_list.head
    PROVE  /\ FreeEntries' = Tail(FreeEntries)
           /\ Range(FreeEntries') = Range(FreeEntries) \ {e}
           /\ Bucket(q)' = <<e>> \o Bucket(q)
           /\ Range(Bucket(q)') = {e} \cup Range(Bucket(q))
           /\ \A p \in Priorities \ {q} : Bucket(p)' = Bucket(p)
           /\ IsChain(FreeEntries', free_list', fl')
           /\ \A p \in Priorities : IsChain(Bucket(p)', pb'[p], NextOf')
<1>1. /\ e \in Range(FreeEntries) /\ e \in Entries /\ q \in Priorities
      /\ he' = [x \in Entries |-> IF x = e THEN [value |-> reg[3].value, next |-> pb[q].head]
                                  ELSE he[x]]
      /\ pb' = [p \in Priorities |->
                   IF p = q
                   THEN [head |-> e, tail |-> IF pb[q].head = INVALID_PTR THEN e ELSE pb[q].tail]
                   ELSE pb[p]]
      /\ fl' = fl
      /\ free_list' = IF e = free_list.tail THEN EmptyList
                      ELSE [head |-> fl[e], tail |-> free_list.tail]
  BY EnqueMemory
<1>2. /\ IsChain(FreeEntries, free_list, fl)
      /\ \A p \in Priorities : IsChain(Bucket(p), pb[p], NextOf)
      /\ \A p \in Priorities : e \notin Range(Bucket(p))
      /\ \A p \in Priorities : Range(Bucket(p)) \subseteq Entries
  BY <1>1, ReadyLists
<1>3. /\ NextOf'[e] = pb[q].head
      /\ \A x \in Entries : x # e => NextOf'[x] = NextOf[x]
  BY <1>1, BucketNext
<1>4. /\ IsChain(Tail(FreeEntries), free_list', fl)
      /\ Range(Tail(FreeEntries)) = Range(FreeEntries) \ {e}
  <2>1. e # INVALID_PTR /\ free_list.head = e
    BY <1>1, EntriesFacts
  <2>2. /\ free_list.head = free_list.tail => free_list'.head = INVALID_PTR
        /\ free_list.head # free_list.tail =>
              free_list'.head = fl[free_list.head] /\ free_list'.tail = free_list.tail
    BY <1>1, <2>1 DEF EmptyList
  <2> QED BY <1>2, <2>1, <2>2, ChainPop
<1>5. FreeEntries' = Tail(FreeEntries)
  <2>1. FreeEntries' = Chain(free_list', fl')
    BY DEF FreeEntries
  <2> QED BY <1>1, <1>4, <2>1, ChainIs
<1>6. /\ IsChain(<<e>> \o Bucket(q), pb'[q], NextOf')
      /\ Range(<<e>> \o Bucket(q)) = {e} \cup Range(Bucket(q))
  <2>1. /\ pb'[q].head = e
        /\ pb'[q].tail = IF pb[q].head = INVALID_PTR THEN e ELSE pb[q].tail
    BY <1>1
  <2>2. \A x \in Range(Bucket(q)) : NextOf'[x] = NextOf[x]
    BY <1>1, <1>2, <1>3
  <2>3. IsChain(Bucket(q), pb[q], NextOf) /\ e \notin Range(Bucket(q))
    BY <1>1, <1>2
  <2> QED BY <1>1, <1>3, <2>1, <2>2, <2>3, ChainPush
<1>7. Bucket(q)' = <<e>> \o Bucket(q)
  BY <1>6, ChainIs, BucketNext
<1>8. ASSUME NEW p \in Priorities \ {q}
      PROVE  Bucket(p)' = Bucket(p) /\ IsChain(Bucket(p)', pb'[p], NextOf')
  <2>1. pb'[p] = pb[p]
    BY <1>1
  <2>2. \A x \in Range(Bucket(p)) : NextOf'[x] = NextOf[x]
    BY <1>2, <1>3
  <2>3. IsChain(Bucket(p), pb[p], NextOf)
    BY <1>2
  <2>4. IsChain(Bucket(p), pb'[p], NextOf')
    BY <2>1, <2>2, <2>3, ChainFrame
  <2>5. Bucket(p)' = Bucket(p)
    BY <2>4, ChainIs, BucketNext
  <2> QED BY <2>4, <2>5
<1>9. \A p \in Priorities : IsChain(Bucket(p)', pb'[p], NextOf')
  BY <1>6, <1>7, <1>8
<1> QED BY <1>1, <1>4, <1>5, <1>6, <1>7, <1>8, <1>9

(* The lists after the commit of a deque.                                  *)
LEMMA DequeLists ==
    ASSUME IInv, state = "READY", Busy(3), ~ Enque(3), Committing,
           NEW q, q = AtPriority, NEW e, e = pb[q].head
    PROVE  /\ FreeEntries' = FreeEntries \o <<e>>
           /\ Range(FreeEntries') = Range(FreeEntries) \cup {e}
           /\ Bucket(q)' = Tail(Bucket(q)) /\ Bucket(q) # <<>> /\ Head(Bucket(q)) = e
           /\ Range(Bucket(q)') = Range(Bucket(q)) \ {e}
           /\ \A p \in Priorities \ {q} : Bucket(p)' = Bucket(p)
           /\ IsChain(FreeEntries', free_list', fl')
           /\ \A p \in Priorities : IsChain(Bucket(p)', pb'[p], NextOf')
<1>1. /\ q \in Priorities /\ e # INVALID_PTR
      /\ e \in Range(Bucket(q)) /\ e \in Entries
      /\ he' = he
      /\ pb' = [p \in Priorities |->
                   IF p = q
                   THEN IF e = pb[q].tail THEN EmptyList
                        ELSE [head |-> he[e].next, tail |-> pb[q].tail]
                   ELSE pb[p]]
      /\ fl' = IF free_list.head = INVALID_PTR THEN fl
               ELSE [x \in Entries |-> IF x = free_list.tail THEN e ELSE fl[x]]
      /\ free_list' = [head |-> IF free_list.head = INVALID_PTR THEN e ELSE free_list.head,
                       tail |-> e]
  BY DequeMemory
<1>2. /\ IsChain(FreeEntries, free_list, fl)
      /\ \A p \in Priorities : IsChain(Bucket(p), pb[p], NextOf)
      /\ e \notin Range(FreeEntries)
      /\ Range(FreeEntries) \subseteq Entries
  BY <1>1, ReadyLists
<1>3. NextOf' = NextOf
  BY <1>1 DEF NextOf
<1>4. /\ IsChain(FreeEntries \o <<e>>, free_list', fl')
      /\ Range(FreeEntries \o <<e>>) = Range(FreeEntries) \cup {e}
  <2>1. free_list.head # INVALID_PTR => free_list.tail \in Entries
    BY <1>2, ChainFacts
  <2>2. free_list.head # INVALID_PTR => fl'[free_list.tail] = e
    BY <1>1, <2>1
  <2>3. \A x \in Range(FreeEntries) : x # free_list.tail => fl'[x] = fl[x]
    BY <1>1, <1>2
  <2>4. /\ free_list'.tail = e
        /\ free_list'.head = IF free_list.head = INVALID_PTR THEN e ELSE free_list.head
    BY <1>1
  <2>5. e \in Entries /\ e \notin Range(FreeEntries) /\ IsChain(FreeEntries, free_list, fl)
    BY <1>1, <1>2
  <2> DEFINE list == free_list
             list2 == free_list'
             next == fl
             next2 == fl'
             s == FreeEntries
  <2>6. /\ IsChain(s, list, next) /\ e \notin Range(s) /\ e \in Entries
        /\ \A x \in Range(s) : x # list.tail => next2[x] = next[x]
        /\ list.head # INVALID_PTR => next2[list.tail] = e
        /\ list2.tail = e
        /\ list2.head = IF list.head = INVALID_PTR THEN e ELSE list.head
    BY <2>2, <2>3, <2>4, <2>5
  <2> HIDE DEF list, list2, s, next, next2
  <2>7. IsChain(s \o <<e>>, list2, next2) /\ Range(s \o <<e>>) = Range(s) \cup {e}
    BY <2>6, ChainAppend
  <2> QED BY <2>7 DEF list2, s, next2
<1>5. FreeEntries' = FreeEntries \o <<e>>
  <2>1. FreeEntries' = Chain(free_list', fl')
    BY DEF FreeEntries
  <2> QED BY <1>4, <2>1, ChainIs
<1>6. /\ IsChain(Tail(Bucket(q)), pb'[q], NextOf)
      /\ Range(Tail(Bucket(q))) = Range(Bucket(q)) \ {e}
      /\ Bucket(q) # <<>> /\ Head(Bucket(q)) = e
  <2>1. /\ pb[q].head = pb[q].tail => pb'[q].head = INVALID_PTR
        /\ pb[q].head # pb[q].tail =>
              pb'[q].head = NextOf[pb[q].head] /\ pb'[q].tail = pb[q].tail
    BY <1>1, BucketNext DEF EmptyList
  <2>2. IsChain(Bucket(q), pb[q], NextOf) /\ pb[q].head # INVALID_PTR
    BY <1>1, <1>2
  <2> DEFINE list == pb[q]
             list2 == pb'[q]
             s == Bucket(q)
             next == NextOf
  <2>3. /\ IsChain(s, list, next) /\ list.head # INVALID_PTR
        /\ list.head = list.tail => list2.head = INVALID_PTR
        /\ list.head # list.tail => list2.head = next[list.head] /\ list2.tail = list.tail
    BY <2>1, <2>2
  <2> HIDE DEF list, list2, s, next
  <2>4. /\ IsChain(Tail(s), list2, next)
        /\ Range(Tail(s)) = Range(s) \ {list.head}
        /\ s # <<>> /\ Head(s) = list.head
    BY <2>3, ChainPop
  <2> QED BY <2>4 DEF list, list2, s, next
<1>7. Bucket(q)' = Tail(Bucket(q))
  BY <1>3, <1>6, ChainIs, BucketNext
<1>8. ASSUME NEW p \in Priorities \ {q}
      PROVE  Bucket(p)' = Bucket(p) /\ IsChain(Bucket(p)', pb'[p], NextOf')
  <2>1. pb'[p] = pb[p]
    BY <1>1
  <2>2. Bucket(p)' = Bucket(p)
    BY <1>3, <2>1, BucketNext
  <2> QED BY <1>2, <1>3, <2>1, <2>2
<1>9. \A p \in Priorities : IsChain(Bucket(p)', pb'[p], NextOf')
  BY <1>3, <1>6, <1>7, <1>8
<1> QED BY <1>1, <1>4, <1>5, <1>6, <1>7, <1>8, <1>9

(* The free list is empty exactly when no entry is out of it.              *)
LEMMA FreeFacts ==
    ASSUME NEW s, NEW list, NEW next, IsChain(s, list, next),
           NEW n, n = Cardinality(Entries \ Range(s))
    PROVE  /\ n \in 0 .. MaxEntries
           /\ list.head # INVALID_PTR <=> n < MaxEntries
<1>2. Range(s) \subseteq Entries
  BY ChainFacts
<1>3. IsFiniteSet(Entries) /\ Cardinality(Entries) = MaxEntries
  BY EntriesFacts
<1>4. /\ IsFiniteSet(Entries \ Range(s)) /\ n <= MaxEntries
      /\ n = MaxEntries => Entries = Entries \ Range(s)
  BY <1>3, FS_Subset
<1>5. n \in 0 .. MaxEntries
  <2>1. n \in Nat
    BY <1>4, FS_CardinalityType
  <2> QED BY <1>4, <2>1, EntriesAssumption
<1>6. ASSUME list.head # INVALID_PTR PROVE n < MaxEntries
  <2>1. list.head \in Range(s)
    BY <1>6, ChainFacts
  <2>2. Entries # Entries \ Range(s)
    BY <1>2, <2>1
  <2> QED BY <1>4, <1>5, <2>2, EntriesAssumption
<1>7. ASSUME list.head = INVALID_PTR PROVE n = MaxEntries
  <2>1. s = <<>>
    BY <1>7 DEF IsChain
  <2>2. Range(s) = {}
    <3>1. DOMAIN s = 1 .. 0
      BY <2>1, ChainFacts, EmptySeq
    <3> QED BY <3>1 DEF Range
  <2> QED BY <1>3, <2>2
<1> QED BY <1>5, <1>6, <1>7, EntriesAssumption

(* Every commit keeps the lists apart, and size counts what is in buckets. *)
LEMMA CommitLists ==
    ASSUME IInv, state = "READY", Committing
    PROVE  ListsOK'
<1>1. CASE Enque(3)
  <2>1. PICK q, e : q = AtPriority /\ e = free_list.head
    OBVIOUS
  <2>2. /\ e \in Range(FreeEntries) /\ e \in Entries /\ q \in Priorities
        /\ he' = [x \in Entries |-> IF x = e THEN [value |-> reg[3].value, next |-> pb[q].head]
                                    ELSE he[x]]
        /\ size' = size + 1 /\ reg[3].value \in Values
    BY <1>1, <2>1, EnqueMemory
  <2>3. /\ Range(FreeEntries') = Range(FreeEntries) \ {e}
        /\ Range(Bucket(q)') = {e} \cup Range(Bucket(q))
        /\ \A p \in Priorities \ {q} : Bucket(p)' = Bucket(p)
        /\ IsChain(FreeEntries', free_list', fl')
        /\ \A p \in Priorities : IsChain(Bucket(p)', pb'[p], NextOf')
    BY <1>1, <2>1, EnqueLists
  <2>4. /\ \A x \in Entries :
              x \in Range(FreeEntries) \/ \E p \in Priorities : x \in Range(Bucket(p))
        /\ \A p \in Priorities : Range(FreeEntries) \cap Range(Bucket(p)) = {}
        /\ \A p \in Priorities : \A r \in Priorities :
              p # r => Range(Bucket(p)) \cap Range(Bucket(r)) = {}
        /\ size = Cardinality(Entries \ Range(FreeEntries))
        /\ \A p \in Priorities : \A x \in Range(Bucket(p)) : he[x].value \in Values
        /\ Range(FreeEntries) \subseteq Entries
        /\ \A p \in Priorities : Range(Bucket(p)) \subseteq Entries
    BY ReadyLists
  <2>5. \A p \in Priorities :
            Range(Bucket(p)') = IF p = q THEN {e} \cup Range(Bucket(p)) ELSE Range(Bucket(p))
    BY <2>3
  <2>6. \A x \in Entries :
            x \in Range(FreeEntries') \/ \E p \in Priorities : x \in Range(Bucket(p)')
    BY <2>2, <2>3, <2>4, <2>5
  <2>7. \A p \in Priorities : Range(FreeEntries') \cap Range(Bucket(p)') = {}
    BY <2>3, <2>4, <2>5
  <2>8. \A p \in Priorities : \A r \in Priorities :
            p # r => Range(Bucket(p)') \cap Range(Bucket(r)') = {}
    BY <2>2, <2>4, <2>5
  <2>9. size' = Cardinality(Entries \ Range(FreeEntries'))
    <3>1. /\ Entries \ Range(FreeEntries') = (Entries \ Range(FreeEntries)) \cup {e}
          /\ e \notin Entries \ Range(FreeEntries)
      BY <2>2, <2>3
    <3>2. IsFiniteSet(Entries \ Range(FreeEntries))
      BY EntriesFacts, FS_Subset
    <3> QED BY <2>2, <2>4, <3>1, <3>2, FS_AddElement
  <2>10. \A p \in Priorities : \A x \in Range(Bucket(p)') : he'[x].value \in Values
    <3>1. \A x \in Entries : he'[x].value = IF x = e THEN reg[3].value ELSE he[x].value
      BY <2>2
    <3> QED BY <2>2, <2>4, <2>5, <3>1
  <2> QED BY <2>3, <2>6, <2>7, <2>8, <2>9, <2>10 DEF ListsOK, Partition
<1>2. CASE Busy(3) /\ ~ Enque(3)
  <2>1. PICK q : q = AtPriority
    OBVIOUS
  <2>2. PICK e : e = pb[q].head
    OBVIOUS
  <2>3. /\ e \in Range(Bucket(q)) /\ e \in Entries /\ q \in Priorities
        /\ he' = he /\ size' = size - 1
    BY <1>2, <2>1, <2>2, DequeMemory
  <2>4. /\ Range(FreeEntries') = Range(FreeEntries) \cup {e}
        /\ Range(Bucket(q)') = Range(Bucket(q)) \ {e}
        /\ \A p \in Priorities \ {q} : Bucket(p)' = Bucket(p)
        /\ IsChain(FreeEntries', free_list', fl')
        /\ \A p \in Priorities : IsChain(Bucket(p)', pb'[p], NextOf')
    BY <1>2, <2>1, <2>2, DequeLists
  <2>5. /\ \A x \in Entries :
              x \in Range(FreeEntries) \/ \E p \in Priorities : x \in Range(Bucket(p))
        /\ \A p \in Priorities : Range(FreeEntries) \cap Range(Bucket(p)) = {}
        /\ \A p \in Priorities : \A r \in Priorities :
              p # r => Range(Bucket(p)) \cap Range(Bucket(r)) = {}
        /\ size = Cardinality(Entries \ Range(FreeEntries))
        /\ \A p \in Priorities : \A x \in Range(Bucket(p)) : he[x].value \in Values
    BY ReadyLists
  <2>6. \A p \in Priorities :
            Range(Bucket(p)') = IF p = q THEN Range(Bucket(p)) \ {e} ELSE Range(Bucket(p))
    BY <2>4
  <2>7. \A x \in Entries :
            x \in Range(FreeEntries') \/ \E p \in Priorities : x \in Range(Bucket(p)')
    BY <2>3, <2>4, <2>5, <2>6
  <2>8. \A p \in Priorities : Range(FreeEntries') \cap Range(Bucket(p)') = {}
    BY <2>3, <2>4, <2>5, <2>6
  <2>9. \A p \in Priorities : \A r \in Priorities :
            p # r => Range(Bucket(p)') \cap Range(Bucket(r)') = {}
    BY <2>5, <2>6
  <2>10. size' = Cardinality(Entries \ Range(FreeEntries'))
    <3>1. /\ Entries \ Range(FreeEntries') = (Entries \ Range(FreeEntries)) \ {e}
          /\ e \in Entries \ Range(FreeEntries)
      BY <2>3, <2>4, <2>5
    <3>2. IsFiniteSet(Entries \ Range(FreeEntries))
      BY EntriesFacts, FS_Subset
    <3> QED BY <2>3, <2>5, <3>1, <3>2, FS_RemoveElement
  <2>11. \A p \in Priorities : \A x \in Range(Bucket(p)') : he'[x].value \in Values
    BY <2>3, <2>5, <2>6
  <2> QED BY <2>4, <2>7, <2>8, <2>9, <2>10, <2>11 DEF ListsOK, Partition
<1>3. CASE ~ Busy(3)
  <2>1. UNCHANGED <<he, pb, fl, free_list, size>>
    BY <1>3, NoMemory
  <2>2. ListsOK
    BY DEF IInv, Operating
  <2> QED BY <2>1, <2>2 DEF ListsOK, Partition, FreeEntries, Bucket, NextOf
<1> QED BY <1>1, <1>2, <1>3 DEF Enque

(* Which buckets are in use after a commit.                                *)
LEMMA CommitOccupied ==
    ASSUME IInv, state = "READY", Committing
    PROVE  /\ Enque(3) => Occupied(pb') = Occupied(pb) \cup {AtPriority}
           /\ Busy(3) /\ ~ Enque(3) =>
                 Occupied(pb') = IF pb_empty_q4 THEN Occupied(pb) \ {AtPriority}
                                 ELSE Occupied(pb)
           /\ ~ Busy(3) => Occupied(pb') = Occupied(pb)
<1>1. ASSUME Enque(3) PROVE Occupied(pb') = Occupied(pb) \cup {AtPriority}
  <2>1. PICK q, e : q = AtPriority /\ e = free_list.head
    OBVIOUS
  <2>2. /\ e \in Entries /\ q \in Priorities
        /\ \A p \in Priorities : pb'[p].head = IF p = q THEN e ELSE pb[p].head
    BY <1>1, <2>1, EnqueMemory
  <2> QED BY <2>1, <2>2, EntriesFacts DEF Occupied
<1>2. ASSUME Busy(3), ~ Enque(3)
      PROVE  Occupied(pb') = IF pb_empty_q4 THEN Occupied(pb) \ {AtPriority} ELSE Occupied(pb)
  <2>1. PICK q : q = AtPriority
    OBVIOUS
  <2>2. PICK e : e = pb[q].head
    OBVIOUS
  <2>3. /\ e \in Range(Bucket(q)) /\ q \in Priorities /\ e # INVALID_PTR
        /\ \A p \in Priorities \ {q} : pb'[p] = pb[p]
        /\ e = pb[q].tail => pb'[q] = EmptyList
    BY <1>2, <2>1, <2>2, DequeMemory
  <2>4. pb_empty_q4 <=> e = pb[q].tail
    <3>1. reg_pb_q3 = pb[q]
      BY <1>2, <2>1 DEF IInv, Operating, PipelineOK, AtPriority
    <3> QED BY <2>2, <3>1 DEF pb_empty_q4
  <2>5. e # pb[q].tail => pb'[q].head # INVALID_PTR
    <3>1. SUFFICES ASSUME e # pb[q].tail PROVE pb'[q].head # INVALID_PTR
      OBVIOUS
    <3>2. /\ Range(Bucket(q)') = Range(Bucket(q)) \ {e}
          /\ IsChain(Bucket(q)', pb'[q], NextOf')
      BY <1>2, <2>1, <2>2, <2>3, DequeLists
    <3>3. pb[q].tail \in Range(Bucket(q))
      BY <2>2, <2>3, ReadyLists, ChainFacts
    <3>4. Range(Bucket(q)') # {}
      BY <3>1, <3>2, <3>3
    <3>5. Bucket(q)' = <<>> => Range(Bucket(q)') = {}
      <4>1. DOMAIN <<>> = {}
        OBVIOUS
      <4> QED BY <4>1 DEF Range
    <3> QED BY <3>2, <3>4, <3>5, ChainFacts
  <2> QED BY <2>1, <2>2, <2>3, <2>4, <2>5 DEF Occupied, EmptyList
<1>3. ~ Busy(3) => Occupied(pb') = Occupied(pb)
  BY NoMemory
<1> QED BY <1>1, <1>2, <1>3

-----------------------------------------------------------------------------
(* What a cycle does to the bitmaps and to the pipeline registers.         *)

LEMMA AdvanceCommits == Advance => Committing
BY DEF Advance, Committing

(* The bitmaps follow the buckets, and what Forwarded shows of an L2       *)
(* bitmap is what it will be after the commit of this cycle.               *)
LEMMA CommitBitmaps ==
    ASSUME IInv, state = "READY", Advance
    PROVE  /\ BitmapsOK'
           /\ l2_bitmaps' \in [Bits -> SUBSET Bits]
           /\ \A i \in Bits : Forwarded(l2_bitmaps[i], i) = l2_bitmaps'[i]
           /\ \A p \in Priorities :
                 p % BitmapWidth \in l2_bitmaps'[p \div BitmapWidth] <=> p \in Occupied(pb')
           /\ l1_bitmap' = {i \in Bits : l2_bitmaps'[i] # {}}
<1> DEFINE I(p) == p \div BitmapWidth
           J(p) == p % BitmapWidth
<1>0. \A p \in Priorities : I(p) \in Bits /\ J(p) \in Bits
  BY PriorityFacts
<1>1. \A p \in Priorities : \A r \in Priorities : I(p) = I(r) /\ J(p) = J(r) => p = r
  BY PriorityFacts
<1> HIDE DEF I, J
<1>2. /\ l2_bitmaps \in [Bits -> SUBSET Bits]
      /\ \A p \in Priorities : J(p) \in l2_bitmaps[I(p)] <=> p \in Occupied(pb)
      /\ l1_bitmap = {i \in Bits : l2_bitmaps[i] # {}}
  BY DEF IInv, TypeOK, Operating, BitmapsOK, I, J
<1>3. /\ l1_bitmap' = int_l1_bitmap
      /\ l2_bitmaps' = IF Busy(3) THEN [l2_bitmaps EXCEPT ![reg[3].l1_idx] = l2_bitmap_data_q4]
                       ELSE l2_bitmaps
      /\ en_q4 <=> Busy(3)
  BY DEF Advance, en_q4, Busy
<1>4. Committing
  BY AdvanceCommits
<1>5. CASE ~ Busy(3)
  <2>1. l2_bitmaps' = l2_bitmaps /\ l1_bitmap' = l1_bitmap /\ Occupied(pb') = Occupied(pb)
    BY <1>3, <1>4, <1>5, CommitOccupied DEF int_l1_bitmap, EnqueCommits, DequeCommits
  <2>2. \A i \in Bits : Forwarded(l2_bitmaps[i], i) = l2_bitmaps'[i]
    BY <1>3, <1>5, <2>1 DEF Forwarded
  <2> QED BY <1>2, <2>1, <2>2 DEF BitmapsOK, I, J
<1>6. CASE Busy(3)
  <2>1. PICK q : q = AtPriority
    OBVIOUS
  <2>2. /\ q \in Priorities /\ reg[3].l1_idx = I(q) /\ L2Mask(reg[3]) = {J(q)}
        /\ L1Mask(reg[3]) = {I(q)} /\ reg[3].l2_bitmap = l2_bitmaps[I(q)]
        /\ I(q) \in Bits /\ J(q) \in Bits
    <3>1. q \in Priorities /\ reg[3].l1_idx = I(q) /\ reg[3].l2_bitmap = l2_bitmaps[I(q)]
      BY <1>6, <2>1 DEF IInv, Operating, PipelineOK, AtPriority, I
    <3> QED BY <1>0, <2>1, <3>1 DEF L1Mask, L2Mask, AtPriority, J
  <2>3. l2_bitmaps' = [l2_bitmaps EXCEPT ![I(q)] = l2_bitmap_data_q4]
    BY <1>3, <1>6, <2>2
  <2>4. EnqueCommits <=> Enque(3)
    BY <1>3, <1>6 DEF EnqueCommits, Enque
  <2>5. DequeCommits <=> ~ Enque(3)
    BY <1>3, <1>6 DEF DequeCommits, Enque
  <2>6. l2_bitmap_data_q4 = IF Enque(3) THEN l2_bitmaps[I(q)] \cup {J(q)}
                            ELSE IF pb_empty_q4 THEN l2_bitmaps[I(q)] \ {J(q)}
                            ELSE l2_bitmaps[I(q)]
    BY <2>2, <2>4 DEF l2_bitmap_data_q4
  <2> DEFINE data == l2_bitmap_data_q4
  <2>7. data \in SUBSET Bits
    BY <1>2, <2>2, <2>6
  <2>8. \A i \in Bits : l2_bitmaps'[i] = IF i = I(q) THEN data ELSE l2_bitmaps[i]
    BY <1>2, <2>3
  <2>9. \A i \in Bits : Forwarded(l2_bitmaps[i], i) = l2_bitmaps'[i]
    BY <1>3, <1>6, <2>2, <2>8 DEF Forwarded
  <2>10. l2_bitmaps' \in [Bits -> SUBSET Bits]
    BY <1>2, <2>3, <2>7
  <2>11. Occupied(pb') = IF Enque(3) THEN Occupied(pb) \cup {q}
                         ELSE IF pb_empty_q4 THEN Occupied(pb) \ {q} ELSE Occupied(pb)
    BY <1>4, <1>6, <2>1, CommitOccupied
  <2>12. q \in Occupied(pb) \/ Enque(3)
    BY <1>6, <2>1, <2>2 DEF IInv, Operating, PipelineOK, Occupied, AtPriority
  <2> HIDE DEF data
  <2>13. \A p \in Priorities : J(p) \in l2_bitmaps'[I(p)] <=> p \in Occupied(pb')
    <3>1. SUFFICES ASSUME NEW p \in Priorities
                   PROVE  J(p) \in l2_bitmaps'[I(p)] <=> p \in Occupied(pb')
      OBVIOUS
    <3>2. J(p) \in l2_bitmaps[I(p)] <=> p \in Occupied(pb)
      BY <1>2
    <3>3. CASE I(p) # I(q)
      BY <1>0, <2>8, <2>11, <3>2, <3>3
    <3>4. CASE I(p) = I(q) /\ J(p) # J(q)
      <4>1. p # q /\ l2_bitmaps'[I(p)] = data /\ (J(p) \in data <=> J(p) \in l2_bitmaps[I(p)])
        BY <1>0, <2>6, <2>8, <3>4 DEF data
      <4> QED BY <2>11, <3>2, <4>1
    <3>5. CASE I(p) = I(q) /\ J(p) = J(q)
      <4>1. p = q /\ l2_bitmaps'[I(p)] = data
        BY <1>0, <1>1, <2>2, <2>8, <3>5
      <4>2. J(q) \in data <=> q \in Occupied(pb')
        BY <2>6, <2>11, <2>12, <3>2, <4>1 DEF data
      <4> QED BY <4>1, <4>2
    <3> QED BY <3>3, <3>4, <3>5
  <2>14. l1_bitmap' = IF Enque(3) THEN l1_bitmap \cup {I(q)}
                      ELSE IF pb_empty_q4 /\ data = {} THEN l1_bitmap \ {I(q)} ELSE l1_bitmap
    BY <1>3, <2>2, <2>4, <2>5 DEF int_l1_bitmap, data
  <2>15. l1_bitmap' = {i \in Bits : l2_bitmaps'[i] # {}}
    <3>1. CASE Enque(3)
      <4>1. data # {}
        BY <2>6, <3>1 DEF data
      <4> QED BY <1>2, <2>2, <2>8, <2>14, <3>1, <4>1
    <3>2. CASE ~ Enque(3) /\ pb_empty_q4
      <4>1. I(q) \in l1_bitmap
        BY <1>2, <2>2, <2>12, <3>2
      <4> QED BY <1>2, <2>2, <2>8, <2>14, <3>2, <4>1
    <3>3. CASE ~ Enque(3) /\ ~ pb_empty_q4
      <4>1. data = l2_bitmaps[I(q)]
        BY <2>6, <3>3 DEF data
      <4> QED BY <1>2, <2>2, <2>8, <2>14, <3>3, <4>1
    <3> QED BY <3>1, <3>2, <3>3
  <2> QED BY <2>9, <2>10, <2>13, <2>15 DEF BitmapsOK, I, J
<1> QED BY <1>5, <1>6

LEMMA NextRegFacts ==
    ASSUME NEW in, reg' = NextReg(in)
    PROVE  /\ reg'[0] = IF state = "READY" /\ in # Idle THEN Registered(in) ELSE Idle
           /\ reg'[1] = IF en_q1
                        THEN [reg[0] EXCEPT !.l1_idx = l1_bitmap_idx_q1,
                                            !.l2_bitmap = Forwarded(l2_bitmaps[l1_bitmap_idx_q1],
                                                                    l1_bitmap_idx_q1)]
                        ELSE Idle
           /\ reg'[2] = IF en_q2
                        THEN [reg[1] EXCEPT !.priority = pb_rdaddress,
                                            !.l2_bitmap = Forwarded(@, reg[1].l1_idx)]
                        ELSE Idle
           /\ reg'[3] = IF en_q3
                        THEN [reg[2] EXCEPT !.l2_bitmap = Forwarded(@, reg[2].l1_idx)]
                        ELSE Idle
           /\ reg'[4] = IF en_q4
                        THEN [type |-> reg[3].type, priority |-> reg[3].priority,
                              value |-> he_value_q4]
                        ELSE Idle
BY DEF NextReg

(* What ffs picks is set, and no set bit is better.                        *)
LEMMA FirstSetFacts ==
    ASSUME NEW op, NEW S, S \subseteq Bits, S # {}
    PROVE  /\ FirstSet(op, S) \in S /\ FirstSet(op, S) \in Bits
           /\ op.type = "DEQUE_MIN" => \A x \in S : FirstSet(op, S) <= x
           /\ op.type = "DEQUE_MAX" => \A x \in S : FirstSet(op, S) >= x
<1>1. S \subseteq Nat /\ IsFiniteSet(S)
  <2>1. IsFiniteSet(Bits) /\ Bits \subseteq Nat
    BY WidthFacts, FS_Interval DEF Bits
  <2> QED BY <2>1, FS_Subset
<1>2. Min(S) \in S /\ \A x \in S : Min(S) <= x
  BY <1>1, MinFacts
<1>3. Max(S) \in S /\ \A x \in S : x <= Max(S)
  BY <1>1, MaxFacts
<1>4. CASE op.type = "DEQUE_MAX"
  <2>1. FirstSet(op, S) = Max(S) /\ op.type # "DEQUE_MIN"
    BY <1>4 DEF FirstSet
  <2>2. \A x \in S : Max(S) >= x
    BY <1>1, <1>3
  <2> QED BY <1>3, <2>1, <2>2
<1>5. CASE op.type # "DEQUE_MAX"
  <2>1. FirstSet(op, S) = Min(S)
    BY <1>5 DEF FirstSet
  <2> QED BY <1>2, <1>5, <2>1
<1> QED BY <1>4, <1>5

LEMMA ReadyTypes ==
    ASSUME IInv
    PROVE  /\ \A k \in 0 .. 3 : Busy(k) => reg[k] \in Op
           /\ Busy(4) => reg[4] \in OutOp
           /\ l2_bitmaps \in [Bits -> SUBSET Bits] /\ l1_bitmap \subseteq Bits
           /\ reg_l1_bitmap_q0 \subseteq Bits
           /\ pb \in [Priorities -> Lists] /\ he \in [Entries -> HeapEntries]
           /\ fl \in [Entries -> Pointers \cup {Junk}]
BY DEF IInv, TypeOK, Busy

(* Stage 0: the operation at the input port.                               *)
LEMMA Stage0 ==
    ASSUME IInv, state = "READY", NEW in \in Inputs \cup {Idle}, reg' = NextReg(in)
    PROVE  /\ reg'[0] # Idle <=> in # Idle
           /\ reg'[0] # Idle => /\ reg'[0] \in Op /\ reg'[0].type = in.type
                                /\ reg'[0].priority = in.priority /\ reg'[0].value = in.value
                                /\ in.type = "ENQUE" =>
                                      in.priority \in Priorities /\ in.value \in Values
<1>1. CASE in = Idle
  BY <1>1, NextRegFacts
<1>2. CASE in # Idle
  <2>1. reg'[0] = [type |-> in.type, priority |-> in.priority, value |-> in.value,
                   l1_idx |-> 0, l2_bitmap |-> {}]
    BY <1>2, NextRegFacts DEF Registered
  <2>2. /\ in.type \in Ops /\ in.priority \in Priorities \cup {Junk}
        /\ in.value \in Values \cup {Junk}
        /\ in.type = "ENQUE" => in.priority \in Priorities /\ in.value \in Values
    <3>1. in \in Inputs
      BY <1>2
    <3>2. CASE in \in [type : {"ENQUE"}, priority : InPriorities, value : Values]
      BY <3>2, PrioritiesAssumption DEF Ops, Priorities
    <3>3. CASE in \in [type : {"DEQUE_MIN", "DEQUE_MAX"}, priority : {Junk}, value : {Junk}]
      BY <3>3 DEF Ops
    <3> QED BY <3>1, <3>2, <3>3 DEF Inputs
  <2>3. 0 \in Bits
    BY WidthAssumption DEF Bits
  <2>4. reg'[0] \in Op
    BY <2>1, <2>2, <2>3 DEF Op
  <2> QED BY <1>2, <2>1, <2>2, <2>4, IdleAssumption
<1> QED BY <1>1, <1>2

(* Stage 1: the operation that was registered last, with its L2 bitmap.    *)
LEMMA Stage1 ==
    ASSUME IInv, state = "READY", Advance, NEW in, reg' = NextReg(in)
    PROVE  /\ reg'[1] # Idle <=> en_q1
           /\ en_q1 => /\ Busy(0) /\ reg'[1] \in Op
                       /\ reg'[1].type = reg[0].type
                       /\ reg'[1].priority = reg[0].priority /\ reg'[1].value = reg[0].value
                       /\ reg'[1].l1_idx = l1_bitmap_idx_q1 /\ l1_bitmap_idx_q1 \in Bits
                       /\ reg'[1].l2_bitmap = l2_bitmaps'[l1_bitmap_idx_q1]
<1>1. CASE ~ en_q1
  BY <1>1, NextRegFacts
<1>2. CASE en_q1
  <2>1. Busy(0) /\ reg[0] \in Op /\ (IsEnque(reg[0]) \/ reg_l1_bitmap_q0 # {})
    BY <1>2, ReadyTypes DEF en_q1, Busy
  <2>2. l1_bitmap_idx_q1 \in Bits
    <3>1. CASE IsEnque(reg[0])
      <4>1. reg[0].priority \in Priorities
        BY <2>1, <3>1 DEF IInv, Operating, PipelineOK, Enque
      <4> QED BY <3>1, <4>1, PriorityFacts DEF l1_bitmap_idx_q1
    <3>2. CASE ~ IsEnque(reg[0])
      <4>1. reg_l1_bitmap_q0 \subseteq Bits /\ reg_l1_bitmap_q0 # {}
        BY <2>1, <3>2, ReadyTypes
      <4> QED BY <3>2, <4>1, FirstSetFacts DEF l1_bitmap_idx_q1
    <3> QED BY <3>1, <3>2
  <2> DEFINE i == l1_bitmap_idx_q1
             b == Forwarded(l2_bitmaps[i], i)
  <2>3. b = l2_bitmaps'[i] /\ b \in SUBSET Bits
    BY <2>2, CommitBitmaps
  <2>4. reg'[1] = [reg[0] EXCEPT !.l1_idx = i, !.l2_bitmap = b]
    BY <1>2, NextRegFacts
  <2> HIDE DEF i, b
  <2>5. /\ reg'[1] \in Op /\ reg'[1].l1_idx = i /\ reg'[1].l2_bitmap = b
        /\ reg'[1].type = reg[0].type /\ reg'[1].priority = reg[0].priority
        /\ reg'[1].value = reg[0].value
    <3>1. i \in Bits
      BY <2>2 DEF i
    <3> QED BY <2>1, <2>3, <2>4, <3>1 DEF Op
  <2> QED BY <1>2, <2>1, <2>2, <2>3, <2>5, IdleAssumption DEF i
<1> QED BY <1>1, <1>2

(* Stage 2: the priority is chosen, its bucket read.                       *)
LEMMA Stage2 ==
    ASSUME IInv, state = "READY", Advance, NEW in, reg' = NextReg(in)
    PROVE  /\ reg'[2] # Idle <=> en_q2
           /\ en_q2 => /\ Busy(1) /\ reg'[2] \in Op
                       /\ reg'[2].type = reg[1].type
                       /\ reg'[2].priority = pb_rdaddress /\ reg'[2].value = reg[1].value
                       /\ reg'[2].l1_idx = reg[1].l1_idx /\ reg[1].l1_idx \in Bits
                       /\ reg'[2].l2_bitmap = l2_bitmaps'[reg[1].l1_idx]
                       /\ pb_rdaddress \in Priorities
                       /\ pb_rdaddress \div BitmapWidth = reg[1].l1_idx
<1>1. CASE ~ en_q2
  BY <1>1, NextRegFacts
<1>2. CASE en_q2
  <2>1. Busy(1) /\ reg[1] \in Op /\ (IsEnque(reg[1]) \/ reg[1].l2_bitmap # {})
    BY <1>2, ReadyTypes DEF en_q2, Busy
  <2>2. reg[1].l1_idx \in Bits /\ reg[1].l2_bitmap \subseteq Bits
    BY <2>1 DEF Op
  <2>3. pb_rdaddress \in Priorities /\ pb_rdaddress \div BitmapWidth = reg[1].l1_idx
    <3>1. CASE IsEnque(reg[1])
      BY <2>1, <3>1 DEF IInv, Operating, PipelineOK, Enque, pb_rdaddress
    <3>2. CASE ~ IsEnque(reg[1])
      <4> DEFINE j == FirstSet(reg[1], reg[1].l2_bitmap)
      <4>1. j \in Bits
        BY <2>1, <2>2, <3>2, FirstSetFacts
      <4>2. pb_rdaddress = j + reg[1].l1_idx * BitmapWidth
        BY <3>2 DEF pb_rdaddress
      <4> HIDE DEF j
      <4> QED BY <2>2, <4>1, <4>2, PriorityOf
    <3> QED BY <3>1, <3>2
  <2> DEFINE b == Forwarded(reg[1].l2_bitmap, reg[1].l1_idx)
             p == pb_rdaddress
  <2>4. b = l2_bitmaps'[reg[1].l1_idx] /\ b \in SUBSET Bits
    <3>1. reg[1].l2_bitmap = l2_bitmaps[reg[1].l1_idx]
      BY <2>1 DEF IInv, Operating, PipelineOK
    <3> QED BY <2>2, <3>1, CommitBitmaps
  <2>5. reg'[2] = [reg[1] EXCEPT !.priority = p, !.l2_bitmap = b]
    <3>1. reg'[2] = [reg[1] EXCEPT !.priority = pb_rdaddress,
                                   !.l2_bitmap = Forwarded(@, reg[1].l1_idx)]
      BY <1>2, NextRegFacts
    <3> QED BY <2>1, <3>1 DEF Op
  <2> HIDE DEF b, p
  <2>6. /\ reg'[2] \in Op /\ reg'[2].priority = p /\ reg'[2].l2_bitmap = b
        /\ reg'[2].type = reg[1].type /\ reg'[2].l1_idx = reg[1].l1_idx
        /\ reg'[2].value = reg[1].value
    <3>1. p \in Priorities
      BY <2>3 DEF p
    <3> QED BY <2>1, <2>4, <2>5, <3>1 DEF Op
  <2> QED BY <1>2, <2>1, <2>2, <2>3, <2>4, <2>6, IdleAssumption DEF p
<1> QED BY <1>1, <1>2

(* Stage 3: the bucket is known, the entry that is needed next is read.    *)
LEMMA Stage3 ==
    ASSUME IInv, state = "READY", Advance, NEW in, reg' = NextReg(in)
    PROVE  /\ reg'[3] # Idle <=> en_q3
           /\ en_q3 => /\ Busy(2) /\ reg'[3] \in Op
                       /\ reg'[3].type = reg[2].type
                       /\ reg'[3].priority = reg[2].priority /\ reg'[3].value = reg[2].value
                       /\ reg'[3].l1_idx = reg[2].l1_idx /\ reg[2].l1_idx \in Bits
                       /\ reg'[3].l2_bitmap = l2_bitmaps'[reg[2].l1_idx]
<1>1. CASE ~ en_q3
  BY <1>1, NextRegFacts
<1>2. CASE en_q3
  <2>1. Busy(2) /\ reg[2] \in Op
    BY <1>2, ReadyTypes DEF en_q3, Busy
  <2>2. reg[2].l1_idx \in Bits /\ reg[2].l2_bitmap \subseteq Bits
    BY <2>1 DEF Op
  <2> DEFINE b == Forwarded(reg[2].l2_bitmap, reg[2].l1_idx)
  <2>3. b = l2_bitmaps'[reg[2].l1_idx] /\ b \in SUBSET Bits
    <3>1. reg[2].l2_bitmap = l2_bitmaps[reg[2].l1_idx]
      BY <2>1 DEF IInv, Operating, PipelineOK
    <3> QED BY <2>2, <3>1, CommitBitmaps
  <2>4. reg'[3] = [reg[2] EXCEPT !.l2_bitmap = b]
    <3>1. reg'[3] = [reg[2] EXCEPT !.l2_bitmap = Forwarded(@, reg[2].l1_idx)]
      BY <1>2, NextRegFacts
    <3> QED BY <2>1, <3>1 DEF Op
  <2> HIDE DEF b
  <2>5. /\ reg'[3] \in Op /\ reg'[3].l2_bitmap = b
        /\ reg'[3].type = reg[2].type /\ reg'[3].priority = reg[2].priority
        /\ reg'[3].value = reg[2].value /\ reg'[3].l1_idx = reg[2].l1_idx
    BY <2>1, <2>3, <2>4 DEF Op
  <2> QED BY <1>2, <2>1, <2>2, <2>3, <2>5, IdleAssumption
<1> QED BY <1>1, <1>2

(* Stage 4: what the commit reports.                                       *)
LEMMA Stage4 ==
    ASSUME IInv, state = "READY", Advance, NEW in, reg' = NextReg(in)
    PROVE  /\ reg'[4] # Idle <=> Busy(3)
           /\ Busy(3) => /\ reg'[4] \in OutOp
                         /\ reg'[4] = [type |-> reg[3].type, priority |-> AtPriority,
                                       value |-> he_value_q4]
                         /\ he_value_q4 \in Values
<1>1. en_q4 <=> Busy(3)
  BY DEF en_q4, Busy
<1>2. CASE ~ Busy(3)
  BY <1>1, <1>2, NextRegFacts
<1>3. CASE Busy(3)
  <2>1. reg'[4] = [type |-> reg[3].type, priority |-> AtPriority, value |-> he_value_q4]
    BY <1>1, <1>3, NextRegFacts DEF AtPriority
  <2>2. reg[3] \in Op /\ AtPriority \in Priorities
    BY <1>3, ReadyTypes DEF IInv, Operating, PipelineOK, AtPriority
  <2>3. he_value_q4 \in Values
    <3>1. CASE Enque(3)
      <4>1. reg[3].value \in Values /\ EnqueCommits
        BY <1>1, <1>3, <3>1 DEF IInv, Operating, PipelineOK, EnqueCommits, Enque
      <4> QED BY <4>1 DEF he_value_q4
    <3>2. CASE ~ Enque(3)
      BY <1>3, <3>2, DequeMemory, AdvanceCommits
    <3> QED BY <3>1, <3>2
  <2>4. reg'[4] \in OutOp
    BY <2>1, <2>2, <2>3 DEF Op, OutOp
  <2> QED BY <1>3, <2>1, <2>3, <2>4, IdleAssumption
<1> QED BY <1>2, <1>3

-----------------------------------------------------------------------------
(* What the next stage reads is up to date.                                *)

(* Stage 3 sees its bucket as it will be after the commit of this cycle.   *)
LEMMA BucketSeen ==
    ASSUME IInv, state = "READY", Advance, Busy(2)
    PROVE  int_pb_q = pb'[reg[2].priority]
<1> DEFINE r == reg[2].priority
<1>1. r \in Priorities /\ ReadBucket = pb[r]
  BY DEF IInv, Operating, PipelineOK
<1>2. DOMAIN pb = Priorities
  BY DEF IInv, TypeOK
<1>3. pb' = IF en_q4 THEN Write(pb, reg[3].priority, int_pb_data) ELSE pb
  BY DEF Advance, CommitWrites
<1>4. CASE en_q4 /\ reg[3].priority = r
  <2>1. int_pb_q = int_pb_data
    BY <1>4 DEF int_pb_q
  <2>2. pb'[r] = int_pb_data
    BY <1>1, <1>2, <1>3, <1>4 DEF Write
  <2> QED BY <2>1, <2>2
<1>5. CASE ~ (en_q4 /\ reg[3].priority = r)
  <2>1. int_pb_q = pb[r]
    BY <1>1, <1>5 DEF int_pb_q, ReadBucket
  <2>2. pb'[r] = pb[r]
    BY <1>1, <1>2, <1>3, <1>5 DEF Write
  <2> QED BY <2>1, <2>2
<1> QED BY <1>4, <1>5

(* A bucket read while it is written is taken from the commit.             *)
LEMMA BucketRead ==
    ASSUME IInv, state = "READY", Advance, NEW in, reg' = NextReg(in), reg'[2] # Idle
    PROVE  ReadBucket' = pb'[reg'[2].priority]
<1> DEFINE r == pb_rdaddress
<1>1. en_q2 /\ reg'[2].priority = r /\ r \in Priorities
  BY Stage2
<1>2. reg'[4] # Idle <=> en_q4
  BY Stage4 DEF en_q4, Busy
<1>3. /\ conflict'.pb <=> en_q4 /\ reg[3].priority = r
      /\ last'.pb = IF en_q4 THEN int_pb_data ELSE JunkList
      /\ pb_q' = Read(pb, en_q2 /\ ~ pb_rdwr_conflict, r, JunkList)
      /\ pb' = IF en_q4 THEN Write(pb, reg[3].priority, int_pb_data) ELSE pb
  BY <1>1 DEF Advance, CommitWrites, pb_rdwr_conflict
<1>4. ReadBucket' = IF reg'[4] # Idle /\ conflict'.pb THEN last'.pb ELSE pb_q'
  BY DEF ReadBucket
<1>5. DOMAIN pb = Priorities
  BY DEF IInv, TypeOK
<1> HIDE DEF r
<1>6. CASE en_q4 /\ reg[3].priority = r
  <2>1. pb'[r] = int_pb_data
    BY <1>1, <1>3, <1>5, <1>6 DEF Write
  <2> QED BY <1>1, <1>2, <1>3, <1>4, <1>6, <2>1
<1>7. CASE ~ (en_q4 /\ reg[3].priority = r)
  <2>1. pb'[r] = pb[r]
    BY <1>1, <1>3, <1>5, <1>7 DEF Write
  <2>2. ~ pb_rdwr_conflict
    BY <1>7 DEF pb_rdwr_conflict, r
  <2>3. pb_q' = pb[r]
    BY <1>1, <1>3, <1>5, <2>2 DEF Read
  <2> QED BY <1>1, <1>2, <1>3, <1>4, <1>7, <2>1, <2>3
<1> QED BY <1>6, <1>7

(* An enque that goes on to stage 4 finds the free entry that follows the  *)
(* first one, even if that link is written while it is read.               *)
LEMMA FreeRead ==
    ASSUME IInv, state = "READY", Advance, NEW in, reg' = NextReg(in),
           reg'[3] # Idle, IsEnque(reg'[3])
    PROVE  free_list'.head # INVALID_PTR /\ int_fl_q' = fl'[free_list'.head]
<1> DEFINE h == free_list'.head
<1>1. en_q3 /\ reg'[3].type = reg[2].type
  BY Stage3
<1>2. IsEnque(reg[2]) /\ ReadsFl
  BY <1>1 DEF IsEnque, ReadsFl
<1>3. h = int_free_list.head /\ h # INVALID_PTR
  BY <1>1, <1>2 DEF Advance, en_q3, fl_empty_q3
<1>4. h \in Entries
  <2>1. ListsOK'
    BY CommitLists, AdvanceCommits
  <2>2. IsChain(FreeEntries', free_list', fl')
    BY <2>1 DEF ListsOK
  <2> DEFINE s == FreeEntries'
             list == free_list'
             next == fl'
  <2>3. IsChain(s, list, next) /\ list.head # INVALID_PTR
    BY <1>3, <2>2
  <2> HIDE DEF s, list, next
  <2>4. list.head \in Entries
    BY <2>3, ChainFacts
  <2> QED BY <2>4 DEF list
<1>5. fl_rdaddress = h
  BY <1>3, <1>4, AddressFacts DEF fl_rdaddress
<1>6. reg'[4] # Idle <=> en_q4
  BY Stage4 DEF en_q4, Busy
<1>7. /\ conflict'.fl <=> fl_rdwr_conflict
      /\ last'.fl = IF fl_wren THEN int_fl_data ELSE Junk
      /\ fl_q' = Read(fl, ReadsFl /\ ~ fl_rdwr_conflict, fl_rdaddress, Junk)
      /\ fl' = IF fl_wren THEN Write(fl, fl_wraddress, int_fl_data) ELSE fl
  BY DEF Advance, CommitWrites
<1>8. fl_rdwr_conflict <=> fl_wren /\ fl_wraddress = h
  BY <1>2, <1>5 DEF fl_rdwr_conflict
<1>9. int_fl_q' = IF reg'[4] # Idle /\ conflict'.fl THEN last'.fl ELSE fl_q'
  BY DEF int_fl_q
<1>10. DOMAIN fl = Entries
  BY DEF IInv, TypeOK
<1> HIDE DEF h
<1>11. CASE fl_wren /\ fl_wraddress = h
  <2>1. en_q4
    BY <1>11 DEF fl_wren, DequeCommits
  <2>2. fl'[h] = int_fl_data
    BY <1>4, <1>7, <1>10, <1>11 DEF Write
  <2>3. int_fl_q' = fl'[h]
    BY <1>6, <1>7, <1>8, <1>9, <1>11, <2>1, <2>2
  <2> QED BY <1>3, <2>3 DEF h
<1>12. CASE ~ (fl_wren /\ fl_wraddress = h)
  <2>1. fl'[h] = fl[h]
    BY <1>4, <1>7, <1>10, <1>12 DEF Write
  <2>2. fl_q' = fl[h]
    BY <1>2, <1>4, <1>5, <1>7, <1>8, <1>10, <1>12 DEF Read
  <2>3. int_fl_q' = fl'[h]
    BY <1>7, <1>8, <1>9, <1>12, <2>1, <2>2
  <2> QED BY <1>3, <2>3 DEF h
<1> QED BY <1>11, <1>12

(* A deque that goes on to stage 4 finds the first entry of its bucket,    *)
(* even if an enque puts it there while it is read.                        *)
LEMMA EntryRead ==
    ASSUME IInv, state = "READY", Advance, NEW in, reg' = NextReg(in),
           reg'[3] # Idle, ~ IsEnque(reg'[3])
    PROVE  /\ reg_pb_q3'.head # INVALID_PTR
           /\ int_he_q' = he'[reg_pb_q3'.head]
<1> DEFINE h == int_pb_q.head
<1>1. en_q3 /\ reg'[3].type = reg[2].type /\ Busy(2)
  BY Stage3
<1>2. ~ IsEnque(reg[2]) /\ ReadsHe
  BY <1>1 DEF IsEnque, ReadsHe
<1>3. reg_pb_q3'.head = h /\ h # INVALID_PTR
  BY <1>1, <1>2 DEF Advance, en_q3, pb_empty_q3
<1>4. h \in Entries
  <2>1. ListsOK'
    BY CommitLists, AdvanceCommits
  <2>2. PICK r : r = reg[2].priority
    OBVIOUS
  <2>3. r \in Priorities
    BY <1>1, <2>2 DEF IInv, Operating, PipelineOK
  <2>4. int_pb_q = pb'[r]
    BY <1>1, <2>2, BucketSeen
  <2>5. IsChain(Bucket(r)', pb'[r], NextOf')
    BY <2>1, <2>3 DEF ListsOK
  <2> DEFINE s == Bucket(r)'
             list == int_pb_q
             next == NextOf'
  <2>6. IsChain(s, list, next) /\ list.head # INVALID_PTR
    BY <1>3, <2>4, <2>5
  <2> HIDE DEF s, list, next
  <2>7. list.head \in Entries
    BY <2>6, ChainFacts
  <2> QED BY <2>7 DEF list
<1>5. he_rdaddress = h
  BY <1>4, AddressFacts DEF he_rdaddress
<1>6. reg'[4] # Idle <=> en_q4
  BY Stage4 DEF en_q4, Busy
<1>7. /\ conflict'.he <=> he_rdwr_conflict
      /\ last'.he = IF EnqueCommits THEN int_he_data ELSE JunkEntry
      /\ he_q' = Read(he, ReadsHe /\ ~ he_rdwr_conflict, he_rdaddress, JunkEntry)
      /\ he' = IF EnqueCommits THEN Write(he, he_wraddress, int_he_data) ELSE he
  BY DEF Advance, CommitWrites
<1>8. he_rdwr_conflict <=> EnqueCommits /\ he_wraddress = h
  BY <1>2, <1>5 DEF he_rdwr_conflict
<1>9. int_he_q' = IF reg'[4] # Idle /\ conflict'.he THEN last'.he ELSE he_q'
  BY DEF int_he_q
<1>10. DOMAIN he = Entries
  BY DEF IInv, TypeOK
<1> HIDE DEF h
<1>11. CASE EnqueCommits /\ he_wraddress = h
  <2>1. en_q4
    BY <1>11 DEF EnqueCommits
  <2>2. he'[h] = int_he_data
    BY <1>4, <1>7, <1>10, <1>11 DEF Write
  <2> QED BY <1>3, <1>6, <1>7, <1>8, <1>9, <1>11, <2>1, <2>2
<1>12. CASE ~ (EnqueCommits /\ he_wraddress = h)
  <2>1. he'[h] = he[h]
    BY <1>4, <1>7, <1>10, <1>12 DEF Write
  <2>2. he_q' = he[h]
    BY <1>2, <1>4, <1>5, <1>7, <1>8, <1>10, <1>12 DEF Read
  <2> QED BY <1>3, <1>7, <1>8, <1>9, <1>12, <2>1, <2>2
<1> QED BY <1>11, <1>12

(* The pipeline keeps up with the memories.                                *)
LEMMA CyclePipeline ==
    ASSUME IInv, state = "READY", Advance, NEW in \in Inputs \cup {Idle}, reg' = NextReg(in)
    PROVE  PipelineOK'
<1>0. /\ \A k \in 0 .. 3 : Enque(k) => reg[k].priority \in Priorities /\ reg[k].value \in Values
      /\ Enque(1) => reg[1].l1_idx = reg[1].priority \div BitmapWidth
      /\ \A k \in 2 .. 3 : Busy(k) =>
            /\ reg[k].priority \in Priorities
            /\ reg[k].l1_idx = reg[k].priority \div BitmapWidth
  BY DEF IInv, Operating, PipelineOK
<1>1. (reg_l1_bitmap_q0 = l1_bitmap)'
  BY DEF Advance
<1>2. ASSUME NEW k \in 0 .. 3, reg'[k] # Idle, reg'[k].type = "ENQUE"
      PROVE  reg'[k].priority \in Priorities /\ reg'[k].value \in Values
  <2>0. k = 0 \/ k = 1 \/ k = 2 \/ k = 3
    OBVIOUS
  <2>1. CASE k = 0
    BY <1>2, <2>1, Stage0
  <2>2. CASE k = 1
    BY <1>0, <1>2, <2>2, Stage1 DEF Enque, IsEnque
  <2>3. CASE k = 2
    BY <1>0, <1>2, <2>3, Stage2 DEF Enque, IsEnque
  <2>4. CASE k = 3
    BY <1>0, <1>2, <2>4, Stage3 DEF Enque, IsEnque
  <2> QED BY <2>0, <2>1, <2>2, <2>3, <2>4
<1>3. ASSUME NEW k \in 1 .. 3, reg'[k] # Idle
      PROVE  reg'[k].l2_bitmap = l2_bitmaps'[reg'[k].l1_idx]
  <2>0. k = 1 \/ k = 2 \/ k = 3
    OBVIOUS
  <2> QED BY <1>3, <2>0, Stage1, Stage2, Stage3
<1>4. reg'[1] # Idle /\ reg'[1].type = "ENQUE" =>
          reg'[1].l1_idx = reg'[1].priority \div BitmapWidth
  BY Stage1 DEF l1_bitmap_idx_q1, IsEnque
<1>5. ASSUME NEW k \in 2 .. 3, reg'[k] # Idle
      PROVE  /\ reg'[k].priority \in Priorities
             /\ reg'[k].l1_idx = reg'[k].priority \div BitmapWidth
  <2>0. k = 2 \/ k = 3
    OBVIOUS
  <2>1. CASE k = 2
    BY <1>5, <2>1, Stage2
  <2>2. CASE k = 3
    BY <1>0, <1>5, <2>2, Stage3
  <2> QED BY <2>0, <2>1, <2>2
<1>6. reg'[2] # Idle => ReadBucket' = pb'[reg'[2].priority]
  BY BucketRead
<1>7. reg'[3] # Idle => reg_pb_q3' = pb'[reg'[3].priority]
  <2>1. SUFFICES ASSUME reg'[3] # Idle PROVE reg_pb_q3' = pb'[reg'[3].priority]
    OBVIOUS
  <2>2. en_q3 /\ Busy(2) /\ reg'[3].priority = reg[2].priority
    BY <2>1, Stage3
  <2>3. reg_pb_q3' = int_pb_q
    BY <2>2 DEF Advance
  <2> QED BY <2>2, <2>3, BucketSeen
<1>8. reg'[3] # Idle /\ IsEnque(reg'[3]) =>
          free_list'.head # INVALID_PTR /\ int_fl_q' = fl'[free_list'.head]
  BY FreeRead
<1>9. reg'[3] # Idle /\ ~ IsEnque(reg'[3]) =>
          reg_pb_q3'.head # INVALID_PTR /\ int_he_q' = he'[reg_pb_q3'.head]
  BY EntryRead
<1> QED
  <2>1. \A k : Busy(k)' <=> reg'[k] # Idle
    BY DEF Busy
  <2>2. \A k : Enque(k)' <=> reg'[k] # Idle /\ reg'[k].type = "ENQUE"
    BY DEF Enque, Busy, IsEnque
  <2>3. IsEnque(reg'[3]) <=> reg'[3].type = "ENQUE"
    BY DEF IsEnque
  <2> QED BY <1>1, <1>2, <1>3, <1>4, <1>5, <1>6, <1>7, <1>8, <1>9, <2>1, <2>2, <2>3
          DEF PipelineOK

(* What is known of the operations after a cycle.                          *)
LEMMA NextAuxFacts ==
    ASSUME IInv, NEW in, aux' = NextAux(in)
    PROVE  /\ reg'[0] = Idle => aux'[0] = NoAux
           /\ reg'[0] # Idle /\ IsEnque(in) =>
                 /\ aux'[0].present = {}
                 /\ aux'[0].sure <=> size + num_ops_enque < MaxEntries
           /\ reg'[0] # Idle /\ ~ IsEnque(in) =>
                 /\ aux'[0].present = Occupied(pb')
                 /\ aux'[0].sure <=> /\ Occupied(pb') # {}
                                     /\ \A k \in 0 .. 2 : Busy(k) => Enque(k)
           /\ \A k \in 1 .. 3 : reg'[k] = Idle => aux'[k] = NoAux
           /\ \A k \in 1 .. 3 : reg'[k] # Idle =>
                 /\ aux'[k].present = aux[k - 1].present \cap Occupied(pb')
                 /\ aux'[k].sure = aux[k - 1].sure
           /\ \A k \in 0 .. 3 : aux'[k] \in [present : SUBSET Priorities, sure : BOOLEAN]
<1> DEFINE there == Occupied(pb')
           deques == {k \in 0 .. 2 : reg[k] # Idle /\ ~ IsEnque(reg[k])}
           accepted ==
               IF reg'[0] = Idle THEN NoAux
               ELSE IF IsEnque(in)
               THEN [present |-> {}, sure |-> size + num_ops_enque < MaxEntries]
               ELSE [present |-> there, sure |-> there # {} /\ deques = {}]
<1>1. \A k \in 0 .. 3 : aux[k] \in [present : SUBSET Priorities, sure : BOOLEAN]
  BY DEF IInv, TypeOK
<1>2. aux' = [k \in 0 .. 3 |->
                 IF k = 0 THEN accepted
                 ELSE IF reg'[k] = Idle THEN NoAux
                 ELSE [aux[k - 1] EXCEPT !.present = @ \cap there]]
  BY DEF NextAux
<1>3. there \subseteq Priorities
  BY DEF Occupied
<1>4. deques = {} <=> \A k \in 0 .. 2 : Busy(k) => Enque(k)
  BY DEF Busy, Enque
<1>5. aux'[0] = accepted
  BY <1>2
<1>6. accepted \in [present : SUBSET Priorities, sure : BOOLEAN]
  BY <1>3 DEF NoAux
<1>7. /\ reg'[0] = Idle => aux'[0] = NoAux
      /\ reg'[0] # Idle /\ IsEnque(in) =>
            /\ aux'[0].present = {}
            /\ aux'[0].sure <=> size + num_ops_enque < MaxEntries
      /\ reg'[0] # Idle /\ ~ IsEnque(in) =>
            /\ aux'[0].present = there
            /\ aux'[0].sure <=> there # {} /\ deques = {}
  <2> DEFINE A == size + num_ops_enque < MaxEntries
             B == there # {} /\ deques = {}
  <2>1. accepted = IF reg'[0] = Idle THEN NoAux
                   ELSE IF IsEnque(in) THEN [present |-> {}, sure |-> A]
                   ELSE [present |-> there, sure |-> B]
    OBVIOUS
  <2> HIDE DEF A, B, accepted, there, deques
  <2>2. /\ reg'[0] # Idle /\ IsEnque(in) => aux'[0].present = {} /\ aux'[0].sure = A
        /\ reg'[0] # Idle /\ ~ IsEnque(in) => aux'[0].present = there /\ aux'[0].sure = B
    BY <1>5, <2>1
  <2>3. reg'[0] = Idle => aux'[0] = NoAux
    BY <1>5, <2>1
  <2> QED BY <2>2, <2>3, Zenon DEF A, B
<1> HIDE DEF accepted, deques, there
<1>8. ASSUME NEW k \in 1 .. 3
      PROVE  /\ reg'[k] = Idle => aux'[k] = NoAux
             /\ reg'[k] # Idle => /\ aux'[k].present = aux[k - 1].present \cap there
                                  /\ aux'[k].sure = aux[k - 1].sure
             /\ aux'[k] \in [present : SUBSET Priorities, sure : BOOLEAN]
  <2>1. k \in 0 .. 3 /\ k # 0 /\ k - 1 \in 0 .. 3
    OBVIOUS
  <2>2. aux'[k] = IF reg'[k] = Idle THEN NoAux
                  ELSE [aux[k - 1] EXCEPT !.present = @ \cap there]
    BY <1>2, <2>1
  <2> DEFINE x == aux[k - 1]
             y == aux'[k]
  <2>3. x \in [present : SUBSET Priorities, sure : BOOLEAN]
    BY <1>1, <2>1
  <2>4. y = IF reg'[k] = Idle THEN NoAux ELSE [x EXCEPT !.present = @ \cap there]
    BY <2>2
  <2> HIDE DEF x, y
  <2>5. [x EXCEPT !.present = @ \cap there] = [present |-> x.present \cap there, sure |-> x.sure]
    BY <2>3
  <2>6. NoAux \in [present : SUBSET Priorities, sure : BOOLEAN]
    BY DEF NoAux
  <2>7. /\ x.present \cap there \in SUBSET Priorities
        /\ x.sure \in BOOLEAN
    BY <1>3, <2>3
  <2>8. /\ reg'[k] # Idle => y.present = x.present \cap there
        /\ reg'[k] # Idle => y.sure = x.sure
    BY <2>4, <2>5
  <2>9. y \in [present : SUBSET Priorities, sure : BOOLEAN]
    BY <2>4, <2>5, <2>6, <2>7
  <2> QED BY <2>4, <2>8, <2>9 DEF x, y
<1>9. \A k \in 0 .. 3 : k = 0 \/ k \in 1 .. 3
  OBVIOUS
<1> QED BY <1>4, <1>5, <1>6, <1>7, <1>8, <1>9 DEF there

(* The order of two priorities is the order of their L1 indices, and that  *)
(* of their L2 indices if they share an L1 index.                          *)
LEMMA PriorityOrder ==
    ASSUME NEW i \in Bits, NEW j \in Bits, NEW p \in Priorities
    PROVE  /\ /\ i <= p \div BitmapWidth
              /\ i = p \div BitmapWidth => j <= p % BitmapWidth
              => j + i * BitmapWidth <= p
           /\ /\ i >= p \div BitmapWidth
              /\ i = p \div BitmapWidth => j >= p % BitmapWidth
              => j + i * BitmapWidth >= p
<1> DEFINE w == BitmapWidth
           a == p \div BitmapWidth
           b == p % BitmapWidth
<1>1. /\ w \in Nat /\ w >= 2 /\ i \in Nat /\ j \in Nat /\ i < w /\ j < w
      /\ a \in Nat /\ b \in Nat /\ a < w /\ b < w /\ p = a * w + b
  BY WidthFacts, PriorityFacts DEF Bits
<1> HIDE DEF w, a, b
<1>2. ASSUME NEW x \in Nat, NEW y \in Nat, x < y PROVE x * w + w <= y * w
  <2>1. x + 1 <= y
    BY <1>2
  <2>2. (x + 1) * w <= y * w
    BY <1>1, <2>1
  <2> QED BY <1>1, <2>2
<1>3. i * w \in Nat /\ a * w \in Nat
  BY <1>1
<1>4. ASSUME i < a PROVE j + i * w <= p
  <2>1. i * w + w <= a * w
    BY <1>1, <1>2, <1>4
  <2> QED BY <1>1, <1>3, <2>1
<1>5. ASSUME a < i PROVE j + i * w >= p
  <2>1. a * w + w <= i * w
    BY <1>1, <1>2, <1>5
  <2> QED BY <1>1, <1>3, <2>1
<1>6. ASSUME i = a PROVE (j <= b => j + i * w <= p) /\ (j >= b => j + i * w >= p)
  BY <1>1, <1>3, <1>6
<1>7. (i <= a /\ (i = a => j <= b) => j + i * w <= p)
      /\ (i >= a /\ (i = a => j >= b) => j + i * w >= p)
  BY <1>1, <1>4, <1>5, <1>6
<1> QED BY <1>7 DEF w, a, b

(* A deque still takes no worse than what has been occupied all the time.  *)
LEMMA CycleOrder ==
    ASSUME IInv, state = "READY", Advance, NEW in, Accept(in)
    PROVE  OrderOK'
<1> USE DEF Accept
<1>0. /\ \A k \in 0 .. 3 : aux[k].present \subseteq Occupied(pb)
      /\ Busy(1) => \A p \in aux[1].present :
            /\ reg[1].type = "DEQUE_MIN" => reg[1].l1_idx <= p \div BitmapWidth
            /\ reg[1].type = "DEQUE_MAX" => reg[1].l1_idx >= p \div BitmapWidth
      /\ Busy(2) => \A p \in aux[2].present :
            /\ reg[2].type = "DEQUE_MIN" => reg[2].priority <= p
            /\ reg[2].type = "DEQUE_MAX" => reg[2].priority >= p
  BY DEF IInv, Operating, OrderOK
<1>1. \A k \in 0 .. 3 : aux'[k].present \subseteq Occupied(pb')
  <2>1. aux'[0].present \subseteq Occupied(pb')
    BY NextAuxFacts DEF NoAux
  <2>2. \A k \in 1 .. 3 : aux'[k].present \subseteq Occupied(pb')
    BY NextAuxFacts DEF NoAux
  <2>3. \A k \in 0 .. 3 : k = 0 \/ k \in 1 .. 3
    OBVIOUS
  <2> QED BY <2>1, <2>2, <2>3
<1>2. \A k \in 1 .. 3 : reg'[k] # Idle => aux'[k].present \subseteq aux[k - 1].present
  BY NextAuxFacts
<1>3. \A p \in Occupied(pb) :
          /\ p \in Priorities /\ p \div BitmapWidth \in Bits /\ p % BitmapWidth \in Bits
          /\ p % BitmapWidth \in l2_bitmaps[p \div BitmapWidth]
          /\ p \div BitmapWidth \in reg_l1_bitmap_q0
  <2>1. SUFFICES ASSUME NEW p \in Priorities, p \in Occupied(pb)
                 PROVE  /\ p \div BitmapWidth \in Bits /\ p % BitmapWidth \in Bits
                        /\ p % BitmapWidth \in l2_bitmaps[p \div BitmapWidth]
                        /\ p \div BitmapWidth \in reg_l1_bitmap_q0
    BY DEF Occupied
  <2>2. p \div BitmapWidth \in Bits /\ p % BitmapWidth \in Bits
    BY PriorityFacts
  <2>3. BitmapsOK /\ reg_l1_bitmap_q0 = l1_bitmap
    BY DEF IInv, Operating, PipelineOK
  <2> QED BY <2>1, <2>2, <2>3 DEF BitmapsOK
<1>4. ASSUME reg'[1] # Idle, NEW p \in aux'[1].present
      PROVE  /\ reg'[1].type = "DEQUE_MIN" => reg'[1].l1_idx <= p \div BitmapWidth
             /\ reg'[1].type = "DEQUE_MAX" => reg'[1].l1_idx >= p \div BitmapWidth
  <2>1. p \in aux[0].present
    <3>1. aux'[1].present \subseteq aux[1 - 1].present
      BY <1>2, <1>4
    <3> QED BY <3>1
  <2>2. p \div BitmapWidth \in reg_l1_bitmap_q0
    BY <1>0, <1>3, <2>1
  <2>3. reg'[1].type = reg[0].type /\ reg'[1].l1_idx = l1_bitmap_idx_q1
    BY <1>4, Stage1
  <2>4. ~ IsEnque(reg[0]) => reg'[1].l1_idx = FirstSet(reg[0], reg_l1_bitmap_q0)
    BY <2>3 DEF l1_bitmap_idx_q1
  <2>5. reg_l1_bitmap_q0 \subseteq Bits /\ reg_l1_bitmap_q0 # {}
    BY <2>2, ReadyTypes
  <2> QED BY <2>2, <2>3, <2>4, <2>5, FirstSetFacts DEF IsEnque
<1>5. ASSUME reg'[2] # Idle, NEW p \in aux'[2].present
      PROVE  /\ reg'[2].type = "DEQUE_MIN" => reg'[2].priority <= p
             /\ reg'[2].type = "DEQUE_MAX" => reg'[2].priority >= p
  <2>1. p \in aux[1].present
    <3>1. aux'[2].present \subseteq aux[2 - 1].present
      BY <1>2, <1>5
    <3> QED BY <3>1
  <2>2. p \in Occupied(pb) /\ p \in Priorities
    BY <1>0, <1>3, <2>1
  <2>3. /\ reg'[2].type = reg[1].type /\ reg'[2].priority = pb_rdaddress
        /\ Busy(1) /\ reg[1].l1_idx \in Bits /\ en_q2
    BY <1>5, Stage2
  <2>4. SUFFICES ASSUME reg[1].type # "ENQUE"
                 PROVE  /\ reg[1].type = "DEQUE_MIN" => pb_rdaddress <= p
                        /\ reg[1].type = "DEQUE_MAX" => pb_rdaddress >= p
    BY <2>3
  <2> DEFINE i == reg[1].l1_idx
             S == reg[1].l2_bitmap
             j == FirstSet(reg[1], S)
  <2>5. S \subseteq Bits /\ S # {} /\ i \in Bits
    BY <2>3, <2>4, ReadyTypes DEF Op, en_q2, IsEnque
  <2>6. pb_rdaddress = j + i * BitmapWidth
    BY <2>4 DEF pb_rdaddress, IsEnque
  <2>7. S = l2_bitmaps[i]
    BY <2>3 DEF IInv, Operating, PipelineOK
  <2>8. /\ j \in Bits
        /\ reg[1].type = "DEQUE_MIN" => \A x \in S : j <= x
        /\ reg[1].type = "DEQUE_MAX" => \A x \in S : j >= x
    BY <2>5, FirstSetFacts
  <2>9. i = p \div BitmapWidth => p % BitmapWidth \in S
    BY <1>3, <2>2, <2>7
  <2>10. /\ reg[1].type = "DEQUE_MIN" => i <= p \div BitmapWidth
         /\ reg[1].type = "DEQUE_MAX" => i >= p \div BitmapWidth
    BY <1>0, <2>1, <2>3
  <2> HIDE DEF i, S, j
  <2>11. CASE reg[1].type = "DEQUE_MIN"
    <3>1. /\ i <= p \div BitmapWidth
          /\ i = p \div BitmapWidth => j <= p % BitmapWidth
      BY <2>8, <2>9, <2>10, <2>11
    <3>2. j + i * BitmapWidth <= p
      BY <2>2, <2>5, <2>8, <3>1, PriorityOrder
    <3> QED BY <2>6, <2>11, <3>2
  <2>12. CASE reg[1].type = "DEQUE_MAX"
    <3>1. /\ i >= p \div BitmapWidth
          /\ i = p \div BitmapWidth => j >= p % BitmapWidth
      BY <2>8, <2>9, <2>10, <2>12
    <3>2. j + i * BitmapWidth >= p
      BY <2>2, <2>5, <2>8, <3>1, PriorityOrder
    <3> QED BY <2>6, <2>12, <3>2
  <2> QED BY <2>11, <2>12
<1>6. ASSUME reg'[3] # Idle, NEW p \in aux'[3].present
      PROVE  /\ reg'[3].type = "DEQUE_MIN" => reg'[3].priority <= p
             /\ reg'[3].type = "DEQUE_MAX" => reg'[3].priority >= p
  <2>1. p \in aux[2].present
    <3>1. aux'[3].present \subseteq aux[3 - 1].present
      BY <1>2, <1>6
    <3> QED BY <3>1
  <2>2. Busy(2) /\ reg'[3].type = reg[2].type /\ reg'[3].priority = reg[2].priority
    BY <1>6, Stage3
  <2> QED BY <1>0, <2>1, <2>2
<1>7. \A k \in 2 .. 3 : k = 2 \/ k = 3
  OBVIOUS
<1>8. \A k : Busy(k)' <=> reg'[k] # Idle
  BY DEF Busy
<1> QED
  BY <1>1, <1>4, <1>5, <1>6, <1>7, <1>8 DEF OrderOK

(* One step of the pipeline moves every enque on by one stage; the one in  *)
(* reg[3] leaves it.                                                       *)
LEMMA CountShift ==
    ASSUME NEW S \in SUBSET (0 .. 3), NEW T \in SUBSET (0 .. 3), NEW k \in 1 .. 3,
           \A j \in 1 .. 3 : j \in T => j - 1 \in S
    PROVE  LET m == Cardinality({j \in (k - 1) .. 3 : j \in S})
               n == Cardinality({j \in k .. 3 : j \in T})
           IN  /\ m \in Nat /\ n \in Nat
               /\ n + (IF 3 \in S THEN 1 ELSE 0) <= m
<1> DEFINE A == {j \in (k - 1) .. 3 : j \in S}
           B == {j \in k .. 3 : j \in T}
           f == [j \in B |-> j - 1]
<1>1. IsFiniteSet(A) /\ IsFiniteSet(B)
  <2>1. IsFiniteSet((k - 1) .. 3) /\ IsFiniteSet(k .. 3)
    BY FS_Interval
  <2>2. A \subseteq (k - 1) .. 3 /\ B \subseteq k .. 3
    OBVIOUS
  <2> QED BY <2>1, <2>2, FS_Subset
<1>2. Cardinality(A) \in Nat /\ Cardinality(B) \in Nat
  BY <1>1, FS_CardinalityType
<1>3. \A j \in B : j - 1 \in A \ {3}
  OBVIOUS
<1>4. f \in Injection(B, A \ {3})
  <2>1. f \in [B -> A \ {3}]
    BY <1>3
  <2>2. ASSUME NEW a \in B, NEW b \in B, f[a] = f[b] PROVE a = b
    BY <2>2
  <2> QED BY <2>1, <2>2 DEF Injection, IsInjective
<1>5. IsFiniteSet(A \ {3}) /\ Cardinality(A \ {3}) = IF 3 \in S THEN Cardinality(A) - 1 ELSE Cardinality(A)
  <2>1. 3 \in A <=> 3 \in S
    OBVIOUS
  <2> HIDE DEF A
  <2> QED BY <1>1, <2>1, FS_RemoveElement
<1>6. Cardinality(B) <= Cardinality(A \ {3})
  <2> HIDE DEF A, B, f
  <2> QED BY <1>1, <1>4, <1>5, FS_Injection
<1> HIDE DEF A, B
<1>7. Cardinality(B) + (IF 3 \in S THEN 1 ELSE 0) <= Cardinality(A)
  BY <1>2, <1>5, <1>6
<1> QED BY <1>2, <1>7 DEF A, B

(* How far apart size and the enques in the pipeline stay.                 *)
LEMMA CycleCount ==
    ASSUME IInv, state = "READY", Advance, NEW in, Accept(in)
    PROVE  /\ size \in Nat /\ size' \in Nat
           /\ \A k \in 0 .. 3 : EnquesFrom(k) \in Nat /\ EnquesFrom(k)' \in Nat
           /\ \A k \in 1 .. 3 : size' + EnquesFrom(k)' <= size + EnquesFrom(k - 1)
           /\ size' + EnquesFrom(0)' <= size + num_ops_enque + 1
           /\ num_ops_enque \in Nat
           /\ Enque(2) => size' + 1 <= size + EnquesFrom(2)
           /\ ListsOK' /\ size' \in 0 .. MaxEntries
           /\ free_list'.head # INVALID_PTR <=> size' < MaxEntries
<1> USE DEF Accept
<1> DEFINE S == {j \in 0 .. 3 : Enque(j)}
           T == {j \in 0 .. 3 : reg'[j] # Idle /\ IsEnque(reg'[j])}
           M(k) == Cardinality({j \in k .. 3 : j \in S})
           N(k) == Cardinality({j \in k .. 3 : j \in T})
           out == IF Enque(3) THEN 1 ELSE 0
<1>1. ListsOK' /\ size' \in 0 .. MaxEntries
      /\ (free_list'.head # INVALID_PTR <=> size' < MaxEntries)
  <2>1. ListsOK'
    BY CommitLists, AdvanceCommits
  <2> DEFINE s == FreeEntries'
             list == free_list'
             next == fl'
             n == size'
  <2>2. IsChain(s, list, next) /\ n = Cardinality(Entries \ Range(s))
    BY <2>1 DEF ListsOK
  <2> HIDE DEF s, list, next, n
  <2>3. n \in 0 .. MaxEntries /\ (list.head # INVALID_PTR <=> n < MaxEntries)
    BY <2>2, FreeFacts
  <2> QED BY <2>1, <2>3 DEF n, list
<1>2. size \in Nat /\ size' \in Nat /\ size' <= size + out
  <2>1. size \in 0 .. MaxEntries
    BY DEF IInv, TypeOK
  <2>2. CASE Enque(3)
    BY <1>1, <2>1, <2>2, EnqueMemory, AdvanceCommits, EntriesAssumption
  <2>3. CASE Busy(3) /\ ~ Enque(3)
    BY <1>1, <2>1, <2>3, DequeMemory, AdvanceCommits, EntriesAssumption
  <2>4. CASE ~ Busy(3)
    BY <1>1, <2>1, <2>4, NoMemory, AdvanceCommits, EntriesAssumption DEF Enque
  <2> QED BY <2>2, <2>3, <2>4
<1>3. \A j \in 1 .. 3 : j \in T => j - 1 \in S
  <2>1. SUFFICES ASSUME NEW j \in 1 .. 3, j \in T PROVE j - 1 \in S
    OBVIOUS
  <2>2. reg'[j] # Idle /\ reg'[j].type = "ENQUE" /\ (j = 1 \/ j = 2 \/ j = 3)
    BY <2>1 DEF IsEnque
  <2>3. CASE j = 1
    BY <2>2, <2>3, Stage1 DEF Enque, IsEnque, en_q1, Busy
  <2>4. CASE j = 2
    BY <2>2, <2>4, Stage2 DEF Enque, IsEnque
  <2>5. CASE j = 3
    BY <2>2, <2>5, Stage3 DEF Enque, IsEnque
  <2> QED BY <2>2, <2>3, <2>4, <2>5
<1>4. S \in SUBSET (0 .. 3) /\ T \in SUBSET (0 .. 3) /\ (3 \in S <=> Enque(3))
  OBVIOUS
<1>5. /\ \A k \in 0 .. 3 : EnquesFrom(k) = M(k) /\ EnquesFrom(k)' = N(k)
      /\ num_ops_enque = M(0)
  <2>1. ASSUME NEW k \in 0 .. 3
        PROVE  /\ {j \in k .. 3 : Enque(j)} = {j \in k .. 3 : j \in S}
               /\ {j \in k .. 3 : reg'[j] # Idle /\ IsEnque(reg'[j])} = {j \in k .. 3 : j \in T}
    OBVIOUS
  <2>2. \A k : EnquesFrom(k)' = Cardinality({j \in k .. 3 : reg'[j] # Idle /\ IsEnque(reg'[j])})
    BY DEF EnquesFrom, Enque, Busy
  <2>3. {k \in 0 .. 3 : reg[k] # Idle /\ IsEnque(reg[k])} = {j \in 0 .. 3 : j \in S}
    BY DEF Enque, Busy
  <2> HIDE DEF S, T
  <2> QED BY <2>1, <2>2, <2>3 DEF EnquesFrom, num_ops_enque
<1> HIDE DEF S, T
<1>6. \A k \in 1 .. 3 : M(k - 1) \in Nat /\ N(k) \in Nat /\ N(k) + out <= M(k - 1)
  <2>1. SUFFICES ASSUME NEW k \in 1 .. 3
                 PROVE  M(k - 1) \in Nat /\ N(k) \in Nat /\ N(k) + out <= M(k - 1)
    OBVIOUS
  <2>2. /\ M(k - 1) \in Nat /\ N(k) \in Nat
        /\ N(k) + (IF 3 \in S THEN 1 ELSE 0) <= M(k - 1)
    BY <1>3, <1>4, CountShift
  <2> QED BY <1>4, <2>2
<1>7. M(3) = out /\ N(0) \in Nat /\ N(0) <= N(1) + 1 /\ M(2) = (IF 2 \in S THEN 1 ELSE 0) + out
  <2>1. {j \in 3 .. 3 : j \in S} = IF 3 \in S THEN {3} ELSE {}
    OBVIOUS
  <2>2. Cardinality({3}) = 1 /\ Cardinality({2}) = 1 /\ Cardinality({2, 3}) = 2
        /\ Cardinality({}) = 0
    <3>1. {2, 3} = {2} \cup {3} /\ 3 \notin {2}
      OBVIOUS
    <3>2. IsFiniteSet({2}) /\ Cardinality({2}) = 1 /\ Cardinality({3}) = 1
      BY FS_Singleton
    <3> QED BY <3>1, <3>2, FS_AddElement, FS_EmptySet
  <2>3. {j \in 2 .. 3 : j \in S} = IF 2 \in S THEN IF 3 \in S THEN {2, 3} ELSE {2}
                                   ELSE IF 3 \in S THEN {3} ELSE {}
    OBVIOUS
  <2>4. M(3) = out /\ M(2) = (IF 2 \in S THEN 1 ELSE 0) + out
    BY <1>4, <2>1, <2>2, <2>3
  <2> DEFINE B == {j \in 1 .. 3 : j \in T}
             C == {j \in 0 .. 3 : j \in T}
  <2>5. IsFiniteSet(B)
    <3>1. IsFiniteSet(1 .. 3)
      <4>1. PICK a \in Int, b \in Int : a = 1 /\ b = 3
        OBVIOUS
      <4>2. IsFiniteSet(a .. b)
        BY FS_Interval
      <4> QED BY <4>1, <4>2
    <3>2. B \subseteq 1 .. 3
      OBVIOUS
    <3> HIDE DEF B
    <3> QED BY <3>1, <3>2, FS_Subset
  <2>6. C = IF 0 \in T THEN B \cup {0} ELSE B
    OBVIOUS
  <2>7. 0 \notin B
    OBVIOUS
  <2> HIDE DEF B, C
  <2>8. Cardinality(B) \in Nat /\ Cardinality(C) \in Nat /\ Cardinality(C) <= Cardinality(B) + 1
    <3>1. Cardinality(B) \in Nat
      BY <2>5, FS_CardinalityType
    <3>2. Cardinality(B \cup {0}) = Cardinality(B) + 1
      BY <2>5, <2>7, FS_AddElement
    <3>3. C = B \/ C = B \cup {0}
      BY <2>6
    <3> QED BY <3>1, <3>2, <3>3
  <2> QED BY <2>4, <2>8 DEF B, C
<1>8. M(3) \in Nat
  BY <1>7
<1> HIDE DEF M, N
<1>9. /\ \A k \in 0 .. 3 : EnquesFrom(k) \in Nat /\ EnquesFrom(k)' \in Nat
      /\ num_ops_enque \in Nat
  <2>1. \A k \in 0 .. 3 : M(k) \in Nat
    <3>1. \A k \in 0 .. 3 : k = 3 \/ (k + 1 \in 1 .. 3 /\ (k + 1) - 1 = k)
      OBVIOUS
    <3> QED BY <1>6, <1>8, <3>1
  <2>2. \A k \in 0 .. 3 : N(k) \in Nat
    <3>1. \A k \in 0 .. 3 : k = 0 \/ k \in 1 .. 3
      OBVIOUS
    <3> QED BY <1>6, <1>7, <3>1
  <2> QED BY <1>5, <2>1, <2>2
<1>10. \A k \in 1 .. 3 : size' + EnquesFrom(k)' <= size + EnquesFrom(k - 1)
  <2>1. SUFFICES ASSUME NEW k \in 1 .. 3 PROVE size' + N(k) <= size + M(k - 1)
    <3>1. \A k \in 1 .. 3 : k \in 0 .. 3 /\ k - 1 \in 0 .. 3
      OBVIOUS
    <3> QED BY <1>5, <3>1
  <2> DEFINE a == size
             b == size'
             m == M(k - 1)
             n == N(k)
  <2>2. a \in Nat /\ b \in Nat /\ b <= a + out /\ m \in Nat /\ n \in Nat /\ n + out <= m
    BY <1>2, <1>6
  <2>3. out \in Nat
    OBVIOUS
  <2> HIDE DEF a, b, m, n, out
  <2>4. b + n <= a + m
    BY <2>2, <2>3
  <2> QED BY <2>4 DEF a, b, m, n
<1>11. size' + EnquesFrom(0)' <= size + num_ops_enque + 1
  <2> DEFINE a == size
             b == size'
             m == M(0)
             n == N(1)
             n0 == N(0)
  <2>1. a \in Nat /\ b \in Nat /\ b <= a + out
    BY <1>2
  <2>2. m \in Nat /\ n \in Nat /\ n + out <= m
    <3>1. 1 \in 1 .. 3 /\ 1 - 1 = 0
      OBVIOUS
    <3> QED BY <1>6, <3>1
  <2>3. n0 \in Nat /\ n0 <= n + 1 /\ out \in Nat
    BY <1>7
  <2>4. num_ops_enque = m /\ EnquesFrom(0)' = n0
    BY <1>5
  <2> HIDE DEF a, b, m, n, n0, out
  <2>5. b + n0 <= a + m + 1
    BY <2>1, <2>2, <2>3
  <2> QED BY <2>4, <2>5 DEF a, b, n0, m
<1>12. Enque(2) => size' + 1 <= size + EnquesFrom(2)
  <2>1. SUFFICES ASSUME Enque(2) PROVE size' + 1 <= size + EnquesFrom(2)
    OBVIOUS
  <2>2. EnquesFrom(2) = 1 + out
    <3>1. 2 \in S
      BY <2>1 DEF S
    <3> QED BY <1>5, <1>7, <3>1
  <2> DEFINE a == size
             b == size'
             m == EnquesFrom(2)
  <2>3. a \in Nat /\ b \in Nat /\ b <= a + out /\ out \in Nat /\ m = 1 + out
    BY <1>2, <2>2
  <2> HIDE DEF a, b, m, out
  <2>4. b + 1 <= a + m
    BY <2>3
  <2> QED BY <2>4 DEF a, b, m
<1> QED BY <1>1, <1>2, <1>9, <1>10, <1>11, <1>12

(* An assured operation goes on to the next stage.                         *)
LEMMA SureAdvances ==
    ASSUME IInv, state = "READY", Advance, NEW in, Accept(in),
           NEW k \in 0 .. 2, aux[k].sure
    PROVE  /\ reg'[k + 1] # Idle
           /\ Busy(k) /\ ~ Enque(k) => Occupied(pb) \subseteq Occupied(pb')
<1> USE DEF Accept
<1>1. SureOK /\ PipelineOK /\ BitmapsOK
  BY DEF IInv, Operating
<1>2. Busy(k)
  BY <1>1 DEF SureOK
<1>3. ASSUME ~ Enque(k) PROVE Occupied(pb) \subseteq Occupied(pb')
  <2>1. Busy(3) => Enque(3)
    <3>1. 3 \in (k + 1) .. 3
      OBVIOUS
    <3> QED BY <1>1, <1>2, <1>3, <3>1 DEF SureOK
  <2> QED BY <2>1, CommitOccupied, AdvanceCommits
<1>4. CASE k = 0
  <2>1. en_q1
    <3>1. CASE Enque(0)
      BY <3>1 DEF en_q1, Enque, Busy
    <3>2. CASE ~ Enque(0)
      <4>1. PICK p \in Priorities : p \in Occupied(pb)
        BY <1>1, <1>2, <1>4, <3>2 DEF SureOK, Occupied
      <4>2. p \div BitmapWidth \in Bits
        BY PriorityFacts
      <4>3. p \div BitmapWidth \in reg_l1_bitmap_q0
        BY <1>1, <4>1, <4>2 DEF BitmapsOK, PipelineOK
      <4> QED BY <1>2, <1>4, <4>3 DEF en_q1, Busy
    <3> QED BY <3>1, <3>2
  <2>2. reg'[1] # Idle
    BY <2>1, Stage1
  <2> QED BY <1>3, <1>4, <2>2
<1>5. CASE k = 1
  <2>1. en_q2
    <3>1. CASE Enque(1)
      BY <3>1 DEF en_q2, Enque, Busy
    <3>2. CASE ~ Enque(1)
      BY <1>1, <1>2, <1>5, <3>2 DEF en_q2, Busy, SureOK, PipelineOK
    <3> QED BY <3>1, <3>2
  <2>2. reg'[2] # Idle
    BY <2>1, Stage2
  <2> QED BY <1>3, <1>5, <2>2
<1>6. CASE k = 2
  <2>1. en_q3
    <3>1. CASE Enque(2)
      <4>1. size + EnquesFrom(2) <= MaxEntries
        BY <1>1, <1>6, <3>1 DEF SureOK
      <4>2. /\ size' + 1 <= size + EnquesFrom(2) /\ size \in Nat /\ size' \in Nat
            /\ EnquesFrom(2) \in Nat
            /\ free_list'.head # INVALID_PTR <=> size' < MaxEntries
        BY <3>1, CycleCount
      <4>3. size' < MaxEntries
        <5> DEFINE a == size
                   b == size'
                   m == EnquesFrom(2)
        <5>1. a \in Nat /\ b \in Nat /\ m \in Nat /\ b + 1 <= a + m /\ a + m <= MaxEntries
          BY <4>1, <4>2
        <5> HIDE DEF a, b, m
        <5>2. b < MaxEntries
          BY <5>1, EntriesAssumption
        <5> QED BY <5>2 DEF b
      <4>4. int_free_list.head # INVALID_PTR
        BY <4>2, <4>3 DEF Advance
      <4> QED BY <3>1, <4>4 DEF en_q3, fl_empty_q3, Enque, Busy
    <3>2. CASE ~ Enque(2)
      <4>1. Busy(2) /\ pb[reg[2].priority].head # INVALID_PTR /\ reg[2].priority \in Priorities
        BY <1>1, <1>2, <1>6, <3>2 DEF SureOK, PipelineOK
      <4>2. reg[2].priority \in Occupied(pb')
        BY <1>3, <1>6, <3>2, <4>1 DEF Occupied
      <4>3. int_pb_q.head # INVALID_PTR
        BY <4>1, <4>2, BucketSeen DEF Occupied
      <4> QED BY <3>2, <4>1, <4>3 DEF en_q3, pb_empty_q3, Enque, Busy
    <3> QED BY <3>1, <3>2
  <2>2. reg'[3] # Idle
    BY <2>1, Stage3
  <2> QED BY <1>3, <1>6, <2>2
<1> QED BY <1>4, <1>5, <1>6

(* What assures an operation stays true on its way through the pipeline.   *)
LEMMA CycleSure ==
    ASSUME IInv, state = "READY", Advance, NEW in \in Inputs \cup {Idle}, Accept(in)
    PROVE  SureOK'
<1> USE DEF Accept
<1>0. SureOK /\ PipelineOK
  BY DEF IInv, Operating
<1>1. \A k : (Busy(k)' <=> reg'[k] # Idle) /\ (Enque(k)' <=> reg'[k] # Idle /\ IsEnque(reg'[k]))
  BY DEF Busy, Enque
<1>2. /\ reg'[1] # Idle => Busy(0) /\ (IsEnque(reg'[1]) <=> Enque(0))
      /\ reg'[2] # Idle => Busy(1) /\ (IsEnque(reg'[2]) <=> Enque(1))
      /\ reg'[3] # Idle => Busy(2) /\ (IsEnque(reg'[3]) <=> Enque(2))
  BY Stage1, Stage2, Stage3 DEF IsEnque, Enque
<1>3. \A k \in 1 .. 3 : k = 1 \/ k = 2 \/ k = 3
  OBVIOUS
<1>4. \A k \in 1 .. 3 : reg'[k] # Idle =>
          /\ Busy(k - 1) /\ (IsEnque(reg'[k]) <=> Enque(k - 1))
          /\ aux'[k].sure = aux[k - 1].sure
  BY <1>2, <1>3, NextAuxFacts
<1>5. \A k \in 0 .. 3 : aux'[k].sure => reg'[k] # Idle
  <2>1. \A k \in 0 .. 3 : k = 0 \/ k \in 1 .. 3
    OBVIOUS
  <2>2. ~ NoAux.sure
    BY DEF NoAux
  <2> QED BY <2>1, <2>2, NextAuxFacts
<1>6. reg'[0] # Idle => (IsEnque(reg'[0]) <=> IsEnque(in))
  BY Stage0 DEF IsEnque
<1>7. ASSUME NEW k \in 0 .. 3, reg'[k] # Idle, IsEnque(reg'[k]), aux'[k].sure
      PROVE  size' + EnquesFrom(k)' <= MaxEntries
  <2>1. CASE k = 0
    <3>1. size + num_ops_enque < MaxEntries
      BY <1>6, <1>7, <2>1, NextAuxFacts
    <3>2. /\ size' + EnquesFrom(0)' <= size + num_ops_enque + 1
          /\ size \in Nat /\ size' \in Nat /\ num_ops_enque \in Nat /\ EnquesFrom(0)' \in Nat
      BY CycleCount
    <3> DEFINE a == size
               b == size'
               m == num_ops_enque
               n == EnquesFrom(0)'
    <3>3. a \in Nat /\ b \in Nat /\ m \in Nat /\ n \in Nat /\ b + n <= a + m + 1 /\ a + m < MaxEntries
      BY <3>1, <3>2
    <3> HIDE DEF a, b, m, n
    <3>4. b + n <= MaxEntries
      BY <3>3, EntriesAssumption
    <3> QED BY <2>1, <3>4 DEF b, n
  <2>2. CASE k \in 1 .. 3
    <3>1. Enque(k - 1) /\ aux[k - 1].sure /\ k - 1 \in 0 .. 3
      BY <1>4, <1>7, <2>2
    <3>2. size + EnquesFrom(k - 1) <= MaxEntries
      BY <1>0, <3>1 DEF SureOK
    <3>3. /\ size' + EnquesFrom(k)' <= size + EnquesFrom(k - 1)
          /\ size \in Nat /\ size' \in Nat /\ EnquesFrom(k - 1) \in Nat /\ EnquesFrom(k)' \in Nat
      BY <2>2, <3>1, CycleCount
    <3> DEFINE a == size
               b == size'
               m == EnquesFrom(k - 1)
               n == EnquesFrom(k)'
    <3>4. a \in Nat /\ b \in Nat /\ m \in Nat /\ n \in Nat /\ b + n <= a + m /\ a + m <= MaxEntries
      BY <3>2, <3>3
    <3> HIDE DEF a, b, m, n
    <3>5. b + n <= MaxEntries
      BY <3>4, EntriesAssumption
    <3> QED BY <3>5 DEF b, n
  <2> QED BY <2>1, <2>2
<1>8. ASSUME NEW k \in 0 .. 2, reg'[k] # Idle, ~ IsEnque(reg'[k]), aux'[k].sure,
             NEW j \in (k + 1) .. 3, reg'[j] # Idle
      PROVE  IsEnque(reg'[j])
  <2>1. j \in 1 .. 3 /\ j - 1 \in 0 .. 2 /\ Busy(j - 1)
    BY <1>4, <1>8
  <2>2. CASE k = 0
    <3>1. ~ IsEnque(in)
      BY <1>6, <1>8, <2>2
    <3>2. \A i \in 0 .. 2 : Busy(i) => Enque(i)
      BY <1>8, <2>2, <3>1, NextAuxFacts
    <3> QED BY <1>4, <1>8, <2>1, <3>2
  <2>3. CASE k # 0
    <3>1. k \in 1 .. 3 /\ k - 1 \in 0 .. 2 /\ j - 1 \in ((k - 1) + 1) .. 3
      BY <2>3
    <3>2. Busy(k - 1) /\ ~ Enque(k - 1) /\ aux[k - 1].sure
      BY <1>4, <1>8, <3>1
    <3>3. Enque(j - 1)
      BY <1>0, <2>1, <3>1, <3>2 DEF SureOK
    <3> QED BY <1>4, <1>8, <2>1, <3>3
  <2> QED BY <2>2, <2>3
<1>9. reg'[0] # Idle /\ ~ IsEnque(reg'[0]) /\ aux'[0].sure => Occupied(pb') # {}
  BY <1>6, NextAuxFacts
<1>10. ASSUME reg'[1] # Idle, ~ IsEnque(reg'[1]), aux'[1].sure
       PROVE  l2_bitmaps'[reg'[1].l1_idx] # {}
  <2>1. Busy(0) /\ ~ Enque(0) /\ aux[0].sure
    <3>1. 1 \in 1 .. 3 /\ 1 - 1 = 0
      OBVIOUS
    <3> QED BY <1>4, <1>10, <3>1
  <2>2. Occupied(pb) \subseteq Occupied(pb')
    <3>1. 0 \in 0 .. 2
      OBVIOUS
    <3> QED BY <2>1, <3>1, SureAdvances
  <2>3. /\ reg'[1].l1_idx = l1_bitmap_idx_q1
        /\ l1_bitmap_idx_q1 = FirstSet(reg[0], reg_l1_bitmap_q0)
        /\ reg_l1_bitmap_q0 # {}
    BY <1>10, <2>1, Stage1 DEF l1_bitmap_idx_q1, Enque, en_q1
  <2> DEFINE i == l1_bitmap_idx_q1
  <2>4. i \in l1_bitmap /\ i \in Bits
    <3>1. reg_l1_bitmap_q0 \subseteq Bits /\ reg_l1_bitmap_q0 = l1_bitmap
      BY <1>0, ReadyTypes DEF PipelineOK
    <3> QED BY <2>3, <3>1, FirstSetFacts
  <2> HIDE DEF i
  <2>5. l2_bitmaps[i] # {} /\ l2_bitmaps[i] \subseteq Bits
    BY <2>4, ReadyTypes DEF IInv, Operating, BitmapsOK
  <2>6. PICK j \in Bits : j \in l2_bitmaps[i]
    BY <2>5
  <2>7. PICK p \in Priorities : p \div BitmapWidth = i /\ p % BitmapWidth = j
    BY <2>4, PriorityOf
  <2>8. p \in Occupied(pb)
    BY <2>6, <2>7 DEF IInv, Operating, BitmapsOK
  <2>9. j \in l2_bitmaps'[i]
    BY <2>2, <2>7, <2>8, CommitBitmaps
  <2> QED BY <2>3, <2>9 DEF i
<1>11. ASSUME reg'[2] # Idle, ~ IsEnque(reg'[2]), aux'[2].sure
       PROVE  pb'[reg'[2].priority].head # INVALID_PTR
  <2>1. Busy(1) /\ ~ Enque(1) /\ aux[1].sure
    <3>1. 2 \in 1 .. 3 /\ 2 - 1 = 1
      OBVIOUS
    <3> QED BY <1>4, <1>11, <3>1
  <2>2. Occupied(pb) \subseteq Occupied(pb')
    <3>1. 1 \in 0 .. 2
      OBVIOUS
    <3> QED BY <2>1, <3>1, SureAdvances
  <2> DEFINE i == reg[1].l1_idx
             j == FirstSet(reg[1], reg[1].l2_bitmap)
             r == j + i * BitmapWidth
  <2>3. reg'[2].priority = r /\ i \in Bits /\ reg[1].l2_bitmap # {}
    BY <1>11, <2>1, Stage2 DEF pb_rdaddress, Enque, en_q2
  <2>4. reg[1].l2_bitmap = l2_bitmaps[i] /\ reg[1].l2_bitmap \subseteq Bits
    BY <1>0, <2>1, ReadyTypes DEF PipelineOK, Op
  <2>5. j \in Bits /\ j \in l2_bitmaps[i]
    BY <2>3, <2>4, FirstSetFacts
  <2> HIDE DEF i, j
  <2>6. r \in Priorities /\ r \div BitmapWidth = i /\ r % BitmapWidth = j
    BY <2>3, <2>5, PriorityOf
  <2> HIDE DEF r
  <2>7. r \in Occupied(pb)
    BY <2>5, <2>6 DEF IInv, Operating, BitmapsOK
  <2> QED BY <2>2, <2>3, <2>7 DEF Occupied
<1> QED
  BY <1>1, <1>5, <1>7, <1>8, <1>9, <1>10, <1>11 DEF SureOK

-----------------------------------------------------------------------------
(* Types.                                                                  *)

(* What stage 4 writes.                                                    *)
LEMMA CommitTypes ==
    ASSUME IInv, state = "READY"
    PROVE  /\ en_q4 => int_pb_data \in Lists /\ reg[3].priority \in Priorities
           /\ EnqueCommits => int_he_data \in HeapEntries
           /\ fl_wren => int_fl_data \in Pointers \cup {Junk}
           /\ CommitWrites => /\ fl' \in [Entries -> Pointers \cup {Junk}]
                              /\ he' \in [Entries -> HeapEntries]
                              /\ pb' \in [Priorities -> Lists]
<1>0. /\ reg_pb_q3 \in Lists /\ last.he \in HeapEntries /\ he_q \in HeapEntries
      /\ fl \in [Entries -> Pointers \cup {Junk}]
      /\ he \in [Entries -> HeapEntries]
      /\ pb \in [Priorities -> Lists]
      /\ reg[3] # Idle => reg[3] \in Op
  BY DEF IInv, TypeOK
<1>1. reg_pb_q3.head \in Pointers \cup {Junk} /\ reg_pb_q3.tail \in Pointers \cup {Junk}
  BY <1>0 DEF Lists
<1>2. EnqueCommits => he_wraddress \in Entries
  <2>1. SUFFICES ASSUME EnqueCommits PROVE he_wraddress \in Entries
    OBVIOUS
  <2>2. free_list.head # INVALID_PTR
    BY <2>1 DEF IInv, Operating, PipelineOK, EnqueCommits, en_q4, Enque, Busy
  <2>3. free_list.head \in Entries
    BY <2>2 DEF IInv, TypeOK
  <2> QED BY <2>3, AddressFacts DEF he_wraddress
<1>3. int_he_q.next \in Pointers \cup {Junk}
  BY <1>0 DEF int_he_q, HeapEntries
<1>4. en_q4 => int_pb_data \in Lists
  <2>1. SUFFICES ASSUME en_q4 PROVE int_pb_data \in Lists
    OBVIOUS
  <2>2. CASE EnqueCommits
    <3>1. he_wraddress \in Pointers \cup {Junk}
      BY <1>2, <2>2 DEF Pointers
    <3> QED BY <1>1, <2>2, <3>1 DEF int_pb_data, Lists
  <2>3. CASE ~ EnqueCommits
    <3>1. EmptyList \in Lists
      BY DEF EmptyList, Lists, Pointers
    <3>2. [reg_pb_q3 EXCEPT !.head = int_he_q.next] \in Lists
      BY <1>0, <1>3 DEF Lists
    <3> QED BY <2>3, <3>1, <3>2 DEF int_pb_data
  <2> QED BY <2>2, <2>3
<1>5. en_q4 => reg[3].priority \in Priorities
  BY DEF IInv, Operating, PipelineOK, en_q4, Busy
<1>6. EnqueCommits => int_he_data \in HeapEntries
  <2>1. SUFFICES ASSUME EnqueCommits PROVE int_he_data \in HeapEntries
    OBVIOUS
  <2>2. reg[3].value \in Values
    BY <2>1 DEF IInv, Operating, PipelineOK, EnqueCommits, en_q4, Enque, Busy
  <2> QED BY <1>1, <2>2 DEF int_he_data, HeapEntries
<1>7. fl_wren => int_fl_data \in Pointers \cup {Junk}
  BY <1>1 DEF int_fl_data
<1>8. CommitWrites => /\ fl' \in [Entries -> Pointers \cup {Junk}]
                      /\ he' \in [Entries -> HeapEntries]
                      /\ pb' \in [Priorities -> Lists]
  BY <1>0, <1>4, <1>6, <1>7 DEF CommitWrites, Write
<1> QED BY <1>4, <1>5, <1>6, <1>7, <1>8

LEMMA JunkTypes ==
    /\ JunkList \in Lists /\ EmptyList \in Lists /\ JunkEntry \in HeapEntries
    /\ NoConflict \in [pb : BOOLEAN, he : BOOLEAN, fl : BOOLEAN]
    /\ JunkLast \in [pb : Lists, he : HeapEntries, fl : Pointers \cup {Junk}]
    /\ NoAux \in [present : SUBSET Priorities, sure : BOOLEAN]
    /\ [head |-> 0, tail |-> MaxEntries - 1]
          \in [head : Entries \cup {INVALID_PTR}, tail : Entries \cup {INVALID_PTR}]
    /\ 0 \in Entries /\ 0 \in Priorities /\ 1 \in Priorities
    /\ 1 \in 0 .. (AddressSpace - 1) /\ 0 \in 0 .. (AddressSpace - 1)
    /\ BitmapWidth * BitmapWidth \in Nat /\ BitmapWidth * BitmapWidth >= 4
<1>1. JunkList \in Lists /\ EmptyList \in Lists /\ JunkEntry \in HeapEntries
  BY DEF JunkList, EmptyList, JunkEntry, Lists, HeapEntries, Pointers
<1>2. /\ NoConflict \in [pb : BOOLEAN, he : BOOLEAN, fl : BOOLEAN]
      /\ NoAux \in [present : SUBSET Priorities, sure : BOOLEAN]
  BY DEF NoConflict, NoAux
<1>3. JunkLast \in [pb : Lists, he : HeapEntries, fl : Pointers \cup {Junk}]
  BY <1>1 DEF JunkLast
<1>4. 0 \in Entries /\ MaxEntries - 1 \in Entries
  BY EntriesAssumption DEF Entries
<1>5. BitmapWidth * BitmapWidth \in Nat /\ BitmapWidth * BitmapWidth >= 4
  BY WidthFacts
<1>6. 0 \in Priorities /\ 1 \in Priorities
  BY <1>5 DEF Priorities
<1>7. 1 \in 0 .. (AddressSpace - 1) /\ 0 \in 0 .. (AddressSpace - 1)
  BY AddressFacts, EntriesAssumption
<1> QED BY <1>1, <1>2, <1>3, <1>4, <1>5, <1>6, <1>7

LEMMA CycleTypes ==
    ASSUME IInv, state = "READY", Advance, NEW in \in Inputs \cup {Idle}, Accept(in)
    PROVE  TypeOK'
<1> USE DEF Accept
<1>0. TypeOK /\ Operating
  BY DEF IInv
<1>1. (state \in {"IDLE", "INIT", "READY"})'
  BY DEF Advance
<1>2. (free_list \in [head : Entries \cup {INVALID_PTR}, tail : Entries \cup {INVALID_PTR}])'
  <2>1. free_list \in [head : Entries \cup {INVALID_PTR}, tail : Entries \cup {INVALID_PTR}]
    BY <1>0 DEF TypeOK
  <2>2. CASE Enque(3)
    <3>1. free_list' = IF free_list.head = free_list.tail THEN EmptyList
                       ELSE [head |-> fl[free_list.head], tail |-> free_list.tail]
      BY <2>2, EnqueMemory, AdvanceCommits
    <3>2. free_list'.head # INVALID_PTR => free_list'.head \in Entries
      <4>1. IsChain(FreeEntries', free_list', fl')
        BY CycleCount DEF ListsOK
      <4> DEFINE s == FreeEntries'
                 list == free_list'
                 next == fl'
      <4>2. IsChain(s, list, next)
        BY <4>1
      <4> HIDE DEF s, list, next
      <4>3. list.head # INVALID_PTR => list.head \in Entries
        BY <4>2, ChainFacts
      <4> QED BY <4>3 DEF list
    <3> QED BY <2>1, <3>1, <3>2 DEF EmptyList
  <2>3. CASE Busy(3) /\ ~ Enque(3)
    <3>1. PICK e : e = pb[AtPriority].head
      OBVIOUS
    <3>2. /\ e \in Entries
          /\ free_list' = [head |-> IF free_list.head = INVALID_PTR THEN e ELSE free_list.head,
                           tail |-> e]
      BY <2>3, <3>1, DequeMemory, AdvanceCommits
    <3> QED BY <2>1, <3>2
  <2>4. CASE ~ Busy(3)
    BY <2>1, <2>4, NoMemory, AdvanceCommits
  <2> QED BY <2>2, <2>3, <2>4 DEF Enque
<1>3. (l1_bitmap \in SUBSET Bits /\ reg_l1_bitmap_q0 \in SUBSET Bits)'
  BY CommitBitmaps DEF Advance
<1>4. (l2_bitmaps \in [Bits -> SUBSET Bits])'
  BY CommitBitmaps
<1>5. (size \in 0 .. MaxEntries)'
  BY CycleCount
<1>6. \A k \in 0 .. 3 : reg'[k] \in Op \cup {Idle}
  <2>1. \A k \in 0 .. 3 : k = 0 \/ k = 1 \/ k = 2 \/ k = 3
    OBVIOUS
  <2>2. reg'[0] \in Op \cup {Idle}
    BY Stage0
  <2>3. reg'[1] \in Op \cup {Idle}
    BY Stage1
  <2>4. reg'[2] \in Op \cup {Idle}
    BY Stage2
  <2>5. reg'[3] \in Op \cup {Idle}
    BY Stage3
  <2> QED BY <2>1, <2>2, <2>3, <2>4, <2>5
<1>7. (reg[4] \in OutOp \cup {Idle})'
  BY Stage4
<1>8. /\ fl' \in [Entries -> Pointers \cup {Junk}]
      /\ he' \in [Entries -> HeapEntries]
      /\ pb' \in [Priorities -> Lists]
  BY CommitTypes DEF Advance
<1>9. reg_pb_q3' \in Lists
  <2>1. en_q3 => int_pb_q \in Lists
    <3>1. SUFFICES ASSUME en_q3 PROVE int_pb_q \in Lists
      OBVIOUS
    <3>2. Busy(2) /\ reg[2].priority \in Priorities
      BY <1>0, <3>1 DEF Operating, PipelineOK, Busy, en_q3
    <3> QED BY <1>8, <3>2, BucketSeen
  <2> QED BY <2>1, JunkTypes DEF Advance
<1>10. pb_q' \in Lists
  <2>1. pb_q' = Read(pb, en_q2 /\ ~ pb_rdwr_conflict, pb_rdaddress, JunkList)
    BY DEF Advance
  <2> QED BY <2>1, ReadyTypes, JunkTypes DEF Read
<1>11. conflict' \in [pb : BOOLEAN, he : BOOLEAN, fl : BOOLEAN]
  <2>1. /\ pb_rdwr_conflict \in BOOLEAN /\ he_rdwr_conflict \in BOOLEAN
        /\ fl_rdwr_conflict \in BOOLEAN
    BY DEF pb_rdwr_conflict, he_rdwr_conflict, fl_rdwr_conflict
  <2>2. conflict' = [pb |-> pb_rdwr_conflict, he |-> he_rdwr_conflict, fl |-> fl_rdwr_conflict]
    BY DEF Advance
  <2> QED BY <2>1, <2>2
<1>12. last' \in [pb : Lists, he : HeapEntries, fl : Pointers \cup {Junk}]
  BY CommitTypes, JunkTypes DEF Advance
<1>13. fl_q' \in Pointers \cup {Junk}
  <2>1. fl_q' = Read(fl, ReadsFl /\ ~ fl_rdwr_conflict, fl_rdaddress, Junk)
    BY DEF Advance
  <2> QED BY <2>1, ReadyTypes DEF Read
<1>14. he_q' \in HeapEntries
  <2>1. he_q' = Read(he, ReadsHe /\ ~ he_rdwr_conflict, he_rdaddress, JunkEntry)
    BY DEF Advance
  <2> QED BY <2>1, ReadyTypes, JunkTypes DEF Read
<1>15. /\ init' = init /\ resets' = resets
       /\ init \in [fl : 0 .. (AddressSpace - 1), pb : Priorities,
                    fl_done : BOOLEAN, pb_done : BOOLEAN]
       /\ resets \in 0 .. MaxResets
  BY <1>0 DEF Advance, TypeOK
<1>16. \A k \in 0 .. 3 : aux'[k] \in [present : SUBSET Priorities, sure : BOOLEAN]
  BY NextAuxFacts
<1> QED
  BY <1>1, <1>2, <1>3, <1>4, <1>5, <1>6, <1>7, <1>8, <1>9, <1>10, <1>11, <1>12, <1>13,
     <1>14, <1>15, <1>16 DEF TypeOK

-----------------------------------------------------------------------------
(* The invariant is inductive.                                             *)

(* A cycle in READY.                                                       *)
LEMMA ReadyCycle ==
    ASSUME IInv, state = "READY", Advance, NEW in \in Inputs \cup {Idle}, Accept(in)
    PROVE  IInv'
<1>1. TypeOK' /\ OrderOK' /\ SureOK'
  BY CycleTypes, CycleOrder, CycleSure
<1>2. ListsOK' /\ BitmapsOK' /\ PipelineOK'
  BY CommitLists, CommitBitmaps, CyclePipeline, AdvanceCommits DEF Accept
<1>3. state' = "READY"
  BY DEF Advance
<1> QED BY <1>1, <1>2, <1>3 DEF IInv, Operating

(* A cycle in IDLE: nothing is accepted, so nothing happens.               *)
LEMMA IdleCycle ==
    ASSUME IInv, state = "IDLE", Advance, NEW in, Accept(in)
    PROVE  /\ IInv'
           /\ reg'[4] = Idle /\ state' = "IDLE"
<1> USE DEF Accept
<1>0. TypeOK /\ NoOps /\ \A k \in 0 .. 3 : aux[k] = NoAux
  BY DEF IInv
<1>1. reg[0] = Idle /\ reg[1] = Idle /\ reg[2] = Idle /\ reg[3] = Idle /\ reg[4] = Idle
  BY <1>0 DEF NoOps, Busy
<1>2. ~ en_q1 /\ ~ en_q2 /\ ~ en_q3 /\ ~ en_q4
  BY <1>1 DEF en_q1, en_q2, en_q3, en_q4
<1>3. ~ EnqueCommits /\ ~ DequeCommits /\ ~ fl_wren /\ ~ ReadsHe /\ ~ ReadsFl
  BY <1>2 DEF EnqueCommits, DequeCommits, fl_wren, ReadsHe, ReadsFl
<1>4. reg'[0] = Idle /\ reg'[1] = Idle /\ reg'[2] = Idle /\ reg'[3] = Idle /\ reg'[4] = Idle
  BY <1>2, NextRegFacts
<1>5. state' = "IDLE" /\ NoOps'
  <2>1. \A k \in 0 .. 4 : k = 0 \/ k = 1 \/ k = 2 \/ k = 3 \/ k = 4
    OBVIOUS
  <2> QED BY <1>4, <2>1 DEF Advance, NoOps, Busy
<1>6. \A k \in 0 .. 3 : aux'[k] = NoAux
  <2>1. \A k \in 0 .. 3 : k = 0 \/ (k \in 1 .. 3 /\ reg'[k] = Idle)
    <3>1. \A k \in 0 .. 3 : k = 0 \/ k = 1 \/ k = 2 \/ k = 3
      OBVIOUS
    <3> QED BY <1>4, <3>1
  <2> QED BY <1>4, <2>1, NextAuxFacts
<1>7. UNCHANGED <<he, fl, pb, free_list, l1_bitmap, l2_bitmaps, size, init, resets>>
  BY <1>2, <1>3 DEF Advance, CommitWrites, int_free_list, int_l1_bitmap, int_size
<1>8. reg_l1_bitmap_q0' = l1_bitmap
  BY <1>3 DEF Advance, int_l1_bitmap
<1>9. /\ reg_pb_q3' = JunkList /\ last' = JunkLast
      /\ fl_q' = Junk /\ he_q' = JunkEntry /\ pb_q' = JunkList
  BY <1>2, <1>3 DEF Advance, JunkLast, Read
<1>10. conflict' = NoConflict
  <2>1. pb_rdwr_conflict = FALSE /\ he_rdwr_conflict = FALSE /\ fl_rdwr_conflict = FALSE
    BY <1>2, <1>3 DEF pb_rdwr_conflict, he_rdwr_conflict, fl_rdwr_conflict
  <2> QED BY <2>1 DEF Advance, NoConflict
<1>11. TypeOK'
  <2>1. \A k \in 0 .. 3 : reg'[k] \in Op \cup {Idle}
    <3>1. \A k \in 0 .. 3 : k = 0 \/ k = 1 \/ k = 2 \/ k = 3
      OBVIOUS
    <3> QED BY <1>4, <3>1
  <2> QED BY <1>0, <1>4, <1>5, <1>6, <1>7, <1>8, <1>9, <1>10, <2>1, JunkTypes DEF TypeOK
<1> QED BY <1>4, <1>5, <1>6, <1>11 DEF IInv

(* The free list that INIT builds holds every entry in order.              *)
LEMMA FreshFree ==
    ASSUME NEW next, \A e \in Entries : next[e] = e + 1,
           NEW list, list = [head |-> 0, tail |-> MaxEntries - 1]
    PROVE  LET s == [i \in 1 .. MaxEntries |-> i - 1]
           IN  IsChain(s, list, next) /\ Range(s) = Entries
<1> DEFINE s == [i \in 1 .. MaxEntries |-> i - 1]
<1>1. \A i \in 1 .. MaxEntries : s[i] = i - 1 /\ s[i] \in Entries
  BY EntriesAssumption DEF Entries
<1>2. s \in Seq(Entries) /\ Len(s) = MaxEntries
  <2>1. s \in [1 .. MaxEntries -> Entries] /\ MaxEntries \in Nat
    BY <1>1, EntriesAssumption
  <2> HIDE DEF s
  <2>2. s \in Seq(Entries)
    BY <2>1, SeqDef
  <2>3. DOMAIN s = 1 .. MaxEntries /\ DOMAIN s = 1 .. Len(s) /\ Len(s) \in Nat
    BY <2>1, <2>2, LenProperties
  <2>4. Len(s) = MaxEntries
    BY <2>1, <2>3
  <2> QED BY <2>2, <2>4
<1>3. IsInjective(s)
  BY EntriesAssumption DEF IsInjective
<1>4. DOMAIN s = 1 .. MaxEntries
  OBVIOUS
<1> HIDE DEF s
<1>5. s # <<>>
  BY <1>2, EntriesAssumption, EmptySeq
<1>6. s \in EntrySeqs
  BY <1>2, <1>3, <1>5, EntrySeqIs
<1>7. s[1] = 0 /\ s[Len(s)] = MaxEntries - 1
  <2>1. 1 \in 1 .. MaxEntries /\ MaxEntries \in 1 .. MaxEntries
    BY EntriesAssumption
  <2> QED BY <1>1, <1>2, <2>1
<1>8. ASSUME NEW i \in 1 .. (Len(s) - 1) PROVE next[s[i]] = s[i + 1]
  <2>1. i \in 1 .. MaxEntries /\ i + 1 \in 1 .. MaxEntries /\ (i + 1) - 1 = (i - 1) + 1
    BY <1>2, EntriesAssumption
  <2>2. s[i] = i - 1 /\ s[i] \in Entries /\ s[i + 1] = (i + 1) - 1
    BY <1>1, <2>1
  <2> QED BY <2>1, <2>2
<1>9. Links(list, next, s)
  BY <1>7, <1>8 DEF Links
<1>10. list.head # INVALID_PTR
  BY DEF INVALID_PTR
<1>11. Range(s) = Entries
  <2>1. \A i \in DOMAIN s : s[i] \in Entries
    BY <1>1, <1>4
  <2>2. \A e \in Entries : e + 1 \in DOMAIN s /\ s[e + 1] = e
    <3>1. \A e \in Entries : e + 1 \in 1 .. MaxEntries /\ (e + 1) - 1 = e
      BY EntriesAssumption DEF Entries
    <3> QED BY <1>1, <1>4, <3>1
  <2> QED BY <2>1, <2>2 DEF Range
<1> QED BY <1>6, <1>9, <1>10, <1>11 DEF IsChain, s

(* One cycle of INIT, and what it leaves to the first cycle of READY.      *)
LEMMA InitStep ==
    ASSUME IInv, InitCycle
    PROVE  /\ IInv' /\ state = "INIT" /\ reg'[4] = Idle
           /\ state' = "READY" => \A p \in Priorities : Bucket(p)' = <<>>
<1>0. TypeOK /\ Initialising /\ state = "INIT"
  BY DEF IInv, InitCycle
<1>1. UNCHANGED <<free_list, l1_bitmap, l2_bitmaps, size, reg, reg_pb_q3, conflict,
                  last, fl_q, he_q, pb_q, resets, aux, he>>
  BY DEF InitCycle, InitWrites
<1> DEFINE P == BitmapWidth * BitmapWidth
<1>2. P \in Nat /\ P >= 4 /\ Priorities = 0 .. (P - 1)
  BY JunkTypes DEF Priorities
<1>3. /\ init.fl \in 0 .. (AddressSpace - 1) /\ init.pb \in 0 .. (P - 1)
      /\ init.fl_done \in BOOLEAN /\ init.pb_done \in BOOLEAN
      /\ ~ init.fl_done => init.fl < MaxEntries
  BY <1>0, <1>2 DEF TypeOK, Initialising
<1>4. /\ init'.fl = IF init.fl_done THEN 1 ELSE (init.fl + 1) % AddressSpace
      /\ init'.pb = IF init.pb_done THEN 1 ELSE (init.pb + 1) % P
      /\ init'.fl_done = fl_init_done /\ init'.pb_done = pb_init_done
      /\ init' = [fl |-> init'.fl, pb |-> init'.pb, fl_done |-> fl_init_done,
                  pb_done |-> pb_init_done]
  BY DEF InitCycle
<1>5. /\ fl_init_done <=> init.fl_done \/ init.fl = MaxEntries - 1
      /\ pb_init_done <=> init.pb_done \/ init.pb = P - 1
  BY DEF fl_init_done, pb_init_done
<1> HIDE DEF P
<1>6. AddressSpace \in Nat /\ AddressSpace >= MaxEntries /\ MaxEntries \in Nat /\ MaxEntries >= 2
  BY AddressFacts, EntriesAssumption
<1>7. init'.fl \in 0 .. (AddressSpace - 1) /\ init'.pb \in 0 .. (P - 1)
  <2> DEFINE a == init.fl
             b == init.pb
             A == AddressSpace
  <2>1. /\ a \in 0 .. (A - 1) /\ b \in 0 .. (P - 1)
        /\ A \in Nat /\ A >= 2 /\ P \in Nat /\ P >= 4
    BY <1>2, <1>3, <1>6
  <2> HIDE DEF a, b, A
  <2>2. (a + 1) % A \in 0 .. (A - 1) /\ (b + 1) % P \in 0 .. (P - 1)
        /\ 1 \in 0 .. (A - 1) /\ 1 \in 0 .. (P - 1)
    BY <2>1
  <2> QED BY <1>4, <2>2 DEF a, b, A
<1>8. init' \in [fl : 0 .. (AddressSpace - 1), pb : Priorities,
                 fl_done : BOOLEAN, pb_done : BOOLEAN]
  <2>1. fl_init_done \in BOOLEAN /\ pb_init_done \in BOOLEAN
    BY <1>3 DEF fl_init_done, pb_init_done
  <2> QED BY <1>2, <1>4, <1>7, <2>1
<1>9. ~ init.fl_done /\ init.fl # MaxEntries - 1 =>
          init'.fl = init.fl + 1 /\ init'.fl < MaxEntries
  <2> DEFINE a == init.fl
             A == AddressSpace
  <2>1. SUFFICES ASSUME ~ init.fl_done, a # MaxEntries - 1
                 PROVE  (a + 1) % A = a + 1 /\ a + 1 < MaxEntries
    BY <1>4
  <2>2. a \in Nat /\ a < MaxEntries /\ A \in Nat /\ A >= MaxEntries
    BY <1>3, <1>6, <2>1
  <2>3. MaxEntries \in Nat
    BY <1>6
  <2> HIDE DEF a, A
  <2> QED BY <2>1, <2>2, <2>3
<1>10. ~ init.pb_done /\ init.pb # P - 1 => init'.pb = init.pb + 1
  <2> DEFINE b == init.pb
  <2>1. SUFFICES ASSUME ~ init.pb_done, b # P - 1 PROVE (b + 1) % P = b + 1
    BY <1>4
  <2>2. b \in Nat /\ b < P /\ P \in Nat
    BY <1>2, <1>3
  <2> HIDE DEF b
  <2> QED BY <2>1, <2>2
<1>11. /\ fl' \in [Entries -> Pointers \cup {Junk}]
       /\ \A e \in Entries : fl'[e] = IF ~ init.fl_done /\ e = init.fl THEN e + 1 ELSE fl[e]
  <2>1. fl' = IF init.fl_done THEN fl ELSE Write(fl, init.fl, init.fl + 1)
    BY DEF InitCycle, InitWrites
  <2>2. fl \in [Entries -> Pointers \cup {Junk}]
    BY <1>0 DEF TypeOK
  <2>3. \A e \in Entries : e + 1 \in Pointers
    BY <1>6 DEF Entries, Pointers
  <2> QED BY <2>1, <2>2, <2>3 DEF Write
<1>12. /\ pb' \in [Priorities -> Lists]
       /\ \A p \in Priorities :
             pb'[p] = IF ~ init.pb_done /\ p = init.pb THEN EmptyList ELSE pb[p]
  <2>1. pb' = IF init.pb_done THEN pb ELSE Write(pb, init.pb, EmptyList)
    BY DEF InitCycle, InitWrites
  <2>2. pb \in [Priorities -> Lists] /\ EmptyList \in Lists
    BY <1>0, JunkTypes DEF TypeOK
  <2> QED BY <2>1, <2>2 DEF Write
<1>13. \A e \in Entries : init'.fl_done \/ e < init'.fl => fl'[e] = e + 1
  <2>1. SUFFICES ASSUME NEW e \in Entries, init'.fl_done \/ e < init'.fl PROVE fl'[e] = e + 1
    OBVIOUS
  <2>2. init.fl_done \/ e < init.fl => fl[e] = e + 1
    BY <1>0 DEF Initialising
  <2>3. init.fl_done \/ e < init.fl \/ e = init.fl
    <3> DEFINE a == init.fl
    <3>1. a \in Nat /\ e \in Nat /\ e <= MaxEntries - 1
      BY <1>3, <1>6 DEF Entries
    <3>2. CASE a = MaxEntries - 1
      <4> HIDE DEF a
      <4>1. e < a \/ e = a
        BY <1>6, <3>1, <3>2
      <4> QED BY <4>1 DEF a
    <3>3. CASE ~ init.fl_done /\ a # MaxEntries - 1
      <4>1. e < a + 1
        BY <1>4, <1>5, <1>9, <2>1, <3>3
      <4> HIDE DEF a
      <4>2. e < a \/ e = a
        BY <3>1, <4>1
      <4> QED BY <4>2 DEF a
    <3> QED BY <3>2, <3>3
  <2> QED BY <1>11, <2>2, <2>3
<1>14. \A p \in Priorities : init'.pb_done \/ p < init'.pb => pb'[p] = EmptyList
  <2>1. SUFFICES ASSUME NEW p \in Priorities, init'.pb_done \/ p < init'.pb
                 PROVE  pb'[p] = EmptyList
    OBVIOUS
  <2>2. init.pb_done \/ p < init.pb => pb[p] = EmptyList
    BY <1>0 DEF Initialising
  <2>3. init.pb_done \/ p < init.pb \/ p = init.pb
    <3> DEFINE b == init.pb
    <3>1. b \in Nat /\ p \in Nat /\ p <= P - 1
      BY <1>2, <1>3
    <3>2. CASE b = P - 1
      <4> HIDE DEF b
      <4>1. p < b \/ p = b
        BY <1>2, <3>1, <3>2
      <4> QED BY <4>1 DEF b
    <3>3. CASE ~ init.pb_done /\ b # P - 1
      <4>1. p < b + 1
        BY <1>4, <1>5, <1>10, <2>1, <3>3
      <4> HIDE DEF b
      <4>2. p < b \/ p = b
        BY <3>1, <4>1
      <4> QED BY <4>2 DEF b
    <3> QED BY <3>2, <3>3
  <2> QED BY <1>12, <2>2, <2>3
<1>15. ~ init'.fl_done => init'.fl < MaxEntries
  BY <1>4, <1>5, <1>9
<1>16. TypeOK'
  <2>1. state' \in {"IDLE", "INIT", "READY"} /\ reg_l1_bitmap_q0' = l1_bitmap
    BY DEF InitCycle
  <2> QED BY <1>0, <1>1, <1>8, <1>11, <1>12, <2>1 DEF TypeOK
<1>17. /\ NoOps' /\ reg_l1_bitmap_q0' = l1_bitmap'
       /\ free_list' = [head |-> 0, tail |-> MaxEntries - 1]
       /\ l1_bitmap' = {} /\ l2_bitmaps' = [i \in Bits |-> {}] /\ size' = 0
       /\ \A k \in 0 .. 3 : aux'[k] = NoAux
  BY <1>0, <1>1 DEF Initialising, NoOps, Busy, InitCycle
<1>18. CASE state' = "INIT"
  <2>1. Initialising'
    BY <1>13, <1>14, <1>15, <1>17 DEF Initialising
  <2>2. reg'[4] = Idle
    BY <1>17 DEF NoOps, Busy
  <2> QED BY <1>0, <1>16, <1>18, <2>1, <2>2 DEF IInv
<1>19. CASE state' = "READY"
  <2>1. fl_init_done /\ pb_init_done
    BY <1>19 DEF InitCycle
  <2>2. /\ \A e \in Entries : fl'[e] = e + 1
        /\ \A p \in Priorities : pb'[p] = EmptyList
    BY <1>4, <1>13, <1>14, <2>1
  <2> DEFINE s == [i \in 1 .. MaxEntries |-> i - 1]
             list == free_list'
             next == fl'
  <2>3. IsChain(s, list, next) /\ Range(s) = Entries
    <3>1. (\A e \in Entries : next[e] = e + 1) /\ list = [head |-> 0, tail |-> MaxEntries - 1]
      BY <1>17, <2>2
    <3> HIDE DEF list, next, s
    <3> QED BY <3>1, FreshFree DEF s
  <2>4. FreeEntries' = s
    <3>1. FreeEntries' = Chain(list, next)
      BY DEF FreeEntries
    <3> HIDE DEF list, next, s
    <3> QED BY <2>3, <3>1, ChainIs
  <2>5. \A p \in Priorities : Bucket(p)' = <<>>
    BY <2>2, BucketNext DEF Chain, EmptyList
  <2>6. \A p \in Priorities : IsChain(Bucket(p)', pb'[p], NextOf')
    BY <2>2, <2>5 DEF IsChain, EmptyList
  <2>7. \A p \in Priorities : Range(Bucket(p)') = {}
    <3>1. Range(<<>>) = {}
      BY DEF Range
    <3> QED BY <2>5, <3>1
  <2> HIDE DEF s, list, next
  <2>8. ListsOK'
    <3>1. IsChain(FreeEntries', free_list', fl') /\ Range(FreeEntries') = Entries
      BY <2>3, <2>4 DEF list, next
    <3>2. size' = Cardinality(Entries \ Range(FreeEntries'))
      <4>1. Entries \ Range(FreeEntries') = {}
        BY <3>1
      <4> QED BY <1>17, <4>1, FS_EmptySet
    <3> QED BY <2>6, <2>7, <3>1, <3>2 DEF ListsOK, Partition
  <2>9. Occupied(pb') = {}
    BY <2>2 DEF Occupied, EmptyList
  <2>10. BitmapsOK'
    <3>1. \A i \in Bits : l2_bitmaps'[i] = {}
      BY <1>17
    <3>2. \A p \in Priorities : p \div BitmapWidth \in Bits
      BY PriorityFacts
    <3> QED BY <1>17, <2>9, <3>1, <3>2 DEF BitmapsOK
  <2>11. \A k \in 0 .. 4 : reg'[k] = Idle
    BY <1>17 DEF NoOps, Busy
  <2>12. /\ \A k : Busy(k)' <=> reg'[k] # Idle
         /\ \A k : Enque(k)' <=> reg'[k] # Idle /\ IsEnque(reg'[k])
    BY DEF Busy, Enque
  <2>13. PipelineOK'
    BY <1>17, <2>11, <2>12 DEF PipelineOK
  <2>14. OrderOK'
    BY <1>17, <2>11, <2>12 DEF OrderOK, NoAux
  <2>15. SureOK'
    BY <1>17, <2>11, <2>12 DEF SureOK, NoAux
  <2> QED BY <1>0, <1>16, <1>19, <2>5, <2>8, <2>10, <2>11, <2>13, <2>14, <2>15 DEF IInv, Operating
<1>20. state' = "INIT" \/ state' = "READY"
  BY DEF InitCycle
<1> QED BY <1>18, <1>19, <1>20

LEMMA ResetStep ==
    ASSUME IInv, Reset
    PROVE  IInv' /\ state' = "INIT" /\ reg'[4] = Idle /\ resets' # resets
<1>0. TypeOK
  BY DEF IInv
<1>1. /\ fl' \in [Entries -> Pointers \cup {Junk}]
      /\ he' \in [Entries -> HeapEntries]
      /\ pb' \in [Priorities -> Lists]
  <2>1. /\ fl \in [Entries -> Pointers \cup {Junk}]
        /\ he \in [Entries -> HeapEntries]
        /\ pb \in [Priorities -> Lists]
    BY <1>0 DEF TypeOK
  <2>2. CASE state = "INIT"
    <3>1. InitWrites /\ Initialising
      BY <2>2 DEF Reset, IInv
    <3>2. EmptyList \in Lists
      BY JunkTypes
    <3>3. ~ init.fl_done => init.fl + 1 \in Pointers
      <4>1. ~ init.fl_done => init.fl \in Nat /\ init.fl < MaxEntries
        BY <1>0, <3>1 DEF TypeOK, Initialising
      <4> QED BY <4>1, EntriesAssumption DEF Pointers, Entries
    <3> QED BY <2>1, <3>1, <3>2, <3>3 DEF InitWrites, Write
  <2>3. CASE state = "READY"
    BY <2>3, CommitTypes DEF Reset
  <2>4. CASE state = "IDLE"
    <3>1. reg[3] = Idle
      BY <2>4 DEF IInv, NoOps, Busy
    <3>2. CommitWrites
      BY <2>4 DEF Reset
    <3> QED BY <2>1, <3>1, <3>2 DEF CommitWrites, EnqueCommits, fl_wren, DequeCommits, en_q4
  <2> QED BY <1>0, <2>2, <2>3, <2>4 DEF TypeOK
<1>2. resets' \in 0 .. MaxResets /\ resets' # resets
  BY <1>0, ResetsAssumption DEF TypeOK, Reset
<1>3. /\ state' = "INIT" /\ \A k \in 0 .. 4 : reg'[k] = Idle
      /\ \A k \in 0 .. 3 : aux'[k] = NoAux
      /\ free_list' = [head |-> 0, tail |-> MaxEntries - 1]
      /\ l1_bitmap' = {} /\ l2_bitmaps' = [i \in Bits |-> {}] /\ size' = 0
      /\ init' = NoProgress
      /\ reg_pb_q3' = JunkList /\ conflict' = NoConflict /\ last' = JunkLast
      /\ fl_q' = Junk /\ he_q' = JunkEntry /\ pb_q' = JunkList
      /\ reg_l1_bitmap_q0' = reg_l1_bitmap_q0
  BY DEF Reset
<1>4. TypeOK'
  <2>1. \A k \in 0 .. 3 : k \in 0 .. 4
    OBVIOUS
  <2>2. NoProgress \in [fl : 0 .. (AddressSpace - 1), pb : Priorities,
                        fl_done : BOOLEAN, pb_done : BOOLEAN]
    BY JunkTypes DEF NoProgress
  <2>3. reg_l1_bitmap_q0 \in SUBSET Bits
    BY <1>0 DEF TypeOK
  <2>4. 0 \in 0 .. MaxEntries
    BY EntriesAssumption
  <2> QED BY <1>1, <1>2, <1>3, <2>1, <2>2, <2>3, <2>4, JunkTypes DEF TypeOK
<1>5. Initialising'
  <2>1. init'.fl = 0 /\ init'.pb = 0 /\ ~ init'.fl_done /\ ~ init'.pb_done
    BY <1>3 DEF NoProgress
  <2>2. \A e \in Entries : ~ (e < 0)
    BY EntriesAssumption DEF Entries
  <2>3. \A p \in Priorities : ~ (p < 0)
    BY PriorityFacts
  <2> QED BY <1>3, <2>1, <2>2, <2>3, EntriesAssumption DEF Initialising, NoOps, Busy
<1> QED BY <1>2, <1>3, <1>4, <1>5 DEF IInv

LEMMA HeapInit == Init => IInv
<1> SUFFICES ASSUME Init PROVE IInv
  OBVIOUS
<1>1. state = "IDLE" /\ \A k \in 0 .. 4 : reg[k] = Idle
  BY DEF Init
<1>2. \A k \in 0 .. 3 : aux[k] = NoAux /\ k \in 0 .. 4
  BY DEF Init
<1>3. TypeOK
  <2>1. NoProgress \in [fl : 0 .. (AddressSpace - 1), pb : Priorities,
                        fl_done : BOOLEAN, pb_done : BOOLEAN]
    BY JunkTypes DEF NoProgress
  <2>2. 0 \in 0 .. MaxEntries /\ 0 \in 0 .. MaxResets
    BY EntriesAssumption, ResetsAssumption
  <2>3. /\ fl \in [Entries -> Pointers \cup {Junk}] /\ he \in [Entries -> HeapEntries]
        /\ pb \in [Priorities -> Lists] /\ l2_bitmaps \in [Bits -> SUBSET Bits]
    BY JunkTypes DEF Init
  <2>4. /\ free_list \in [head : Entries \cup {INVALID_PTR}, tail : Entries \cup {INVALID_PTR}]
        /\ l1_bitmap = {} /\ reg_l1_bitmap_q0 = {} /\ size = 0 /\ resets = 0
        /\ reg_pb_q3 \in Lists /\ pb_q \in Lists /\ he_q \in HeapEntries /\ fl_q = Junk
        /\ conflict \in [pb : BOOLEAN, he : BOOLEAN, fl : BOOLEAN]
        /\ last \in [pb : Lists, he : HeapEntries, fl : Pointers \cup {Junk}]
        /\ init = NoProgress
    BY JunkTypes DEF Init
  <2> QED BY <1>1, <1>2, <2>1, <2>2, <2>3, <2>4, JunkTypes DEF TypeOK
<1> QED BY <1>1, <1>2, <1>3 DEF IInv, NoOps, Busy

LEMMA HeapStep == IInv /\ [Next]_vars => IInv'
<1> SUFFICES ASSUME IInv, [Next]_vars PROVE IInv'
  OBVIOUS
<1>1. ASSUME NEW in \in Inputs \cup {Idle}, Advance, Accept(in) PROVE IInv'
  <2>1. state = "IDLE" \/ state = "READY"
    BY <1>1 DEF Advance
  <2>2. CASE state = "IDLE"
    BY <1>1, <2>2, IdleCycle
  <2>3. CASE state = "READY"
    BY <1>1, <2>3, ReadyCycle
  <2> QED BY <2>1, <2>2, <2>3
<1>2. CASE InitCycle
  BY <1>2, InitStep
<1>3. CASE Reset
  BY <1>3, ResetStep
<1>4. CASE UNCHANGED vars
  BY <1>4 DEF vars, regs, IInv, TypeOK, NoOps, Busy, Enque, Initialising, Operating, ListsOK,
     FreeEntries, Bucket, NextOf, BitmapsOK, PipelineOK, ReadBucket, int_fl_q, int_he_q,
     OrderOK, SureOK, EnquesFrom
<1> QED BY <1>1, <1>2, <1>3, <1>4 DEF Next

LEMMA HeapInvariant == Spec => []IInv
BY HeapInit, HeapStep, PTL DEF Spec

-----------------------------------------------------------------------------
(* Theorems.                                                               *)

(* Every register and every memory of the heap holds a value of its type,  *)
(* and what leaves the pipeline is a real operation.                       *)
THEOREM HeapTypeCorrect == Spec => []TypeOK
<1>1. IInv => TypeOK
  BY DEF IInv
<1> QED BY <1>1, HeapInvariant, PTL

(* Each entry is in exactly one list, the free list or one bucket, however *)
(* commits and reads of the pipeline overlap, and size counts the ones in  *)
(* buckets.                                                                *)
THEOREM EntriesArePartitioned == Spec => []EntriesPartitioned
<1>1. ASSUME IInv PROVE EntriesPartitioned
  <2> SUFFICES ASSUME state = "READY"
               PROVE  LET free == Range(FreeEntries)
                          in == [p \in Priorities |-> Range(Bucket(p))]
                          used == UNION {in[p] : p \in Priorities}
                      IN  /\ free \cup used = Entries
                          /\ free \cap used = {}
                          /\ \A p, q \in Priorities : p # q => in[p] \cap in[q] = {}
                          /\ size = Cardinality(used)
    BY DEF EntriesPartitioned
  <2> DEFINE free == Range(FreeEntries)
             in == [p \in Priorities |-> Range(Bucket(p))]
             used == UNION {in[p] : p \in Priorities}
  <2>1. /\ \A e \in Entries : e \in free \/ \E p \in Priorities : e \in in[p]
        /\ \A p \in Priorities : free \cap in[p] = {}
        /\ \A p, q \in Priorities : p # q => in[p] \cap in[q] = {}
        /\ size = Cardinality(Entries \ free)
        /\ free \subseteq Entries
        /\ \A p \in Priorities : in[p] \subseteq Entries
    BY <1>1, ReadyLists
  <2> HIDE DEF free, in
  <2>2. used = Entries \ free
    BY <2>1
  <2> HIDE DEF used
  <2>3. free \cup used = Entries /\ free \cap used = {} /\ size = Cardinality(used)
    BY <2>1, <2>2
  <2> QED BY <2>1, <2>3 DEF free, in, used
<1> QED BY <1>1, HeapInvariant, PTL

(* A bit of a bitmap is set exactly when the bucket, or the bitmap, that   *)
(* it stands for is not empty, although a commit writes back a bitmap that *)
(* was read three cycles before.                                           *)
THEOREM BitmapsAreExact == Spec => []BitmapsExact
<1>1. IInv => BitmapsExact
  BY DEF IInv, Operating, BitmapsOK, BitmapsExact
<1> QED BY <1>1, HeapInvariant, PTL

(* A deque takes from a priority at least as good as every one that has    *)
(* been occupied since the deque was accepted.                             *)
THEOREM DequesInOrder == Spec => []DequeOrder
<1>1. ASSUME IInv PROVE DequeOrder
  <2> SUFFICES ASSUME Busy(3)
               PROVE  /\ reg[3].type = "DEQUE_MIN" => \A p \in aux[3].present : reg[3].priority <= p
                      /\ reg[3].type = "DEQUE_MAX" => \A p \in aux[3].present : reg[3].priority >= p
    BY DEF DequeOrder, Busy
  <2>1. state = "READY"
    BY <1>1 DEF IInv, Initialising, NoOps, TypeOK
  <2> QED BY <1>1, <2>1 DEF IInv, Operating, OrderOK
<1> QED BY <1>1, HeapInvariant, PTL

(* An operation accepted in a state that assures it is not dropped.        *)
THEOREM SureOpsAreKept == Spec => SureOpsCommit
<1>1. ASSUME IInv, [Next]_vars
      PROVE  [resets' = resets => \A k \in 0 .. 2 : aux[k].sure => reg'[k + 1] # Idle]_vars
  <2>1. ASSUME NEW k \in 0 .. 2, aux[k].sure, Next, resets' = resets PROVE reg'[k + 1] # Idle
    <3>1. state = "READY"
      <4>1. aux[k] # NoAux
        BY <2>1 DEF NoAux
      <4> QED BY <1>1, <4>1 DEF IInv, Initialising, TypeOK
    <3>2. ~ Reset
      BY <1>1, <2>1, ResetStep
    <3>3. ~ InitCycle
      BY <3>1 DEF InitCycle
    <3>4. PICK in \in Inputs \cup {Idle} : Advance /\ Accept(in)
      BY <2>1, <3>2, <3>3 DEF Next
    <3> QED BY <1>1, <2>1, <3>1, <3>4, SureAdvances
  <2> QED BY <1>1, <2>1
<1> QED BY <1>1, HeapInvariant, PTL DEF Spec, SureOpsCommit

-----------------------------------------------------------------------------
(* The refinement of the stacks.                                           *)

ValuesOf(s, mem) ==
    [i \in 1 .. Len(s) |-> IF s[i] \in Entries THEN mem[s[i]].value ELSE Junk]

LEMMA ValuesAre ==
    ASSUME NEW s \in Seq(Entries), NEW mem, \A e \in Range(s) : mem[e].value \in Values
    PROVE  /\ ValuesOf(s, mem) \in Seq(Values) /\ Len(ValuesOf(s, mem)) = Len(s)
           /\ Len(s) \in Nat /\ DOMAIN s = 1 .. Len(s)
           /\ \A i \in 1 .. Len(s) : /\ ValuesOf(s, mem)[i] = mem[s[i]].value
                                     /\ s[i] \in Entries /\ s[i] \in Range(s)
<1> DEFINE t == ValuesOf(s, mem)
<1>1. /\ Len(s) \in Nat /\ DOMAIN s = 1 .. Len(s)
      /\ \A i \in 1 .. Len(s) : s[i] \in Entries /\ s[i] \in Range(s)
  BY LenProperties, ElementOfSeq DEF Range
<1>2. \A i \in 1 .. Len(s) : t[i] = mem[s[i]].value /\ t[i] \in Values
  BY <1>1 DEF ValuesOf
<1>3. t \in [1 .. Len(s) -> Values] /\ DOMAIN t = 1 .. Len(s)
  BY <1>2 DEF ValuesOf
<1> HIDE DEF t
<1>4. t \in Seq(Values)
  BY <1>1, <1>3, SeqDef
<1>5. Len(t) \in Nat /\ DOMAIN t = 1 .. Len(t)
  BY <1>4, LenProperties
<1>6. Len(t) = Len(s)
  BY <1>1, <1>3, <1>5
<1> QED BY <1>1, <1>2, <1>4, <1>6 DEF t

LEMMA ValuesFrame ==
    ASSUME NEW s \in Seq(Entries), NEW mem, NEW mem2,
           \A e \in Range(s) : mem[e].value \in Values /\ mem2[e].value = mem[e].value
    PROVE  ValuesOf(s, mem2) = ValuesOf(s, mem)
<1>1. \A i \in 1 .. Len(s) : s[i] \in Range(s)
  BY LenProperties DEF Range
<1> QED BY <1>1 DEF ValuesOf

(* What EnqueLists and SHEnque say of a sequence that grows at its head.    *)
Pushed(x, s) == <<x>> \o s

LEMMA ValuesPush ==
    ASSUME NEW s \in Seq(Entries), NEW mem, NEW mem2, NEW e \in Entries, NEW v \in Values,
           \A x \in Range(s) : mem[x].value \in Values /\ mem2[x].value = mem[x].value,
           mem2[e].value = v
    PROVE  ValuesOf(Pushed(e, s), mem2) = Pushed(v, ValuesOf(s, mem))
<1> DEFINE t == <<e>> \o s
           a == ValuesOf(t, mem2)
           b == ValuesOf(s, mem)
<1>1. /\ b \in Seq(Values) /\ Len(b) = Len(s) /\ Len(s) \in Nat
      /\ \A i \in 1 .. Len(s) : b[i] = mem[s[i]].value /\ s[i] \in Range(s)
  BY ValuesAre
<1>2. <<e>> \in Seq(Entries) /\ Len(<<e>>) = 1 /\ <<e>>[1] = e
  OBVIOUS
<1>3. /\ t \in Seq(Entries) /\ Len(t) = 1 + Len(s)
      /\ \A i \in 1 .. (1 + Len(s)) : t[i] = IF i <= 1 THEN <<e>>[i] ELSE s[i - 1]
  BY <1>2, ConcatProperties
<1> HIDE DEF t
<1>4. \A x \in Range(t) : mem2[x].value \in Values
  <2>1. Len(s) \in Nat /\ DOMAIN t = 1 .. (1 + Len(s))
    BY <1>1, <1>3, LenProperties
  <2>2. ASSUME NEW i \in DOMAIN t PROVE mem2[t[i]].value \in Values
    <3>1. i = 1 \/ (i - 1 \in 1 .. Len(s) /\ ~ (i <= 1))
      BY <2>1
    <3>2. i \in 1 .. (1 + Len(s))
      BY <2>1
    <3>3. CASE i = 1
      <4>1. t[i] = e
        BY <1>2, <1>3, <3>2, <3>3
      <4> QED BY <4>1
    <3>4. CASE i - 1 \in 1 .. Len(s) /\ ~ (i <= 1)
      <4>1. t[i] = s[i - 1]
        BY <1>3, <3>2, <3>4
      <4> QED BY <1>1, <3>4, <4>1
    <3> QED BY <3>1, <3>3, <3>4
  <2> QED BY <2>2 DEF Range
<1>5. /\ a \in Seq(Values) /\ Len(a) = Len(t)
      /\ \A i \in 1 .. Len(t) : a[i] = mem2[t[i]].value
  BY <1>3, <1>4, ValuesAre
<1> HIDE DEF a, b
<1>6. <<v>> \in Seq(Values) /\ Len(<<v>>) = 1 /\ <<v>>[1] = v
  OBVIOUS
<1> DEFINE c == <<v>> \o b
<1>7. /\ c \in Seq(Values) /\ Len(c) = 1 + Len(s)
      /\ \A i \in 1 .. (1 + Len(s)) : c[i] = IF i <= 1 THEN <<v>>[i] ELSE b[i - 1]
  BY <1>1, <1>6, ConcatProperties
<1> HIDE DEF c
<1>8. ASSUME NEW i \in 1 .. Len(a) PROVE a[i] = c[i]
  <2>1. i \in 1 .. (1 + Len(s)) /\ i \in 1 .. Len(t)
    BY <1>3, <1>5
  <2>2. CASE i = 1
    <3>1. t[1] = e /\ c[1] = v
      <4>1. 1 \in 1 .. (1 + Len(s))
        BY <2>1, <2>2
      <4>2. t[1] = <<e>>[1]
        BY <1>3, <4>1
      <4>3. c[1] = <<v>>[1]
        BY <1>7, <4>1
      <4> QED BY <1>2, <1>6, <4>2, <4>3
    <3>2. a[1] = mem2[t[1]].value
      BY <1>5, <2>1, <2>2
    <3> QED BY <2>2, <3>1, <3>2
  <2>3. CASE i # 1
    <3>1. i - 1 \in 1 .. Len(s) /\ ~ (i <= 1)
      BY <1>1, <2>1, <2>3
    <3>2. t[i] = s[i - 1] /\ c[i] = b[i - 1]
      BY <1>3, <1>7, <2>1, <3>1
    <3>3. b[i - 1] = mem[s[i - 1]].value /\ s[i - 1] \in Range(s)
      BY <1>1, <3>1
    <3>4. a[i] = mem2[t[i]].value
      BY <1>5, <2>1
    <3> QED BY <3>2, <3>3, <3>4
  <2> QED BY <2>2, <2>3
<1>9. Len(a) = Len(c)
  BY <1>3, <1>5, <1>7
<1>10. a = c
  BY <1>5, <1>7, <1>8, <1>9, SeqEqual
<1> QED BY <1>10 DEF a, b, c, t, Pushed

LEMMA ValuesPop ==
    ASSUME NEW s \in Seq(Entries), NEW mem, Len(s) >= 1,
           \A x \in Range(s) : mem[x].value \in Values,
           NEW t, t = Tail(s), \A x \in Range(t) : x \in Range(s)
    PROVE  /\ ValuesOf(s, mem) # <<>>
           /\ Head(ValuesOf(s, mem)) = mem[s[1]].value
           /\ ValuesOf(t, mem) = Tail(ValuesOf(s, mem))
<1> DEFINE a == ValuesOf(t, mem)
           b == ValuesOf(s, mem)
<1>1. /\ b \in Seq(Values) /\ Len(b) = Len(s) /\ Len(s) \in Nat
      /\ \A i \in 1 .. Len(s) : b[i] = mem[s[i]].value
  BY ValuesAre
<1>2. t \in Seq(Entries) /\ Len(t) = Len(s) - 1 /\ \A i \in 1 .. Len(t) : t[i] = s[i + 1]
  <2>1. s # <<>>
    BY <1>1, EmptySeq
  <2> QED BY <2>1, HeadTailProperties
<1>3. /\ a \in Seq(Values) /\ Len(a) = Len(t)
      /\ \A i \in 1 .. Len(t) : a[i] = mem[t[i]].value
  BY <1>2, ValuesAre
<1> HIDE DEF a, b
<1>4. b # <<>> /\ Head(b) = b[1] /\ b[1] = mem[s[1]].value
  <2>1. b # <<>>
    BY <1>1, EmptySeq
  <2>2. Head(b) = b[1]
    BY <1>1, <2>1, HeadTailProperties
  <2>3. 1 \in 1 .. Len(s)
    BY <1>1
  <2> QED BY <1>1, <2>1, <2>2, <2>3
<1> DEFINE c == Tail(b)
<1>5. c \in Seq(Values) /\ Len(c) = Len(b) - 1 /\ \A i \in 1 .. Len(c) : c[i] = b[i + 1]
  BY <1>1, <1>4, HeadTailProperties
<1> HIDE DEF c
<1>6. ASSUME NEW i \in 1 .. Len(a) PROVE a[i] = c[i]
  <2>1. i \in 1 .. Len(t) /\ i \in 1 .. Len(c) /\ i + 1 \in 1 .. Len(s)
    BY <1>1, <1>2, <1>3, <1>5
  <2>2. a[i] = mem[t[i]].value /\ t[i] = s[i + 1]
    BY <1>2, <1>3, <2>1
  <2>3. c[i] = b[i + 1] /\ b[i + 1] = mem[s[i + 1]].value
    BY <1>1, <1>5, <2>1
  <2> QED BY <2>2, <2>3
<1>7. Len(a) = Len(c)
  BY <1>1, <1>2, <1>3, <1>5
<1>8. a = c
  BY <1>3, <1>5, <1>6, <1>7, SeqEqual
<1> QED BY <1>4, <1>8 DEF a, b, c

LEMMA ReadyStacks ==
    ASSUME IInv, state = "READY"
    PROVE  /\ \A p : Stack(p) = ValuesOf(Bucket(p), he)
           /\ \A p : Stack(p)' = ValuesOf(Bucket(p)', he')
           /\ \A p \in Priorities :
                 /\ Bucket(p) \in Seq(Entries) /\ Range(Bucket(p)) \subseteq Entries
                 /\ \A e \in Range(Bucket(p)) : he[e].value \in Values
                 /\ Stack(p) \in Seq(Values)
<1>1. /\ \A p : Stack(p) = ValuesOf(Bucket(p), he)
      /\ \A p : Stack(p)' = ValuesOf(Bucket(p)', he')
  BY DEF Stack, ValuesOf
<1>2. \A p \in Priorities :
          /\ Bucket(p) \in Seq(Entries) /\ Range(Bucket(p)) \subseteq Entries
          /\ \A e \in Range(Bucket(p)) : he[e].value \in Values
  BY ReadyLists, ChainFacts
<1>3. \A p \in Priorities : Stack(p) \in Seq(Values)
  BY <1>1, <1>2, ValuesAre
<1> QED BY <1>1, <1>2, <1>3

(* The commit of an enque puts its value on one stack.                     *)
LEMMA EnqueStacks ==
    ASSUME IInv, state = "READY", Enque(3), Committing, NEW q, q = AtPriority,
           NEW v, v = reg[3].value
    PROVE  /\ q \in Priorities /\ v \in Values /\ he_value_q4 = v
           /\ Stack(q)' = Pushed(v, Stack(q))
           /\ \A p \in Priorities \ {q} : Stack(p)' = Stack(p)
<1>1. PICK e : e = free_list.head
  OBVIOUS
<1>2. /\ e \in Range(FreeEntries) /\ e \in Entries /\ q \in Priorities /\ v \in Values
      /\ he' = [x \in Entries |-> IF x = e THEN [value |-> v, next |-> pb[q].head] ELSE he[x]]
  BY <1>1, EnqueMemory
<1>3. /\ Bucket(q)' = Pushed(e, Bucket(q))
      /\ \A p \in Priorities \ {q} : Bucket(p)' = Bucket(p)
  BY <1>1, EnqueLists DEF Pushed
<1>4. \A p \in Priorities :
          /\ Bucket(p) \in Seq(Entries)
          /\ \A x \in Range(Bucket(p)) : he[x].value \in Values /\ he'[x].value = he[x].value
  <2>1. \A p \in Priorities : e \notin Range(Bucket(p))
    BY <1>2, ReadyLists
  <2> QED BY <1>2, <2>1, ReadyStacks
<1>5. he'[e].value = v
  BY <1>2
<1>6. Stack(q)' = Pushed(v, Stack(q))
  <2> DEFINE s == Bucket(q)
             mem == he
             mem2 == he'
  <2>1. s \in Seq(Entries) /\ mem2[e].value = v
    BY <1>2, <1>4, <1>5
  <2>2. \A x \in Range(s) : mem[x].value \in Values /\ mem2[x].value = mem[x].value
    BY <1>2, <1>4
  <2>3. Stack(q)' = ValuesOf(Pushed(e, s), mem2) /\ Stack(q) = ValuesOf(s, mem)
    BY <1>3, ReadyStacks
  <2> HIDE DEF s, mem, mem2
  <2>4. ValuesOf(Pushed(e, s), mem2) = Pushed(v, ValuesOf(s, mem))
    BY <1>2, <2>1, <2>2, ValuesPush
  <2> QED BY <2>3, <2>4
<1>7. \A p \in Priorities \ {q} : Stack(p)' = Stack(p)
  <2>1. SUFFICES ASSUME NEW p \in Priorities \ {q} PROVE Stack(p)' = Stack(p)
    OBVIOUS
  <2> DEFINE s == Bucket(p)
             mem == he
             mem2 == he'
  <2>2. /\ s \in Seq(Entries)
        /\ \A x \in Range(s) : mem[x].value \in Values /\ mem2[x].value = mem[x].value
    BY <1>4
  <2>3. Stack(p)' = ValuesOf(s, mem2) /\ Stack(p) = ValuesOf(s, mem)
    BY <1>3, ReadyStacks
  <2> HIDE DEF s, mem, mem2
  <2> QED BY <2>2, <2>3, ValuesFrame
<1>8. he_value_q4 = v
  BY DEF Enque, Busy, IsEnque, he_value_q4, EnqueCommits, en_q4
<1> QED BY <1>2, <1>6, <1>7, <1>8

(* The commit of a deque takes the newest value from one stack.            *)
LEMMA DequeStacks ==
    ASSUME IInv, state = "READY", Busy(3), ~ Enque(3), Committing, NEW q, q = AtPriority
    PROVE  /\ q \in Priorities /\ he_value_q4 \in Values
           /\ Stack(q) # <<>> /\ Head(Stack(q)) = he_value_q4
           /\ Stack(q)' = Tail(Stack(q))
           /\ \A p \in Priorities \ {q} : Stack(p)' = Stack(p)
<1>1. PICK e : e = pb[q].head
  OBVIOUS
<1>2. /\ e \in Range(Bucket(q)) /\ q \in Priorities /\ he' = he /\ e # INVALID_PTR
      /\ he_value_q4 = he[e].value /\ he[e].value \in Values
  BY <1>1, DequeMemory
<1>3. /\ Bucket(q)' = Tail(Bucket(q))
      /\ Range(Bucket(q)') = Range(Bucket(q)) \ {e}
      /\ \A p \in Priorities \ {q} : Bucket(p)' = Bucket(p)
  BY <1>1, DequeLists
<1>4. Len(Bucket(q)) >= 1 /\ Bucket(q)[1] = e
  <2>1. IsChain(Bucket(q), pb[q], NextOf)
    BY <1>2, ReadyLists
  <2> QED BY <1>1, <1>2, <2>1, ChainFacts
<1>5. Stack(q) # <<>> /\ Head(Stack(q)) = he[e].value /\ Stack(q)' = Tail(Stack(q))
  <2> DEFINE s == Bucket(q)
             t == Bucket(q)'
             mem == he
  <2>1. /\ s \in Seq(Entries) /\ Len(s) >= 1 /\ t = Tail(s)
        /\ \A x \in Range(s) : mem[x].value \in Values
        /\ \A x \in Range(t) : x \in Range(s)
    BY <1>2, <1>3, <1>4, ReadyStacks
  <2>2. Stack(q)' = ValuesOf(t, mem) /\ Stack(q) = ValuesOf(s, mem) /\ s[1] = e
    BY <1>2, <1>4, ReadyStacks
  <2> HIDE DEF s, t, mem
  <2>3. /\ ValuesOf(s, mem) # <<>>
        /\ Head(ValuesOf(s, mem)) = mem[s[1]].value
        /\ ValuesOf(t, mem) = Tail(ValuesOf(s, mem))
    BY <2>1, ValuesPop
  <2> QED BY <2>2, <2>3 DEF mem
<1>6. \A p \in Priorities \ {q} : Stack(p)' = Stack(p)
  BY <1>2, <1>3, ReadyStacks
<1> QED BY <1>2, <1>5, <1>6

LEMMA NoStacks ==
    ASSUME ~ Busy(3), Committing
    PROVE  \A p : Stack(p)' = Stack(p)
<1>1. he' = he /\ pb' = pb
  BY NoMemory
<1> QED BY <1>1 DEF Stack, Bucket

(* A commit changes one stack, and the output port reports it.             *)
LEMMA StackStep ==
    ASSUME IInv, state = "READY", Advance, NEW in, Accept(in)
    PROVE  Stacks!SHNext
<1> USE DEF Accept
<1> DEFINE S == [p \in Priorities |-> IF state = "READY" THEN Stack(p) ELSE <<>>]
           T == [p \in Priorities |-> IF state' = "READY" THEN Stack(p)' ELSE <<>>]
<1>1. state' = "READY" /\ Committing
  BY AdvanceCommits DEF Advance
<1>2. S = [p \in Priorities |-> Stack(p)] /\ T = [p \in Priorities |-> Stack(p)']
  BY <1>1
<1> HIDE DEF S, T
<1>3. CASE Enque(3)
  <2>1. PICK q, v : q = AtPriority /\ v = reg[3].value
    OBVIOUS
  <2>2. /\ q \in Priorities /\ v \in Values /\ he_value_q4 = v
        /\ Stack(q)' = Pushed(v, Stack(q))
        /\ \A p \in Priorities \ {q} : Stack(p)' = Stack(p)
    BY <1>1, <1>3, <2>1, EnqueStacks
  <2>3. T = [S EXCEPT ![q] = Pushed(v, @)]
    BY <1>2, <2>2
  <2>4. reg'[4] = [type |-> "ENQUE", priority |-> q, value |-> v]
    BY <1>3, <2>1, <2>2, Stage4 DEF Enque, IsEnque
  <2>5. Stacks!SHEnque(q, v)
    BY <2>3, <2>4 DEF Stacks!SHEnque, Stacks!Report, S, T, Pushed
  <2> QED BY <2>2, <2>5 DEF Stacks!SHNext
<1>4. CASE Busy(3) /\ ~ Enque(3)
  <2>1. PICK q : q = AtPriority
    OBVIOUS
  <2>2. /\ q \in Priorities /\ he_value_q4 \in Values
        /\ Stack(q) # <<>> /\ Head(Stack(q)) = he_value_q4
        /\ Stack(q)' = Tail(Stack(q))
        /\ \A p \in Priorities \ {q} : Stack(p)' = Stack(p)
    BY <1>1, <1>4, <2>1, DequeStacks
  <2>3. T = [S EXCEPT ![q] = Tail(@)] /\ S[q] = Stack(q)
    BY <1>2, <2>2
  <2>4. reg'[4] = Stacks!Report(reg[3].type, q, he_value_q4) /\ reg'[4].value = he_value_q4
    BY <1>4, <2>1, Stage4 DEF Stacks!Report
  <2>5. reg[3].type \in {"DEQUE_MIN", "DEQUE_MAX"}
    <3>1. reg[3] \in Op
      BY <1>4, ReadyTypes
    <3> QED BY <1>4, <3>1 DEF Op, Ops, Enque, IsEnque
  <2>6. Stacks!SHDeque(reg[3].type, q)
    <3>1. S[q] # <<>> /\ reg'[4].value = Head(S[q])
      BY <2>2, <2>3, <2>4
    <3> QED BY <2>2, <2>3, <2>4, <3>1 DEF Stacks!SHDeque, S, T
  <2> QED BY <2>2, <2>5, <2>6 DEF Stacks!SHNext
<1>5. CASE ~ Busy(3)
  <2>1. T = S
    BY <1>1, <1>2, <1>5, NoStacks
  <2>2. Stacks!SHNothing
    BY <1>5, <2>1, Stage4 DEF Stacks!SHNothing, S, T
  <2> QED BY <2>2 DEF Stacks!SHNext
<1> QED BY <1>3, <1>4, <1>5 DEF Enque

(* A step of the heap is a step of the stacks, or changes nothing of them. *)
LEMMA StackSteps ==
    ASSUME IInv, [Next]_vars
    PROVE  [Stacks!SHNext]_(Stacks!shVars)
<1> DEFINE S == [p \in Priorities |-> IF state = "READY" THEN Stack(p) ELSE <<>>]
<1>1. ASSUME NEW in \in Inputs \cup {Idle}, Advance, Accept(in) PROVE Stacks!SHNext
  <2>1. CASE state = "READY"
    BY <1>1, <2>1, StackStep
  <2>2. CASE state = "IDLE"
    <3>1. reg'[4] = Idle /\ state' = "IDLE"
      BY <1>1, <2>2, IdleCycle
    <3>2. S' = S
      BY <2>2, <3>1
    <3> QED BY <3>1, <3>2 DEF Stacks!SHNothing, Stacks!SHNext
  <2>3. state = "IDLE" \/ state = "READY"
    BY <1>1 DEF Advance
  <2> QED BY <2>1, <2>2, <2>3
<1>2. CASE InitCycle
  <2>1. /\ state = "INIT" /\ reg'[4] = Idle
        /\ state' = "READY" => \A p \in Priorities : Bucket(p)' = <<>>
    BY <1>2, InitStep
  <2>2. ASSUME NEW p \in Priorities, state' = "READY" PROVE Stack(p)' = <<>>
    <3>1. Bucket(p)' = <<>>
      BY <2>1, <2>2
    <3>2. Stack(p)' = ValuesOf(Bucket(p)', he')
      BY DEF Stack, ValuesOf
    <3>3. ValuesOf(<<>>, he') = <<>>
      <4>1. <<>> \in Seq(Entries) /\ Len(<<>>) = 0 /\ Range(<<>>) = {}
        BY DEF Range
      <4> DEFINE e == <<>>
                 mem == he'
      <4>2. e \in Seq(Entries) /\ Len(e) = 0 /\ \A x \in Range(e) : mem[x].value \in Values
        BY <4>1
      <4> HIDE DEF e, mem
      <4>3. ValuesOf(e, mem) \in Seq(Values) /\ Len(ValuesOf(e, mem)) = 0
        BY <4>2, ValuesAre
      <4>4. ValuesOf(e, mem) = <<>>
        BY <4>3, EmptySeq
      <4> QED BY <4>4 DEF e, mem
    <3> QED BY <3>1, <3>2, <3>3
  <2>3. S' = S
    BY <2>1, <2>2
  <2> QED BY <2>1, <2>3 DEF Stacks!SHNothing, Stacks!SHNext
<1>3. CASE Reset
  <2>1. state' = "INIT" /\ reg'[4] = Idle
    BY <1>3, ResetStep
  <2> QED BY <2>1 DEF Stacks!SHReset, Stacks!Empty, Stacks!SHNext
<1>4. CASE UNCHANGED vars
  <2>1. S' = S /\ reg'[4] = reg[4]
    BY <1>4 DEF vars, regs, Stack, Bucket
  <2> QED BY <2>1 DEF Stacks!shVars
<1> QED BY <1>1, <1>2, <1>3, <1>4 DEF Next

(* The heap implements a stack of values per priority, with an output port *)
(* that reports exactly what has been committed, through every conflict of *)
(* the pipeline and through resets.                                        *)
THEOREM HeapRefinesStacks == Spec => RefinesStackHeap
<1>1. Init => Stacks!SHInit
  BY DEF Init, Stacks!SHInit, Stacks!Empty
<1>2. IInv /\ [Next]_vars => [Stacks!SHNext]_(Stacks!shVars)
  BY StackSteps
<1> QED BY <1>1, <1>2, HeapInvariant, PTL DEF Spec, RefinesStackHeap, Stacks!SHSpec
=============================================================================
