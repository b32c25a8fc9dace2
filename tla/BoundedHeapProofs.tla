------------------------- MODULE BoundedHeapProofs -------------------------
(***************************************************************************)
(* What BoundedHeap computes, for every bound, set of tags, weights and    *)
(* nodes: the two heaps stay twins, and together are a BoundedQueue.       *)
(***************************************************************************)
EXTENDS BoundedHeap, FiniteSetTheorems, TLAPS

-----------------------------------------------------------------------------
(* Heaps.                                                                  *)

(* What push and erase of a boost heap do to the other nodes: nothing.     *)
LEMMA AddedFacts ==
    ASSUME NEW heap, NEW n, NEW e
    PROVE  /\ DOMAIN Added(heap, n, e) = DOMAIN heap \cup {n}
           /\ Added(heap, n, e)[n] = e
           /\ \A m \in DOMAIN heap \ {n} : Added(heap, n, e)[m] = heap[m]
BY DEF Added

LEMMA ErasedFacts ==
    ASSUME NEW heap, NEW n
    PROVE  /\ DOMAIN Erased(heap, n) = DOMAIN heap \ {n}
           /\ \A m \in DOMAIN heap \ {n} : Erased(heap, n)[m] = heap[m]
BY DEF Erased

LEMMA NewEntryFacts ==
    ASSUME NEW tag, NEW metric, NEW handle
    PROVE  LET e == NewEntry(tag, metric, handle)
           IN  e.tag = tag /\ e.metric = metric /\ e.handle = handle
BY DEF NewEntry

LEMMA AddedType ==
    ASSUME NEW heap, IsHeap(heap), NEW n \in Nodes,
           NEW tag \in Tags, NEW metric \in Metrics, NEW handle \in Nodes
    PROVE  IsHeap(Added(heap, n, NewEntry(tag, metric, handle)))
<1> DEFINE e == NewEntry(tag, metric, handle)
           added == Added(heap, n, e)
<1>1. e \in Entries
  BY DEF NewEntry, Entries
<1>2. DOMAIN added = DOMAIN heap \cup {n} /\ IsFiniteSet(DOMAIN heap \cup {n})
  BY AddedFacts, FS_AddElement DEF IsHeap
<1>3. added \in [DOMAIN heap \cup {n} -> Entries]
  BY <1>1 DEF IsHeap, Added
<1> QED BY <1>2, <1>3 DEF IsHeap

LEMMA ErasedType ==
    ASSUME NEW heap, IsHeap(heap), NEW n
    PROVE  IsHeap(Erased(heap, n))
<1>1. DOMAIN Erased(heap, n) = DOMAIN heap \ {n} /\ IsFiniteSet(DOMAIN heap \ {n})
  BY ErasedFacts, FS_RemoveElement DEF IsHeap
<1>2. Erased(heap, n) \in [DOMAIN heap \ {n} -> Entries]
  BY DEF IsHeap, Erased
<1> QED BY <1>1, <1>2 DEF IsHeap

-----------------------------------------------------------------------------
(* Twins.                                                                  *)

(* Two new entries that point at each other leave all handles right.       *)
LEMMA AddedTwins ==
    ASSUME NEW heap, NEW other, Twins(heap, other),
           NEW n, NEW m, m \notin DOMAIN other, n \notin DOMAIN heap,
           NEW tag, NEW metric
    PROVE  Twins(Added(heap, n, NewEntry(tag, metric, m)),
                 Added(other, m, NewEntry(tag, metric, n)))
<1> DEFINE h == Added(heap, n, NewEntry(tag, metric, m))
           o == Added(other, m, NewEntry(tag, metric, n))
<1>1. /\ DOMAIN h = DOMAIN heap \cup {n} /\ h[n] = NewEntry(tag, metric, m)
      /\ \A k \in DOMAIN heap : h[k] = heap[k]
  BY DEF Added
<1>2. /\ DOMAIN o = DOMAIN other \cup {m} /\ o[m] = NewEntry(tag, metric, n)
      /\ \A k \in DOMAIN other : o[k] = other[k]
  BY DEF Added
<1> HIDE DEF h, o
<1> SUFFICES ASSUME NEW k \in DOMAIN h
             PROVE  /\ h[k].handle \in DOMAIN o
                    /\ o[h[k].handle] = NewEntry(h[k].tag, h[k].metric, k)
  BY DEF Twins, h, o
<1>3. CASE k = n
  BY <1>1, <1>2, <1>3, NewEntryFacts
<1>4. CASE k \in DOMAIN heap
  BY <1>1, <1>2, <1>4 DEF Twins
<1> QED BY <1>1, <1>3, <1>4

(* Erasing an entry and the one its handle leads to does so as well: no    *)
(* other entry has either of the two for a twin.                           *)
LEMMA ErasedTwins ==
    ASSUME NEW heap, NEW other, Twins(heap, other),
           NEW n \in DOMAIN heap, NEW m, m = heap[n].handle
    PROVE  Twins(Erased(heap, n), Erased(other, m))
<1> SUFFICES ASSUME NEW k \in DOMAIN heap \ {n}
             PROVE  /\ heap[k].handle \in DOMAIN other \ {m}
                    /\ other[heap[k].handle] = NewEntry(heap[k].tag, heap[k].metric, k)
  BY DEF Erased, Twins
<1>1. /\ heap[k].handle \in DOMAIN other
      /\ other[heap[k].handle] = NewEntry(heap[k].tag, heap[k].metric, k)
      /\ other[m] = NewEntry(heap[n].tag, heap[n].metric, n)
  BY DEF Twins
<1>2. heap[k].handle # m
  BY <1>1, NewEntryFacts
<1> QED BY <1>1, <1>2

LEMMA ErasedBothTwins ==
    ASSUME NEW heap, NEW other, Twins(heap, other), Twins(other, heap),
           NEW n \in DOMAIN heap
    PROVE  /\ Twins(Erased(heap, n), Erased(other, heap[n].handle))
           /\ Twins(Erased(other, heap[n].handle), Erased(heap, n))
<1>1. heap[n].handle \in DOMAIN other /\ other[heap[n].handle].handle = n
  BY NewEntryFacts DEF Twins
<1> QED BY <1>1, ErasedTwins

-----------------------------------------------------------------------------
(* The entries of a heap as a set: what BoundedQueue sees.                 *)

EntryOf(heap, n) == [tag |-> heap[n].tag, metric |-> heap[n].metric]
EntrySet(heap) == {EntryOf(heap, n) : n \in DOMAIN heap}

(* No tag is in two nodes.                                                 *)
TagsDistinct(heap) ==
    \A n, m \in DOMAIN heap : heap[n].tag = heap[m].tag => n = m

LEMMA EntryFacts ==
    ASSUME NEW heap, NEW n
    PROVE  EntryOf(heap, n).tag = heap[n].tag /\ EntryOf(heap, n).metric = heap[n].metric
BY DEF EntryOf

LEMMA AddedEntries ==
    ASSUME NEW heap, NEW n, n \notin DOMAIN heap,
           NEW tag, NEW metric, NEW handle
    PROVE  EntrySet(Added(heap, n, NewEntry(tag, metric, handle)))
                = EntrySet(heap) \cup {[tag |-> tag, metric |-> metric]}
<1> DEFINE h == Added(heap, n, NewEntry(tag, metric, handle))
<1>1. DOMAIN h = DOMAIN heap \cup {n} /\ \A k \in DOMAIN heap : h[k] = heap[k]
  BY DEF Added
<1>2. h[n] = NewEntry(tag, metric, handle)
  BY DEF Added
<1>3. EntryOf(h, n) = [tag |-> tag, metric |-> metric]
  BY <1>2, NewEntryFacts DEF EntryOf
<1>4. \A k \in DOMAIN heap : EntryOf(h, k) = EntryOf(heap, k)
  BY <1>1 DEF EntryOf
<1> HIDE DEF h
<1> QED BY <1>1, <1>3, <1>4 DEF EntrySet, h

LEMMA ErasedEntries ==
    ASSUME NEW heap, TagsDistinct(heap), NEW n \in DOMAIN heap
    PROVE  EntrySet(Erased(heap, n)) = EntrySet(heap) \ {EntryOf(heap, n)}
<1> DEFINE h == Erased(heap, n)
<1>1. DOMAIN h = DOMAIN heap \ {n} /\ \A k \in DOMAIN h : h[k] = heap[k]
  BY DEF Erased
<1>2. \A k \in DOMAIN h : EntryOf(h, k) = EntryOf(heap, k)
  BY <1>1 DEF EntryOf
<1>3. \A k \in DOMAIN h : EntryOf(heap, k) # EntryOf(heap, n)
  BY <1>1, EntryFacts DEF TagsDistinct
<1> HIDE DEF h
<1> QED BY <1>1, <1>2, <1>3 DEF EntrySet, h

LEMMA EntriesCounted ==
    ASSUME NEW heap, IsHeap(heap), TagsDistinct(heap)
    PROVE  Cardinality(EntrySet(heap)) = Cardinality(DOMAIN heap)
<1> DEFINE f == [n \in DOMAIN heap |-> EntryOf(heap, n)]
<1>1. f \in [DOMAIN heap -> EntrySet(heap)]
  BY DEF EntrySet
<1>2. \A n, m \in DOMAIN heap : f[n] = f[m] => n = m
  BY EntryFacts DEF TagsDistinct
<1>3. \A e \in EntrySet(heap) : \E n \in DOMAIN heap : f[n] = e
  BY DEF EntrySet
<1> HIDE DEF f
<1>4. f \in Bijection(DOMAIN heap, EntrySet(heap))
  BY <1>1, <1>2, <1>3 DEF Bijection, Injection, Surjection, IsInjective
<1> QED BY <1>4, FS_Bijection DEF ExistsBijection, IsHeap

-----------------------------------------------------------------------------
(* The inductive invariant.  Twins is what the code states; that tags are  *)
(* distinct is what its callers provide.                                   *)
IInv ==
    /\ TypeOK
    /\ HeapsConsistent
    /\ TagsDistinct(queue)
    /\ Cardinality(DOMAIN queue) <= kMaxQueueSize

LEMMA InitIInv == Init => IInv
<1> SUFFICES ASSUME Init PROVE IInv
  OBVIOUS
<1>1. DOMAIN queue = {} /\ DOMAIN drop_queue = {} /\ ret = None
  BY DEF Init
<1>2. IsHeap(queue) /\ IsHeap(drop_queue)
  BY FS_EmptySet DEF Init, IsHeap
<1>3. Cardinality(DOMAIN queue) <= kMaxQueueSize
  BY <1>1, FS_EmptySet, SizeAssumption
<1> QED BY <1>1, <1>2, <1>3 DEF IInv, TypeOK, HeapsConsistent, Twins, TagsDistinct

(* Erasing an entry and its twin keeps the invariant and takes one entry.  *)
LEMMA EraseStep ==
    ASSUME NEW q, NEW d, IsHeap(q), IsHeap(d), Twins(q, d), Twins(d, q),
           TagsDistinct(q), NEW n \in DOMAIN q
    PROVE  LET q2 == Erased(q, n)
               d2 == Erased(d, q[n].handle)
           IN  /\ IsHeap(q2) /\ IsHeap(d2) /\ Twins(q2, d2) /\ Twins(d2, q2)
               /\ TagsDistinct(q2)
               /\ Cardinality(DOMAIN q2) = Cardinality(DOMAIN q) - 1
               /\ EntrySet(q2) = EntrySet(q) \ {EntryOf(q, n)}
               /\ q[n].tag \in Tags
<1>1. IsHeap(Erased(q, n)) /\ IsHeap(Erased(d, q[n].handle))
  BY ErasedType
<1>2. TagsDistinct(Erased(q, n))
  BY DEF TagsDistinct, Erased
<1>3. Cardinality(DOMAIN Erased(q, n)) = Cardinality(DOMAIN q) - 1
  BY ErasedFacts, FS_RemoveElement DEF IsHeap
<1>4. q[n].tag \in Tags
  BY DEF IsHeap, Entries
<1> QED BY <1>1, <1>2, <1>3, <1>4, ErasedBothTwins, ErasedEntries

(* Adding an entry with a new tag and its twin does, and adds one entry.   *)
LEMMA AddStep ==
    ASSUME NEW q, NEW d, IsHeap(q), IsHeap(d), Twins(q, d), Twins(d, q),
           TagsDistinct(q),
           NEW n \in Nodes, NEW m \in Nodes, n \notin DOMAIN q, m \notin DOMAIN d,
           NEW tag \in Tags, NEW metric \in Metrics,
           \A k \in DOMAIN q : q[k].tag # tag
    PROVE  LET q2 == Added(q, n, NewEntry(tag, metric, m))
               d2 == Added(d, m, NewEntry(tag, metric, n))
           IN  /\ IsHeap(q2) /\ IsHeap(d2) /\ Twins(q2, d2) /\ Twins(d2, q2)
               /\ TagsDistinct(q2)
               /\ Cardinality(DOMAIN q2) = Cardinality(DOMAIN q) + 1
               /\ EntrySet(q2) = EntrySet(q) \cup {[tag |-> tag, metric |-> metric]}
<1> DEFINE q2 == Added(q, n, NewEntry(tag, metric, m))
           d2 == Added(d, m, NewEntry(tag, metric, n))
<1>1. IsHeap(q2) /\ IsHeap(d2)
  BY AddedType
<1>2. Twins(q2, d2) /\ Twins(d2, q2)
  BY AddedTwins
<1>3. TagsDistinct(q2)
  <2>1. DOMAIN q2 = DOMAIN q \cup {n} /\ \A k \in DOMAIN q : q2[k] = q[k]
    BY DEF Added
  <2>2. q2[n] = NewEntry(tag, metric, m)
    BY DEF Added
  <2>3. q2[n].tag = tag
    BY <2>2, NewEntryFacts
  <2> HIDE DEF q2
  <2> QED BY <2>1, <2>3 DEF TagsDistinct
<1>4. Cardinality(DOMAIN q2) = Cardinality(DOMAIN q) + 1
  <2>1. DOMAIN q2 = DOMAIN q \cup {n}
    BY AddedFacts
  <2> QED BY <2>1, FS_AddElement DEF IsHeap
<1>5. EntrySet(q2) = EntrySet(q) \cup {[tag |-> tag, metric |-> metric]}
  BY AddedEntries
<1> QED BY <1>1, <1>2, <1>3, <1>4, <1>5

-----------------------------------------------------------------------------
(* The steps.                                                              *)

(* The entries as the refinement maps them.                                *)
LEMMA MappedEntries ==
    /\ EntrySet(queue) = {[tag |-> queue[n].tag, metric |-> queue[n].metric] : n \in DOMAIN queue}
    /\ EntrySet(queue') = {[tag |-> queue'[n].tag, metric |-> queue'[n].metric] : n \in DOMAIN queue'}
BY DEF EntrySet, EntryOf

(* A pop takes one of the lightest entries out of both heaps.              *)
LEMMA PopStep ==
    ASSUME IInv, Pop
    PROVE  /\ IInv'
           /\ \E e \in EntrySet(queue) :
                /\ \A f \in EntrySet(queue) : e.metric <= f.metric
                /\ EntrySet(queue') = EntrySet(queue) \ {e}
                /\ ret' = e.tag
<1>1. PICK n \in MinTops(queue) :
            /\ drop_queue' = Erased(drop_queue, queue[n].handle)
            /\ queue' = Erased(queue, n)
            /\ ret' = queue[n].tag
  BY DEF Pop
<1>2. n \in DOMAIN queue /\ \A m \in DOMAIN queue : queue[n].metric <= queue[m].metric
  BY DEF MinTops
<1>3. /\ IsHeap(queue) /\ IsHeap(drop_queue)
      /\ Twins(queue, drop_queue) /\ Twins(drop_queue, queue)
      /\ TagsDistinct(queue)
      /\ Cardinality(DOMAIN queue) \in Nat /\ Cardinality(DOMAIN queue) <= kMaxQueueSize
  BY FS_CardinalityType DEF IInv, TypeOK, HeapsConsistent, IsHeap
<1>4. /\ IsHeap(queue') /\ IsHeap(drop_queue')
      /\ Twins(queue', drop_queue') /\ Twins(drop_queue', queue')
      /\ TagsDistinct(queue')
      /\ Cardinality(DOMAIN queue') = Cardinality(DOMAIN queue) - 1
      /\ EntrySet(queue') = EntrySet(queue) \ {EntryOf(queue, n)}
      /\ ret' \in Tags
  BY <1>1, <1>2, <1>3, EraseStep
<1>5. IInv'
  BY <1>3, <1>4, SizeAssumption DEF IInv, TypeOK, HeapsConsistent
<1>6. \A f \in EntrySet(queue) : EntryOf(queue, n).metric <= f.metric
  BY <1>2, EntryFacts DEF EntrySet
<1>7. EntryOf(queue, n) \in EntrySet(queue) /\ ret' = EntryOf(queue, n).tag
  BY <1>1, <1>2, EntryFacts DEF EntrySet
<1> QED BY <1>4, <1>5, <1>6, <1>7

(* A push adds the entry and, above the bound, takes out one of the        *)
(* heaviest, as the drop queue tells it.                                   *)
LEMMA PushStep ==
    ASSUME IInv, NEW tag \in Tags \ Queued, NEW metric \in Metrics, Push(tag, metric)
    PROVE  /\ IInv'
           /\ LET pushed == EntrySet(queue) \cup {[tag |-> tag, metric |-> metric]}
              IN  IF Cardinality(pushed) <= kMaxQueueSize
                  THEN EntrySet(queue') = pushed /\ ret' = None
                  ELSE \E e \in pushed :
                        /\ \A f \in pushed : e.metric >= f.metric
                        /\ EntrySet(queue') = pushed \ {e}
                        /\ ret' = e.tag
<1>1. PICK n \in Nodes \ DOMAIN queue, d \in Nodes \ DOMAIN drop_queue :
        LET pushed == Added(queue, n, NewEntry(tag, metric, d))
            drop_pushed == Added(drop_queue, d, NewEntry(tag, metric, n))
        IN  IF Overfull(pushed)
            THEN \E m \in MaxTops(drop_pushed) :
                    /\ queue' = Erased(pushed, drop_pushed[m].handle)
                    /\ drop_queue' = Erased(drop_pushed, m)
                    /\ ret' = drop_pushed[m].tag
            ELSE queue' = pushed /\ drop_queue' = drop_pushed /\ ret' = None
  BY Zenon DEF Push
<1> DEFINE pushed == Added(queue, n, NewEntry(tag, metric, d))
           drop_pushed == Added(drop_queue, d, NewEntry(tag, metric, n))
<1>2. /\ IsHeap(queue) /\ IsHeap(drop_queue)
      /\ Twins(queue, drop_queue) /\ Twins(drop_queue, queue)
      /\ TagsDistinct(queue)
      /\ Cardinality(DOMAIN queue) \in Nat /\ Cardinality(DOMAIN queue) <= kMaxQueueSize
  BY FS_CardinalityType DEF IInv, TypeOK, HeapsConsistent, IsHeap
<1>3. \A k \in DOMAIN queue : queue[k].tag # tag
  BY DEF Queued
<1>4. /\ IsHeap(pushed) /\ IsHeap(drop_pushed)
      /\ Twins(pushed, drop_pushed) /\ Twins(drop_pushed, pushed)
      /\ TagsDistinct(pushed)
      /\ Cardinality(DOMAIN pushed) = Cardinality(DOMAIN queue) + 1
      /\ EntrySet(pushed) = EntrySet(queue) \cup {[tag |-> tag, metric |-> metric]}
  BY <1>2, <1>3, AddStep
<1>5. IF Overfull(pushed)
      THEN \E m \in MaxTops(drop_pushed) :
                /\ queue' = Erased(pushed, drop_pushed[m].handle)
                /\ drop_queue' = Erased(drop_pushed, m)
                /\ ret' = drop_pushed[m].tag
      ELSE queue' = pushed /\ drop_queue' = drop_pushed /\ ret' = None
  BY <1>1, Zenon
<1> HIDE DEF pushed, drop_pushed
<1>6. Cardinality(EntrySet(pushed)) = Cardinality(DOMAIN pushed)
  BY <1>4, EntriesCounted
<1>7. CASE ~ Overfull(pushed)
  <2>1. Cardinality(DOMAIN pushed) <= kMaxQueueSize
    BY <1>2, <1>4, <1>7, SizeAssumption DEF Overfull
  <2>2. queue' = pushed /\ drop_queue' = drop_pushed /\ ret' = None
    BY <1>5, <1>7
  <2>3. IInv'
    BY <1>4, <2>1, <2>2 DEF IInv, TypeOK, HeapsConsistent
  <2> QED BY <1>4, <1>6, <2>1, <2>2, <2>3
<1>8. CASE Overfull(pushed)
  <2>1. PICK m \in MaxTops(drop_pushed) :
            /\ queue' = Erased(pushed, drop_pushed[m].handle)
            /\ drop_queue' = Erased(drop_pushed, m)
            /\ ret' = drop_pushed[m].tag
    BY <1>5, <1>8
  <2> DEFINE k == drop_pushed[m].handle
  <2>2. /\ m \in DOMAIN drop_pushed
        /\ \A i \in DOMAIN drop_pushed : drop_pushed[m].metric >= drop_pushed[i].metric
    BY DEF MaxTops
  <2>3. /\ k \in DOMAIN pushed
        /\ pushed[k] = NewEntry(drop_pushed[m].tag, drop_pushed[m].metric, m)
    BY <1>4, <2>2 DEF Twins
  <2>4. /\ pushed[k].tag = drop_pushed[m].tag
        /\ pushed[k].metric = drop_pushed[m].metric
        /\ pushed[k].handle = m
    BY <2>3, NewEntryFacts
  <2>5. queue' = Erased(pushed, k) /\ drop_queue' = Erased(drop_pushed, pushed[k].handle)
    BY <2>1, <2>4
  <2>6. ret' = EntryOf(pushed, k).tag
    BY <2>1, <2>4, EntryFacts
  <2>7. \A f \in EntrySet(pushed) : EntryOf(pushed, k).metric >= f.metric
    <3> SUFFICES ASSUME NEW j \in DOMAIN pushed
                 PROVE  pushed[k].metric >= pushed[j].metric
      BY EntryFacts DEF EntrySet
    <3>1. /\ pushed[j].handle \in DOMAIN drop_pushed
          /\ drop_pushed[pushed[j].handle] = NewEntry(pushed[j].tag, pushed[j].metric, j)
      BY <1>4 DEF Twins
    <3>2. drop_pushed[pushed[j].handle].metric = pushed[j].metric
      BY <3>1, NewEntryFacts
    <3> QED BY <2>2, <2>4, <3>1, <3>2
  <2>8. EntryOf(pushed, k) \in EntrySet(pushed)
    BY <2>3 DEF EntrySet
  <2> HIDE DEF k
  <2>9. /\ IsHeap(queue') /\ IsHeap(drop_queue')
        /\ Twins(queue', drop_queue') /\ Twins(drop_queue', queue')
        /\ TagsDistinct(queue')
        /\ Cardinality(DOMAIN queue') = Cardinality(DOMAIN pushed) - 1
        /\ EntrySet(queue') = EntrySet(pushed) \ {EntryOf(pushed, k)}
        /\ pushed[k].tag \in Tags
    BY <1>4, <2>3, <2>5, EraseStep
  <2>10. IInv'
    BY <1>2, <1>4, <2>6, <2>9, EntryFacts DEF IInv, TypeOK, HeapsConsistent
  <2>11. ~ Cardinality(EntrySet(pushed)) <= kMaxQueueSize
    BY <1>2, <1>4, <1>6, <1>8, SizeAssumption DEF Overfull
  <2> QED BY <1>4, <2>6, <2>7, <2>8, <2>9, <2>10, <2>11
<1> QED BY <1>7, <1>8

LEMMA NextIInv == IInv /\ [Next]_vars => IInv'
<1> SUFFICES ASSUME IInv, [Next]_vars PROVE IInv'
  OBVIOUS
<1>1. CASE Pop
  BY <1>1, PopStep
<1>2. ASSUME NEW tag \in Tags \ Queued, NEW metric \in Metrics, Push(tag, metric) PROVE IInv'
  BY <1>2, PushStep
<1>3. ASSUME UNCHANGED <<queue, drop_queue>>, ret' \in Tags \cup {None} PROVE IInv'
  BY <1>3 DEF IInv, TypeOK, IsHeap, HeapsConsistent, Twins, TagsDistinct
<1>4. CASE PopEmpty
  BY <1>3, <1>4 DEF PopEmpty
<1>5. CASE UNCHANGED vars
  BY <1>3, <1>5 DEF vars, IInv, TypeOK
<1> QED BY <1>1, <1>2, <1>4, <1>5 DEF Next

LEMMA SpecIInv == Spec => []IInv
BY InitIInv, NextIInv, PTL DEF Spec

(* Both heaps hold entries only, whatever nodes are used again.            *)
THEOREM BoundedHeapTypeCorrect == Spec => []TypeOK
BY SpecIInv, PTL DEF IInv

(* The handles of each heap lead to the twin in the other and back, after  *)
(* any pushes, evictions and pops.                                         *)
THEOREM TwinsCorrect == Spec => []HeapsConsistent
BY SpecIInv, PTL DEF IInv

(* The two heaps are one bounded set: a pop takes one of the lightest, a   *)
(* push over the bound drops one of the heaviest, however ties are broken. *)
THEOREM BoundedRefinement == Spec => RefinesBoundedQueue
<1>1. Init => Bounded!BQInit
  BY DEF Init, Bounded!BQInit
<1>2. IInv /\ [Next]_vars => [Bounded!BQNext]_(Bounded!bqVars)
  <2> SUFFICES ASSUME IInv, [Next]_vars PROVE [Bounded!BQNext]_(Bounded!bqVars)
    OBVIOUS
  <2>1. CASE Pop
    <3>1. Bounded!BQPop
      BY <2>1, PopStep, MappedEntries DEF Bounded!BQPop, Bounded!Lightest
    <3> QED BY <3>1 DEF Bounded!BQNext
  <2>2. ASSUME NEW tag \in Tags \ Queued, NEW metric \in Metrics, Push(tag, metric)
        PROVE  Bounded!BQNext
    <3> DEFINE pushed == EntrySet(queue) \cup {[tag |-> tag, metric |-> metric]}
    <3>2. IF Cardinality(pushed) <= kMaxQueueSize
          THEN EntrySet(queue') = pushed /\ ret' = None
          ELSE \E e \in Bounded!Heaviest(pushed) :
                    EntrySet(queue') = pushed \ {e} /\ ret' = e.tag
      BY <2>2, PushStep DEF Bounded!Heaviest
    <3>3. Bounded!Cardinality(pushed) = Cardinality(pushed)
      BY DEF Bounded!Cardinality, Cardinality
    <3>1. Bounded!BQPush(tag, metric)
      BY <3>2, <3>3, MappedEntries, Zenon DEF Bounded!BQPush, Bounded!Entry
    <3> QED BY <3>1 DEF Bounded!BQNext
  <2>3. CASE PopEmpty
    <3>1. Bounded!BQPopEmpty
      BY <2>3 DEF PopEmpty, Bounded!BQPopEmpty
    <3> QED BY <3>1 DEF Bounded!BQNext
  <2>4. CASE UNCHANGED vars
    BY <2>4 DEF vars, Bounded!bqVars
  <2> QED BY <2>1, <2>2, <2>3, <2>4 DEF Next
<1> QED BY <1>1, <1>2, SpecIInv, PTL DEF Spec, RefinesBoundedQueue, Bounded!BQSpec
=============================================================================
