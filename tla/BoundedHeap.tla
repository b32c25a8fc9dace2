---------------------------- MODULE BoundedHeap ----------------------------
(***************************************************************************)
(* The bounded min-heap of src/scheduler/heaps/bounded_heap.hpp: a         *)
(* min-heap and a max-heap of the same entries, each entry with a handle   *)
(* to its twin in the other heap.                                          *)
(*                                                                         *)
(* The boost heaps are external: a heap is a function from the nodes in    *)
(* use to entries, a handle is a node, top() is any node no other precedes *)
(* (ties are broken by the shape of the Fibonacci heap, which is not       *)
(* modelled), and a node given back is used again by a later push.         *)
(***************************************************************************)
EXTENDS Integers, FiniteSets

CONSTANTS
    Tags, Metrics, kMaxQueueSize,
    None,
    Nodes       \* addresses of heap nodes

ASSUME MetricsAssumption == Metrics \subseteq Int
ASSUME SizeAssumption == kMaxQueueSize \in Nat

VARIABLES
    queue,          \* min-heap
    drop_queue,     \* max-heap
    ret             \* the tag the last call gave back, or None

vars == <<queue, drop_queue, ret>>

Init ==
    /\ queue = [n \in {} |-> None]
    /\ drop_queue = [n \in {} |-> None]
    /\ ret = None

\* QueueEntry and DropQueueEntry.
Entries == [tag : Tags, metric : Metrics, handle : Nodes]

\* Defect: the handle is not set after the push.
MutantNewEntry(tag, metric, handle) == [tag |-> tag, metric |-> metric, handle |-> None]

NewEntry(tag, metric, handle) == [tag |-> tag, metric |-> metric, handle |-> handle]

Added(heap, n, e) == [m \in DOMAIN heap \cup {n} |-> IF m = n THEN e ELSE heap[m]]
Erased(heap, n) == [m \in DOMAIN heap \ {n} |-> heap[m]]

\* Defect: the comparison does not depend on IsMin.
MutantMaxTops(heap) ==
    {n \in DOMAIN heap : \A m \in DOMAIN heap : heap[n].metric <= heap[m].metric}

MinTops(heap) == {n \in DOMAIN heap : \A m \in DOMAIN heap : heap[n].metric <= heap[m].metric}
MaxTops(heap) == {n \in DOMAIN heap : \A m \in DOMAIN heap : heap[n].metric >= heap[m].metric}

\* Defect: the drop queue pops its own top instead of the twin.
MutantPop ==
    \E n \in MinTops(queue), m \in MaxTops(drop_queue) :
        /\ drop_queue' = Erased(drop_queue, m)
        /\ queue' = Erased(queue, n)
        /\ ret' = queue[n].tag

\* pop(): the lightest entry and its twin.
Pop ==
    \E n \in MinTops(queue) :
        /\ drop_queue' = Erased(drop_queue, queue[n].handle)
        /\ queue' = Erased(queue, n)
        /\ ret' = queue[n].tag

\* pop() of an empty heap throws.
PopEmpty ==
    /\ DOMAIN queue = {}
    /\ ret' = None
    /\ UNCHANGED <<queue, drop_queue>>

Overfull(pushed) == Cardinality(DOMAIN pushed) > kMaxQueueSize

\* push(): a new entry in both heaps, and the heaviest out if they are overfull.
Push(tag, metric) ==
    \E n \in Nodes \ DOMAIN queue, d \in Nodes \ DOMAIN drop_queue :
        LET pushed == Added(queue, n, NewEntry(tag, metric, d))
            drop_pushed == Added(drop_queue, d, NewEntry(tag, metric, n))
        IN  IF Overfull(pushed)
            THEN \E m \in MaxTops(drop_pushed) :
                    /\ queue' = Erased(pushed, drop_pushed[m].handle)
                    /\ drop_queue' = Erased(drop_pushed, m)
                    /\ ret' = drop_pushed[m].tag
            ELSE queue' = pushed /\ drop_queue' = drop_pushed /\ ret' = None

Queued == {queue[n].tag : n \in DOMAIN queue}

\* A tag is an mbuf, queued at most once at a time.
Next ==
    \/ Pop
    \/ PopEmpty
    \/ \E tag \in Tags \ Queued, metric \in Metrics : Push(tag, metric)

Spec == Init /\ [][Next]_vars

-----------------------------------------------------------------------------
(* Properties.                                                             *)

IsHeap(heap) ==
    /\ DOMAIN heap \subseteq Nodes
    /\ IsFiniteSet(DOMAIN heap)
    /\ heap \in [DOMAIN heap -> Entries]

\* Both heaps hold entries, and the call gave back a tag or nothing.
TypeOK ==
    /\ IsHeap(queue)
    /\ IsHeap(drop_queue)
    /\ ret \in Tags \cup {None}

Twins(heap, other) ==
    \A n \in DOMAIN heap :
        /\ heap[n].handle \in DOMAIN other
        /\ other[heap[n].handle] = NewEntry(heap[n].tag, heap[n].metric, n)

\* The invariant the code states: the heaps are consistent, with the same size
\* and set of entries.  Handles lead from each entry to its twin and back, also
\* after nodes were freed and used again.
HeapsConsistent == Twins(queue, drop_queue) /\ Twins(drop_queue, queue)

\* Callers see a bounded set served from the light end and trimmed at the heavy
\* one, whatever the order of ties in either heap.
Bounded == INSTANCE BoundedQueue WITH
    entries <- {[tag |-> queue[n].tag, metric |-> queue[n].metric] : n \in DOMAIN queue}

RefinesBoundedQueue == Bounded!BQSpec
=============================================================================
