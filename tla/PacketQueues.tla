---------------------------- MODULE PacketQueues ----------------------------
(***************************************************************************)
(* The packet queues of src/simulator/src/queueing: FCFS, SJF, WSJF, fair  *)
(* queueing and the two flow-based in-order queues, behind the interface   *)
(* of BaseQueue.  One of them is chosen for a whole simulation.            *)
(*                                                                         *)
(* The boost heaps are external: a heap is the set of its entries, and     *)
(* top() any entry that no other precedes.  A ratio is kept as a fraction. *)
(* Sums of job sizes are doubles, rounded by Rounded.                      *)
(***************************************************************************)
EXTENDS Integers, Sequences, FiniteSets, QueueingPolicies

CONSTANTS Flows, Rounded(_)

VARIABLES
    policy,
    fifo,           \* FCFSQueue::queue_
    heap,           \* queue_ of SJFQueue, WSJFQueue and FQQueue
    fq_data,        \* FQQueue::data_
    data,           \* data_ of the in-order queues
    priorities,     \* priorities_, keyed by flow: data_ holds the handles
    size            \* size_, where the queue keeps one

queueVars == <<policy, fifo, heap, fq_data, data, priorities, size>>

NoQueue == "none"

NoFlows == [f \in {} |-> <<>>]

QueueInit ==
    /\ policy = NoQueue
    /\ fifo = <<>>
    /\ heap = {}
    /\ fq_data = NoFlows
    /\ data = NoFlows
    /\ priorities = NoFlows
    /\ size = 0

\* QueueFactory::generate: the queue of a policy, empty.
Generate(p) ==
    /\ policy' = p
    /\ UNCHANGED <<fifo, heap, fq_data, data, priorities, size>>

With(map, f, v) == [g \in DOMAIN map \cup {f} |-> IF g = f THEN v ELSE map[g]]
Without(map, f) == [g \in DOMAIN map \ {f} |-> map[g]]

-----------------------------------------------------------------------------
(* Heap entries.                                                           *)

MinHeapEntry(tag, num, den, insert_time) ==
    [tag |-> tag, num |-> num, den |-> den, insert_time |-> insert_time]

SameMetric(a, b) == a.num * b.den = b.num * a.den

Precedes(a, b) ==
    \/ a.num * b.den < b.num * a.den
    \/ SameMetric(a, b) /\ a.insert_time < b.insert_time

Tops(entries) == {e \in entries : \A other \in entries : ~Precedes(other, e)}

Entries(map) == {map[f] : f \in DOMAIN map}

-----------------------------------------------------------------------------
(* FCFS, SJF and WSJF.                                                     *)

FcfsPush(p) ==
    /\ policy = "fcfs"
    /\ fifo' = Append(fifo, p)
    /\ UNCHANGED <<policy, heap, fq_data, data, priorities, size>>

FcfsPop(p) ==
    /\ policy = "fcfs"
    /\ p = Head(fifo)
    /\ fifo' = Tail(fifo)
    /\ UNCHANGED <<policy, heap, fq_data, data, priorities, size>>

ShortestFirstPush(p) ==
    /\ policy \in {"sjf", "wsjf"}
    /\ LET weight == IF policy = "wsjf" THEN p.psize ELSE 1
       IN  heap' = heap \cup {MinHeapEntry(p, p.est, weight, p.arrive)}
    /\ UNCHANGED <<policy, fifo, fq_data, data, priorities, size>>

ShortestFirstPop(p) ==
    /\ policy \in {"sjf", "wsjf"}
    /\ \E top \in Tops(heap) : p = top.tag /\ heap' = heap \ {top}
    /\ UNCHANGED <<policy, fifo, fq_data, data, priorities, size>>

-----------------------------------------------------------------------------
(* Fair queueing: entries ordered by their flow's virtual clock.           *)

\* Defect: the clock of a flow that waits is not carried on.
MutantVirtualClock(p) == Rounded(p.est + p.arrive)

VirtualClock(p) ==
    Rounded(p.est + IF p.flow \in DOMAIN fq_data
                    THEN fq_data[p.flow].virtual_clock
                    ELSE p.arrive)

NumPackets(f) == IF f \in DOMAIN fq_data THEN fq_data[f].num_packets ELSE 0

FqPush(p) ==
    /\ policy = "fq"
    /\ fq_data' = With(fq_data, p.flow,
            [num_packets |-> NumPackets(p.flow) + 1, virtual_clock |-> VirtualClock(p)])
    /\ heap' = heap \cup {MinHeapEntry(p, VirtualClock(p), 1, p.arrive)}
    /\ size' = size + 1
    /\ UNCHANGED <<policy, fifo, data, priorities>>

\* The metadata of a flow without packets is purged, its clock with it.
FqPop(p) ==
    /\ policy = "fq"
    /\ \E top \in Tops(heap) : p = top.tag /\ heap' = heap \ {top}
    /\ fq_data' = IF fq_data[p.flow].num_packets = 1
                  THEN Without(fq_data, p.flow)
                  ELSE [fq_data EXCEPT ![p.flow].num_packets = @ - 1]
    /\ size' = size - 1
    /\ UNCHANGED <<policy, fifo, data, priorities>>

-----------------------------------------------------------------------------
(* In-order SJF and WSJF: a FIFO queue per flow, and a heap of the flows.  *)

NewFlow == [queue |-> <<>>, total_jsize |-> 0, total_psize |-> 0]

FlowPush(d, p) ==
    [queue |-> Append(d.queue, p),
     total_jsize |-> Rounded(d.total_jsize + p.est),
     total_psize |-> d.total_psize + p.psize]

FlowPop(d) ==
    [queue |-> Tail(d.queue),
     total_jsize |-> Rounded(d.total_jsize - Head(d.queue).est),
     total_psize |-> d.total_psize - Head(d.queue).psize]

\* getFlowRatio(), as denominator.
FlowWeight(d) == IF policy = "wsjf_inorder" THEN d.total_psize ELSE Len(d.queue)

FlowPriority(f, d) ==
    MinHeapEntry(f, d.total_jsize, FlowWeight(d), Head(d.queue).arrive)

InorderPush(p) ==
    LET known == p.flow \in DOMAIN data
        pushed == FlowPush(IF known THEN data[p.flow] ELSE NewFlow, p)
    IN  /\ policy \in InorderPolicies
        /\ data' = With(data, p.flow, pushed)
        /\ priorities' = With(priorities, p.flow, FlowPriority(p.flow, pushed))
        /\ size' = size + 1
        /\ UNCHANGED <<policy, fifo, heap, fq_data>>

\* Defect: the priority of a flow that goes on waiting is left alone.
MutantInorderPop(p) ==
    \E top \in Tops(Entries(priorities)) :
        LET f == top.tag
            popped == FlowPop(data[f])
        IN  /\ policy \in InorderPolicies
            /\ p = Head(data[f].queue)
            /\ IF popped.queue # <<>>
               THEN data' = [data EXCEPT ![f] = popped] /\ UNCHANGED priorities
               ELSE data' = Without(data, f) /\ priorities' = Without(priorities, f)
            /\ size' = size - 1
            /\ UNCHANGED <<policy, fifo, heap, fq_data>>

InorderPop(p) ==
    \E top \in Tops(Entries(priorities)) :
        LET f == top.tag
            popped == FlowPop(data[f])
        IN  /\ policy \in InorderPolicies
            /\ p = Head(data[f].queue)
            /\ IF popped.queue # <<>>
               THEN /\ data' = [data EXCEPT ![f] = popped]
                    /\ priorities' = [priorities EXCEPT ![f] = FlowPriority(f, popped)]
               ELSE /\ data' = Without(data, f)
                    /\ priorities' = Without(priorities, f)
            /\ size' = size - 1
            /\ UNCHANGED <<policy, fifo, heap, fq_data>>

-----------------------------------------------------------------------------
(* The interface of BaseQueue.                                             *)

Push(p) ==
    \/ FcfsPush(p)
    \/ ShortestFirstPush(p)
    \/ FqPush(p)
    \/ InorderPush(p)

\* Called only when the queue is not empty.
Pop(p) ==
    \/ FcfsPop(p)
    \/ ShortestFirstPop(p)
    \/ FqPop(p)
    \/ InorderPop(p)

\* Where a queue counts in size_, empty() believes the count.
QueueEmpty ==
    CASE policy = "fcfs" -> fifo = <<>>
      [] policy \in {"sjf", "wsjf"} -> heap = {}
      [] OTHER -> size = 0

\* The packets that wait, in any of the queues.
Waiting ==
    {fifo[i] : i \in DOMAIN fifo}
        \cup {e.tag : e \in heap}
        \cup UNION {{data[f].queue[i] : i \in DOMAIN data[f].queue} : f \in DOMAIN data}
=============================================================================
