-------------------------- MODULE SimulatorProofs --------------------------
(***************************************************************************)
(* What the simulator keeps, for all configurations, traffic, numbers of   *)
(* flows and job sizes: its queues agree with their metadata, no packet is *)
(* lost, the asserts of the loop hold, departures are in order, and the    *)
(* policies that claim flow order keep it.                                 *)
(***************************************************************************)
EXTENDS Simulator, FiniteSetTheorems, SequenceTheorems, TLAPS

-----------------------------------------------------------------------------
(* Lines of packets.                                                       *)

\* The packets of a queue, of a heap, and of the queues of all flows.
InFifo(q) == {q[i] : i \in DOMAIN q}
InHeap(h) == {e.tag : e \in h}
InFlows(d) == UNION {InFifo(d[f].queue) : f \in DOMAIN d}

\* Packets in the order they came.
InLine(q) ==
    /\ q \in Seq(Packets)
    /\ \A i, j \in 1 .. Len(q) : i < j => q[i].idx < q[j].idx

LEMMA WaitingParts == Waiting = InFifo(fifo) \cup InHeap(heap) \cup InFlows(data)
BY DEF Waiting, InFifo, InHeap, InFlows

LEMMA WaitingPartsNext ==
    Waiting' = InFifo(fifo') \cup InHeap(heap') \cup InFlows(data')
BY DEF Waiting, InFifo, InHeap, InFlows

LEMMA FlowsMember ==
    \A d, x : x \in InFlows(d) <=> \E f \in DOMAIN d : x \in InFifo(d[f].queue)
BY DEF InFlows

LEMMA EmptyParts ==
    /\ InFifo(<<>>) = {}
    /\ InHeap({}) = {}
    /\ \A d : DOMAIN d = {} => InFlows(d) = {}
BY DEF InFifo, InHeap, InFlows

LEMMA LineFacts ==
    ASSUME NEW q, InLine(q)
    PROVE  /\ Len(q) \in Nat /\ DOMAIN q = 1 .. Len(q)
           /\ q = <<>> <=> Len(q) = 0
           /\ q = <<>> <=> InFifo(q) = {}
           /\ \A x : x \in InFifo(q) <=> \E i \in 1 .. Len(q) : x = q[i]
           /\ \A i \in 1 .. Len(q) : q[i] \in Packets /\ q[i].idx \in Nat
           /\ InFifo(q) \subseteq Packets
<1>1. Len(q) \in Nat /\ DOMAIN q = 1 .. Len(q) /\ q \in [1 .. Len(q) -> Packets]
  BY LenProperties DEF InLine
<1>2. q = <<>> <=> Len(q) = 0
  BY EmptySeq DEF InLine
<1>3. \A i \in 1 .. Len(q) : q[i] \in Packets /\ q[i].idx \in Nat
  BY <1>1 DEF Packets
<1>4. \A x : x \in InFifo(q) <=> \E i \in 1 .. Len(q) : x = q[i]
  BY <1>1 DEF InFifo
<1>5. q # <<>> => q[1] \in InFifo(q)
  <2>1. q # <<>> => 1 \in 1 .. Len(q)
    BY <1>1, <1>2
  <2> QED BY <1>4, <2>1
<1>6. q = <<>> => InFifo(q) = {}
  BY EmptyParts
<1> QED BY <1>1, <1>2, <1>3, <1>4, <1>5, <1>6

(* A packet that comes after all others joins the line at its end.         *)
LEMMA AppendFacts ==
    ASSUME NEW q, InLine(q), NEW p \in Packets,
           \A x \in InFifo(q) : x.idx < p.idx
    PROVE  /\ InLine(Append(q, p))
           /\ InFifo(Append(q, p)) = InFifo(q) \cup {p}
           /\ Append(q, p) # <<>>
           /\ Head(Append(q, p)) = IF q = <<>> THEN p ELSE Head(q)
<1> DEFINE a == Append(q, p)
<1>1. /\ a \in Seq(Packets) /\ Len(a) = Len(q) + 1 /\ a[Len(q) + 1] = p
      /\ \A i \in 1 .. Len(q) : a[i] = q[i]
  BY AppendProperties DEF InLine
<1>2. Len(q) \in Nat /\ q = <<>> <=> Len(q) = 0
  BY LineFacts
<1> HIDE DEF a
<1>3. InLine(a)
  <2> SUFFICES ASSUME NEW i \in 1 .. Len(a), NEW j \in 1 .. Len(a), i < j
               PROVE  a[i].idx < a[j].idx
    BY <1>1 DEF InLine
  <2>1. i \in 1 .. Len(q) /\ a[i] = q[i]
    BY <1>1, <1>2
  <2>2. CASE j \in 1 .. Len(q)
    <3>1. a[j] = q[j]
      BY <1>1, <2>2
    <3> QED BY <2>1, <2>2, <3>1 DEF InLine
  <2>3. CASE j = Len(q) + 1
    BY <1>1, <2>1, <2>3, LineFacts
  <2> QED BY <1>1, <1>2, <2>2, <2>3
<1>4. InFifo(a) = InFifo(q) \cup {p}
  <2>1. \A i : i \in 1 .. Len(a) <=> i \in 1 .. Len(q) \/ i = Len(q) + 1
    BY <1>1, <1>2
  <2>2. \A x : x \in InFifo(a) <=> \E i \in 1 .. Len(a) : x = a[i]
    BY <1>3, LineFacts
  <2>3. \A x : x \in InFifo(q) <=> \E i \in 1 .. Len(q) : x = q[i]
    BY LineFacts
  <2> QED BY <1>1, <2>1, <2>2, <2>3
<1>5. a # <<>>
  BY <1>1, <1>2, <1>3, LineFacts
<1>6. Head(a) = IF q = <<>> THEN p ELSE Head(q)
  <2>1. Head(a) = a[1]
    BY <1>1, <1>5, HeadTailProperties DEF InLine
  <2>2. q # <<>> => Head(q) = q[1] /\ 1 \in 1 .. Len(q)
    BY <1>2, HeadTailProperties DEF InLine
  <2>3. q = <<>> => a[1] = p
    BY <1>1, <1>2
  <2> QED BY <1>1, <2>1, <2>2, <2>3
<1> QED BY <1>3, <1>4, <1>5, <1>6 DEF a

(* The packet that leaves a line is its oldest.                            *)
LEMMA TailFacts ==
    ASSUME NEW q, InLine(q), q # <<>>
    PROVE  /\ InLine(Tail(q))
           /\ Head(q) \in InFifo(q) /\ Head(q) \in Packets
           /\ InFifo(Tail(q)) = InFifo(q) \ {Head(q)}
           /\ \A x \in InFifo(q) \ {Head(q)} : Head(q).idx < x.idx
<1> DEFINE t == Tail(q)
<1>1. /\ t \in Seq(Packets) /\ Len(t) = Len(q) - 1 /\ Head(q) = q[1]
      /\ \A i \in 1 .. Len(t) : t[i] = q[i + 1]
  BY HeadTailProperties DEF InLine
<1>2. Len(q) \in Nat /\ Len(q) > 0
  BY LineFacts
<1>3. \A i \in 1 .. Len(q) : q[i] \in Packets /\ q[i].idx \in Nat
  BY LineFacts
<1>4. \A i, j \in 1 .. Len(q) : i < j => q[i].idx < q[j].idx
  BY DEF InLine
<1> HIDE DEF t
<1>5. InLine(t)
  <2> SUFFICES ASSUME NEW i \in 1 .. Len(t), NEW j \in 1 .. Len(t), i < j
               PROVE  t[i].idx < t[j].idx
    BY <1>1 DEF InLine
  <2>1. i + 1 \in 1 .. Len(q) /\ j + 1 \in 1 .. Len(q) /\ i + 1 < j + 1
    BY <1>1, <1>2
  <2>2. q[i + 1].idx < q[j + 1].idx
    BY <1>4, <2>1
  <2> QED BY <1>1, <2>2
<1>6. \A x : x \in InFifo(q) <=> \E i \in 1 .. Len(q) : x = q[i]
  BY LineFacts
<1>7. \A x : x \in InFifo(t) <=> \E i \in 1 .. Len(t) : x = t[i]
  BY <1>5, LineFacts
<1>8. 1 \in 1 .. Len(q) /\ Head(q) \in InFifo(q) /\ Head(q) \in Packets
  BY <1>1, <1>2, <1>3, <1>6
<1>9. \A x \in InFifo(t) : x \in InFifo(q) \ {Head(q)}
  <2> SUFFICES ASSUME NEW x \in InFifo(t)
               PROVE  x \in InFifo(q) /\ x # Head(q)
    OBVIOUS
  <2>1. PICK i \in 1 .. Len(t) : x = t[i]
    BY <1>7
  <2>2. i + 1 \in 1 .. Len(q) /\ 1 < i + 1
    BY <1>1, <1>2
  <2>3. x = q[i + 1]
    BY <1>1, <2>1
  <2>4. q[1].idx < q[i + 1].idx
    BY <1>4, <1>8, <2>2
  <2>5. q[1] # q[i + 1]
    BY <1>3, <1>8, <2>2, <2>4
  <2> QED BY <1>1, <1>6, <2>2, <2>3, <2>5
<1>10. \A x \in InFifo(q) \ {Head(q)} : x \in InFifo(t) /\ Head(q).idx < x.idx
  <2> SUFFICES ASSUME NEW x \in InFifo(q), x # Head(q)
               PROVE  x \in InFifo(t) /\ Head(q).idx < x.idx
    OBVIOUS
  <2>1. PICK i \in 1 .. Len(q) : x = q[i]
    BY <1>6
  <2>2. i # 1
    BY <1>1, <2>1
  <2> DEFINE j == i - 1
  <2>3. j \in 1 .. Len(t) /\ j + 1 = i /\ 1 < i
    BY <1>1, <1>2, <2>2
  <2> HIDE DEF j
  <2>4. x = t[j]
    BY <1>1, <2>1, <2>3
  <2>5. q[1].idx < q[i].idx
    BY <1>4, <1>8, <2>3
  <2> QED BY <1>1, <1>7, <2>1, <2>3, <2>4, <2>5
<1> QED BY <1>5, <1>8, <1>9, <1>10 DEF t
-----------------------------------------------------------------------------
(* The queues.                                                             *)

\* The queues of the other policies are empty.
OneQueue ==
    /\ policy # "fcfs" => fifo = <<>>
    /\ policy \notin {"sjf", "wsjf", "fq"} => heap = {}
    /\ policy # "fq" => DOMAIN fq_data = {}
    /\ policy \notin InorderPolicies => DOMAIN data = {}
    /\ policy \notin {"fq"} \cup InorderPolicies => size = 0

IsHeap(h) ==
    /\ IsFiniteSet(h)
    /\ \A e \in h : e.tag \in Packets
    /\ \A a, b \in h : a.tag.idx = b.tag.idx => a = b

IsFlow(f, d) ==
    /\ InLine(d.queue) /\ d.queue # <<>>
    /\ \A x \in InFifo(d.queue) : x.flow = f

FlowsOK ==
    /\ DOMAIN priorities = DOMAIN data
    /\ \A f \in DOMAIN data :
        IsFlow(f, data[f]) /\ priorities[f] = FlowPriority(f, data[f])

\* The entries of a flow.
Mine(f, h) == {e \in h : e.tag.flow = f}

FqOK ==
    policy = "fq" =>
        /\ size = Cardinality(heap)
        /\ DOMAIN fq_data = {e.tag.flow : e \in heap}
        /\ \A e \in heap : e.den = 1 /\ e.insert_time = e.tag.arrive
        /\ \A f \in DOMAIN fq_data : fq_data[f].num_packets = Cardinality(Mine(f, heap))

SizeOK ==
    /\ IsFiniteSet(Waiting)
    /\ policy \in InorderPolicies => size = Cardinality(Waiting)

QueueOK == OneQueue /\ InLine(fifo) /\ IsHeap(heap) /\ FlowsOK /\ FqOK /\ SizeOK

LEMMA PolicyNames ==
    /\ InorderPolicies = {"sjf_inorder", "wsjf_inorder"}
    /\ \A x \in Policies : \/ x = "fcfs" \/ x \in {"sjf", "wsjf"} \/ x = "fq"
                           \/ x \in InorderPolicies
    /\ FlowOrderPolicies \subseteq Policies
    /\ NoQueue \notin Policies
    /\ "sjf" \notin FlowOrderPolicies /\ "wsjf" \notin FlowOrderPolicies
BY DEF InorderPolicies, Policies, FlowOrderPolicies, NoQueue

LEMMA EmptyLine == InLine(<<>>)
<1>1. <<>> \in Seq(Packets) /\ Len(<<>>) = 0
  BY EmptySeq
<1> QED BY <1>1 DEF InLine

(* Adding to and removing from a heap.                                     *)
LEMMA HeapFacts ==
    ASSUME NEW h, IsHeap(h)
    PROVE  /\ InHeap(h) \subseteq Packets
           /\ \A f : IsFiniteSet(Mine(f, h))
           /\ h = {} <=> Cardinality(h) = 0
           /\ h = {} <=> InHeap(h) = {}
           /\ Cardinality(h) \in Nat
           /\ \A f : Cardinality(Mine(f, h)) \in Nat
<1>1. \A f : Mine(f, h) \subseteq h
  BY DEF Mine
<1>2. \A f : IsFiniteSet(Mine(f, h))
  <2> TAKE f
  <2> DEFINE m == Mine(f, h)
  <2>1. m \subseteq h /\ IsFiniteSet(h)
    BY <1>1 DEF IsHeap
  <2> HIDE DEF m
  <2>2. IsFiniteSet(m)
    BY <2>1, FS_Subset
  <2> QED BY <2>2 DEF m
<1>3. \A f : Cardinality(Mine(f, h)) \in Nat
  BY <1>2, FS_CardinalityType
<1> QED BY <1>2, <1>3, FS_CardinalityType, FS_EmptySet DEF IsHeap, InHeap

LEMMA HeapPush ==
    ASSUME NEW h, IsHeap(h), NEW n, n.tag \in Packets,
           \A x \in InHeap(h) : x.idx < n.tag.idx
    PROVE  /\ n \notin h
           /\ IsHeap(h \cup {n})
           /\ InHeap(h \cup {n}) = InHeap(h) \cup {n.tag}
           /\ Cardinality(h \cup {n}) = Cardinality(h) + 1
<1>1. \A e \in h : e.tag \in Packets /\ e.tag.idx < n.tag.idx /\ e.tag.idx \in Nat /\ n.tag.idx \in Nat
  BY DEF InHeap, IsHeap, Packets
<1>2. n \notin h
  BY <1>1
<1>3. IsFiniteSet(h \cup {n}) /\ Cardinality(h \cup {n}) = Cardinality(h) + 1
  BY <1>2, FS_AddElement DEF IsHeap
<1>4. \A a, b \in h \cup {n} : a.tag.idx = b.tag.idx => a = b
  BY <1>1 DEF IsHeap
<1>5. IsHeap(h \cup {n})
  BY <1>3, <1>4 DEF IsHeap
<1>6. InHeap(h \cup {n}) = InHeap(h) \cup {n.tag}
  BY DEF InHeap
<1> QED BY <1>2, <1>3, <1>5, <1>6

LEMMA HeapPop ==
    ASSUME NEW h, IsHeap(h), NEW n \in h
    PROVE  /\ IsHeap(h \ {n})
           /\ n.tag \in InHeap(h)
           /\ InHeap(h \ {n}) = InHeap(h) \ {n.tag}
           /\ Cardinality(h \ {n}) = Cardinality(h) - 1
<1>1. IsFiniteSet(h \ {n}) /\ Cardinality(h \ {n}) = Cardinality(h) - 1
  BY FS_RemoveElement DEF IsHeap
<1>2. IsHeap(h \ {n})
  BY <1>1 DEF IsHeap
<1>3. \A e \in h : e.tag = n.tag => e = n
  BY DEF IsHeap
<1>4. InHeap(h \ {n}) = InHeap(h) \ {n.tag}
  BY <1>3 DEF InHeap
<1> QED BY <1>1, <1>2, <1>4 DEF InHeap

LEMMA MinePush ==
    ASSUME NEW h, IsHeap(h), NEW n, n \notin h
    PROVE  /\ \A f : f # n.tag.flow => Mine(f, h \cup {n}) = Mine(f, h)
           /\ Mine(n.tag.flow, h \cup {n}) = Mine(n.tag.flow, h) \cup {n}
           /\ Cardinality(Mine(n.tag.flow, h \cup {n})) = Cardinality(Mine(n.tag.flow, h)) + 1
<1>1. Mine(n.tag.flow, h \cup {n}) = Mine(n.tag.flow, h) \cup {n}
  BY DEF Mine
<1>2. n \notin Mine(n.tag.flow, h) /\ IsFiniteSet(Mine(n.tag.flow, h))
  <2>1. n \notin Mine(n.tag.flow, h)
    BY DEF Mine
  <2> QED BY <2>1, HeapFacts
<1>3. Cardinality(Mine(n.tag.flow, h) \cup {n}) = Cardinality(Mine(n.tag.flow, h)) + 1
  BY <1>2, FS_AddElement
<1>4. \A f : f # n.tag.flow => Mine(f, h \cup {n}) = Mine(f, h)
  BY DEF Mine
<1> QED BY <1>1, <1>3, <1>4

LEMMA MinePop ==
    ASSUME NEW h, IsHeap(h), NEW n \in h
    PROVE  /\ \A f : f # n.tag.flow => Mine(f, h \ {n}) = Mine(f, h)
           /\ n \in Mine(n.tag.flow, h)
           /\ Mine(n.tag.flow, h \ {n}) = Mine(n.tag.flow, h) \ {n}
           /\ Cardinality(Mine(n.tag.flow, h \ {n})) = Cardinality(Mine(n.tag.flow, h)) - 1
           /\ Mine(n.tag.flow, h \ {n}) = {} <=> Cardinality(Mine(n.tag.flow, h)) = 1
<1>1. Mine(n.tag.flow, h \ {n}) = Mine(n.tag.flow, h) \ {n}
  BY DEF Mine
<1>2. n \in Mine(n.tag.flow, h) /\ IsFiniteSet(Mine(n.tag.flow, h))
  <2>1. n \in Mine(n.tag.flow, h)
    BY DEF Mine
  <2> QED BY <2>1, HeapFacts
<1>3. /\ Cardinality(Mine(n.tag.flow, h) \ {n}) = Cardinality(Mine(n.tag.flow, h)) - 1
      /\ IsFiniteSet(Mine(n.tag.flow, h) \ {n})
  BY <1>2, FS_RemoveElement
<1>4. \A f : f # n.tag.flow => Mine(f, h \ {n}) = Mine(f, h)
  BY DEF Mine
<1>5. Cardinality(Mine(n.tag.flow, h)) \in Nat
  BY HeapFacts
<1>6. Mine(n.tag.flow, h) \ {n} = {} <=> Cardinality(Mine(n.tag.flow, h) \ {n}) = 0
  BY <1>3, FS_EmptySet
<1>7. Mine(n.tag.flow, h) \ {n} = {} <=> Cardinality(Mine(n.tag.flow, h)) = 1
  BY <1>3, <1>5, <1>6
<1>8. /\ Mine(n.tag.flow, h \ {n}) = {} <=> Cardinality(Mine(n.tag.flow, h)) = 1
      /\ Cardinality(Mine(n.tag.flow, h \ {n})) = Cardinality(Mine(n.tag.flow, h)) - 1
  BY <1>1, <1>3, <1>7
<1> QED BY <1>1, <1>2, <1>4, <1>8

-----------------------------------------------------------------------------
(* Every queue takes a newer packet and keeps the others.                  *)

Takes(p) ==
    /\ QueueOK'
    /\ Waiting' = Waiting \cup {p}
    /\ policy' = policy

HandsOut(p) ==
    /\ QueueOK'
    /\ p \in Waiting
    /\ Waiting' = Waiting \ {p}
    /\ policy' = policy

(* What a queue of another policy has not changed.                         *)
LEMMA FlowsKept ==
    ASSUME FlowsOK, UNCHANGED <<policy, data, priorities>>
    PROVE  FlowsOK'
<1>1. policy' = policy /\ data' = data /\ priorities' = priorities
  OBVIOUS
<1>2. \A f, d : FlowPriority(f, d)' = FlowPriority(f, d)
  BY <1>1 DEF FlowPriority, FlowWeight, MinHeapEntry
<1> QED BY <1>1, <1>2 DEF FlowsOK

LEMMA FqKept ==
    ASSUME policy # "fq", UNCHANGED policy
    PROVE  FqOK'
BY DEF FqOK

LEMMA WaitingSplit ==
    ASSUME QueueOK
    PROVE  /\ policy = "fcfs" => Waiting = InFifo(fifo)
           /\ policy \in {"sjf", "wsjf", "fq"} => Waiting = InHeap(heap)
           /\ policy \in InorderPolicies => Waiting = InFlows(data)
           /\ \A x \in Waiting : x \in Packets /\ x.idx \in Nat
<1>1. InFifo(fifo) \subseteq Packets /\ InHeap(heap) \subseteq Packets
  BY LineFacts, HeapFacts DEF QueueOK
<1>2. InFlows(data) \subseteq Packets
  <2> SUFFICES ASSUME NEW x \in InFlows(data) PROVE x \in Packets
    OBVIOUS
  <2>1. PICK f \in DOMAIN data : x \in InFifo(data[f].queue)
    BY FlowsMember
  <2> QED BY <2>1, LineFacts DEF QueueOK, FlowsOK, IsFlow
<1>3. policy # "fcfs" => InFifo(fifo) = {}
  BY EmptyParts DEF QueueOK, OneQueue
<1>4. policy \notin {"sjf", "wsjf", "fq"} => InHeap(heap) = {}
  BY EmptyParts DEF QueueOK, OneQueue
<1>5. policy \notin InorderPolicies => InFlows(data) = {}
  BY EmptyParts DEF QueueOK, OneQueue
<1>6. \A x \in Waiting : x \in Packets /\ x.idx \in Nat
  <2>1. Waiting \subseteq Packets
    BY <1>1, <1>2, WaitingParts
  <2> QED BY <2>1 DEF Packets
<1> QED BY <1>3, <1>4, <1>5, <1>6, WaitingParts, PolicyNames

LEMMA WaitingAdd ==
    ASSUME QueueOK, NEW p \in Packets, \A q \in Waiting : q.idx < p.idx,
           Waiting' = Waiting \cup {p}, policy' = policy,
           policy \in InorderPolicies => size' = size + 1
    PROVE  SizeOK'
<1>1. p \notin Waiting
  BY DEF Packets
<1>2. IsFiniteSet(Waiting')
      /\ Cardinality(Waiting') = Cardinality(Waiting) + 1
  BY <1>1, FS_AddElement DEF QueueOK, SizeOK
<1> QED BY <1>2 DEF QueueOK, SizeOK

LEMMA WaitingRemove ==
    ASSUME QueueOK, NEW p \in Waiting,
           Waiting' = Waiting \ {p}, policy' = policy,
           policy \in InorderPolicies => size' = size - 1
    PROVE  SizeOK'
<1>1. IsFiniteSet(Waiting')
      /\ Cardinality(Waiting') = Cardinality(Waiting) - 1
  BY FS_RemoveElement DEF QueueOK, SizeOK
<1> QED BY <1>1 DEF QueueOK, SizeOK

LEMMA FcfsTakes ==
    ASSUME QueueOK, NEW p \in Packets, \A q \in Waiting : q.idx < p.idx, FcfsPush(p)
    PROVE  Takes(p)
<1>1. policy = "fcfs" /\ policy' = policy /\ fifo' = Append(fifo, p)
  BY DEF FcfsPush
<1>2. Waiting = InFifo(fifo)
  BY <1>1, WaitingSplit
<1>3. InLine(fifo') /\ InFifo(fifo') = InFifo(fifo) \cup {p}
  BY <1>1, <1>2, AppendFacts DEF QueueOK
<1>4. Waiting' = Waiting \cup {p}
  BY <1>3, WaitingParts, WaitingPartsNext DEF FcfsPush
<1>5. SizeOK'
  BY <1>1, <1>4, WaitingAdd, PolicyNames
<1>6. OneQueue' /\ IsHeap(heap')
  BY <1>1 DEF FcfsPush, QueueOK, OneQueue
<1>7. FlowsOK' /\ FqOK'
  BY <1>1, FlowsKept, FqKept DEF FcfsPush, QueueOK
<1> QED BY <1>1, <1>3, <1>4, <1>5, <1>6, <1>7 DEF Takes, QueueOK

LEMMA FcfsGives ==
    ASSUME QueueOK, NEW p, FcfsPop(p), fifo # <<>>
    PROVE  /\ HandsOut(p)
           /\ \A q \in Waiting \ {p} : p.idx < q.idx
<1>1. policy = "fcfs" /\ policy' = policy /\ fifo' = Tail(fifo) /\ p = Head(fifo)
  BY DEF FcfsPop
<1>2. Waiting = InFifo(fifo)
  BY <1>1, WaitingSplit
<1>3. /\ InLine(fifo') /\ p \in InFifo(fifo) /\ InFifo(fifo') = InFifo(fifo) \ {p}
      /\ \A q \in InFifo(fifo) \ {p} : p.idx < q.idx
  BY <1>1, TailFacts DEF QueueOK
<1>4. Waiting' = Waiting \ {p}
  BY <1>1, <1>2, <1>3, WaitingPartsNext, EmptyParts DEF FcfsPop, QueueOK, OneQueue, InorderPolicies
<1>5. SizeOK'
  BY <1>1, <1>2, <1>3, <1>4, WaitingRemove, PolicyNames
<1>6. OneQueue' /\ IsHeap(heap')
  BY <1>1 DEF FcfsPop, QueueOK, OneQueue
<1>7. FlowsOK' /\ FqOK'
  BY <1>1, FlowsKept, FqKept DEF FcfsPop, QueueOK
<1> QED BY <1>1, <1>2, <1>3, <1>4, <1>5, <1>6, <1>7 DEF HandsOut, QueueOK

LEMMA ShortestFirstTakes ==
    ASSUME QueueOK, NEW p \in Packets, \A q \in Waiting : q.idx < p.idx, ShortestFirstPush(p)
    PROVE  Takes(p)
<1>1. PICK n : n.tag = p /\ heap' = heap \cup {n}
  <2> DEFINE n == MinHeapEntry(p, p.est, IF policy = "wsjf" THEN p.psize ELSE 1, p.arrive)
  <2>1. heap' = heap \cup {n}
    BY DEF ShortestFirstPush
  <2>2. n.tag = p
    BY DEF MinHeapEntry
  <2> HIDE DEF n
  <2> QED BY <2>1, <2>2
<1>2. policy \in {"sjf", "wsjf"} /\ policy' = policy
  BY DEF ShortestFirstPush
<1>3. Waiting = InHeap(heap)
  BY <1>2, WaitingSplit
<1>4. IsHeap(heap') /\ InHeap(heap') = InHeap(heap) \cup {p}
  BY <1>1, <1>3, HeapPush DEF QueueOK
<1>5. Waiting' = Waiting \cup {p}
  BY <1>4, WaitingParts, WaitingPartsNext DEF ShortestFirstPush
<1>6. SizeOK'
  BY <1>2, <1>5, WaitingAdd, PolicyNames
<1>7. OneQueue' /\ InLine(fifo')
  BY <1>2 DEF ShortestFirstPush, QueueOK, OneQueue
<1>8. FlowsOK' /\ FqOK'
  BY <1>2, FlowsKept, FqKept DEF ShortestFirstPush, QueueOK
<1> QED BY <1>2, <1>4, <1>5, <1>6, <1>7, <1>8 DEF Takes, QueueOK

LEMMA ShortestFirstGives ==
    ASSUME QueueOK, NEW p, ShortestFirstPop(p)
    PROVE  HandsOut(p)
<1>1. PICK n \in heap : n.tag = p /\ heap' = heap \ {n}
  BY DEF ShortestFirstPop, Tops
<1>2. policy \in {"sjf", "wsjf"} /\ policy' = policy
  BY DEF ShortestFirstPop
<1>3. Waiting = InHeap(heap)
  BY <1>2, WaitingSplit
<1>4. IsHeap(heap') /\ p \in InHeap(heap) /\ InHeap(heap') = InHeap(heap) \ {p}
  BY <1>1, HeapPop DEF QueueOK
<1>5. Waiting' = Waiting \ {p}
  BY <1>2, <1>3, <1>4, WaitingPartsNext, EmptyParts
     DEF ShortestFirstPop, QueueOK, OneQueue, InorderPolicies
<1>6. SizeOK'
  BY <1>2, <1>3, <1>4, <1>5, WaitingRemove, PolicyNames
<1>7. OneQueue' /\ InLine(fifo')
  BY <1>2 DEF ShortestFirstPop, QueueOK, OneQueue
<1>8. FlowsOK' /\ FqOK'
  BY <1>2, FlowsKept, FqKept DEF ShortestFirstPop, QueueOK
<1> QED BY <1>2, <1>3, <1>4, <1>5, <1>6, <1>7, <1>8 DEF HandsOut, QueueOK

LEMMA FqTakes ==
    ASSUME QueueOK, NEW p \in Packets, \A q \in Waiting : q.idx < p.idx, FqPush(p)
    PROVE  Takes(p)
<1> DEFINE n == MinHeapEntry(p, VirtualClock(p), 1, p.arrive)
           pushed == [num_packets |-> NumPackets(p.flow) + 1, virtual_clock |-> VirtualClock(p)]
<1>1. /\ policy = "fq" /\ policy' = policy
      /\ heap' = heap \cup {n} /\ size' = size + 1
      /\ fq_data' = With(fq_data, p.flow, pushed)
  BY DEF FqPush
<1>2. n.tag = p /\ n.den = 1 /\ n.insert_time = p.arrive
  BY DEF MinHeapEntry
<1>3. pushed.num_packets = NumPackets(p.flow) + 1
  OBVIOUS
<1> HIDE DEF n, pushed
<1>4. Waiting = InHeap(heap)
  BY <1>1, WaitingSplit
<1>5. /\ n \notin heap /\ IsHeap(heap') /\ InHeap(heap') = InHeap(heap) \cup {p}
      /\ Cardinality(heap') = Cardinality(heap) + 1
  BY <1>1, <1>2, <1>4, HeapPush DEF QueueOK
<1>6. Waiting' = Waiting \cup {p}
  BY <1>5, WaitingParts, WaitingPartsNext DEF FqPush
<1>7. SizeOK'
  BY <1>1, <1>6, WaitingAdd, PolicyNames
<1>8. /\ DOMAIN fq_data' = DOMAIN fq_data \cup {p.flow}
      /\ fq_data'[p.flow] = pushed
      /\ \A f \in DOMAIN fq_data \ {p.flow} : fq_data'[f] = fq_data[f]
  BY <1>1 DEF With
<1>9. FqOK'
  <2>1. /\ size = Cardinality(heap)
        /\ DOMAIN fq_data = {e.tag.flow : e \in heap}
        /\ \A e \in heap : e.den = 1 /\ e.insert_time = e.tag.arrive
        /\ \A f \in DOMAIN fq_data : fq_data[f].num_packets = Cardinality(Mine(f, heap))
    BY <1>1 DEF QueueOK, FqOK
  <2>2. NumPackets(p.flow) = Cardinality(Mine(p.flow, heap))
    <3>1. CASE p.flow \in DOMAIN fq_data
      BY <2>1, <3>1 DEF NumPackets
    <3>2. CASE p.flow \notin DOMAIN fq_data
      <4>1. Mine(p.flow, heap) = {}
        BY <2>1, <3>2 DEF Mine
      <4> QED BY <3>2, <4>1, FS_EmptySet DEF NumPackets
    <3> QED BY <3>1, <3>2
  <2>3. /\ \A f : f # p.flow => Mine(f, heap') = Mine(f, heap)
        /\ Cardinality(Mine(p.flow, heap')) = Cardinality(Mine(p.flow, heap)) + 1
    BY <1>1, <1>2, <1>5, MinePush DEF QueueOK
  <2>4. \A f \in DOMAIN fq_data' : fq_data'[f].num_packets = Cardinality(Mine(f, heap'))
    BY <1>3, <1>8, <2>1, <2>2, <2>3
  <2>5. size' = Cardinality(heap')
    BY <1>1, <1>5, <2>1
  <2>6. DOMAIN fq_data' = {e.tag.flow : e \in heap'}
    BY <1>1, <1>2, <1>8, <2>1
  <2>7. \A e \in heap' : e.den = 1 /\ e.insert_time = e.tag.arrive
    BY <1>1, <1>2, <2>1
  <2>8. \A f : Mine(f, heap)' = Mine(f, heap')
    BY DEF Mine
  <2> QED BY <2>4, <2>5, <2>6, <2>7, <2>8 DEF FqOK
<1>10. OneQueue' /\ InLine(fifo') /\ FlowsOK'
  <2>1. OneQueue' /\ InLine(fifo')
    BY <1>1 DEF FqPush, QueueOK, OneQueue
  <2> QED BY <2>1, FlowsKept DEF FqPush, QueueOK
<1> QED BY <1>1, <1>5, <1>6, <1>7, <1>9, <1>10 DEF Takes, QueueOK

LEMMA FqGives ==
    ASSUME QueueOK, NEW p, FqPop(p)
    PROVE  HandsOut(p)
<1>1. PICK n \in heap : n.tag = p /\ heap' = heap \ {n}
  BY DEF FqPop, Tops
<1>2. /\ policy = "fq" /\ policy' = policy /\ size' = size - 1
      /\ fq_data' = IF fq_data[p.flow].num_packets = 1
                    THEN Without(fq_data, p.flow)
                    ELSE [fq_data EXCEPT ![p.flow].num_packets = @ - 1]
  BY DEF FqPop
<1>3. Waiting = InHeap(heap)
  BY <1>2, WaitingSplit
<1>4. /\ IsHeap(heap') /\ p \in InHeap(heap) /\ InHeap(heap') = InHeap(heap) \ {p}
      /\ Cardinality(heap') = Cardinality(heap) - 1
  BY <1>1, HeapPop DEF QueueOK
<1>5. Waiting' = Waiting \ {p}
  BY <1>2, <1>3, <1>4, WaitingPartsNext, EmptyParts DEF FqPop, QueueOK, OneQueue, InorderPolicies
<1>6. SizeOK'
  BY <1>2, <1>3, <1>4, <1>5, WaitingRemove, PolicyNames
<1>7. /\ size = Cardinality(heap)
      /\ DOMAIN fq_data = {e.tag.flow : e \in heap}
      /\ \A e \in heap : e.den = 1 /\ e.insert_time = e.tag.arrive
      /\ \A f \in DOMAIN fq_data : fq_data[f].num_packets = Cardinality(Mine(f, heap))
  BY <1>2 DEF QueueOK, FqOK
<1>8. /\ \A f : f # p.flow => Mine(f, heap') = Mine(f, heap)
      /\ Cardinality(Mine(p.flow, heap')) = Cardinality(Mine(p.flow, heap)) - 1
      /\ Mine(p.flow, heap') = {} <=> Cardinality(Mine(p.flow, heap)) = 1
  <2>1. IsHeap(heap)
    BY DEF QueueOK
  <2>2. /\ \A f : f # n.tag.flow => Mine(f, heap \ {n}) = Mine(f, heap)
        /\ Cardinality(Mine(n.tag.flow, heap \ {n})) = Cardinality(Mine(n.tag.flow, heap)) - 1
        /\ Mine(n.tag.flow, heap \ {n}) = {} <=> Cardinality(Mine(n.tag.flow, heap)) = 1
    BY <2>1, MinePop
  <2> QED BY <1>1, <2>2
<1>9. p.flow \in DOMAIN fq_data /\ fq_data[p.flow].num_packets = Cardinality(Mine(p.flow, heap))
  BY <1>1, <1>7
<1>10. FqOK'
  <2>1. DOMAIN fq_data' = {e.tag.flow : e \in heap'}
    <3>1. p.flow \in {e.tag.flow : e \in heap'} <=> Mine(p.flow, heap') # {}
      BY DEF Mine
    <3>2. DOMAIN fq_data' = IF fq_data[p.flow].num_packets = 1 THEN DOMAIN fq_data \ {p.flow}
                            ELSE DOMAIN fq_data
      BY <1>2 DEF Without
    <3>3. \A f : f # p.flow => (f \in {e.tag.flow : e \in heap'} <=> f \in {e.tag.flow : e \in heap})
      BY <1>1
    <3> QED BY <1>7, <1>8, <1>9, <3>1, <3>2, <3>3
  <2>2. \A f \in DOMAIN fq_data' : fq_data'[f].num_packets = Cardinality(Mine(f, heap'))
    <3>1. CASE fq_data[p.flow].num_packets = 1
      BY <1>2, <1>7, <1>8, <3>1 DEF Without
    <3>2. CASE fq_data[p.flow].num_packets # 1
      BY <1>2, <1>7, <1>8, <1>9, <3>2
    <3> QED BY <3>1, <3>2
  <2>3. size' = Cardinality(heap')
    BY <1>2, <1>4, <1>7
  <2>4. \A e \in heap' : e.den = 1 /\ e.insert_time = e.tag.arrive
    BY <1>1, <1>7
  <2>5. \A f : Mine(f, heap)' = Mine(f, heap')
    BY DEF Mine
  <2> QED BY <2>1, <2>2, <2>3, <2>4, <2>5 DEF FqOK
<1>11. OneQueue' /\ InLine(fifo') /\ FlowsOK'
  <2>1. OneQueue' /\ InLine(fifo')
    BY <1>2 DEF FqPop, QueueOK, OneQueue
  <2> QED BY <2>1, FlowsKept DEF FqPop, QueueOK
<1> QED BY <1>2, <1>3, <1>4, <1>5, <1>6, <1>10, <1>11 DEF HandsOut, QueueOK

\* The metadata of the flows, without the priorities.
AllFlows(d) == \A f \in DOMAIN d : IsFlow(f, d[f])

LEMMA FlowsFacts ==
    ASSUME NEW d, AllFlows(d)
    PROVE  /\ \A f \in DOMAIN d : \A x \in InFifo(d[f].queue) : x \in Packets /\ x.flow = f
           /\ \A x \in InFlows(d) : x.flow \in DOMAIN d /\ x \in InFifo(d[x.flow].queue)
           /\ InFlows(d) = {} <=> DOMAIN d = {}
<1>1. \A f \in DOMAIN d : InLine(d[f].queue)
  BY DEF AllFlows, IsFlow
<1>2. \A f \in DOMAIN d : InFifo(d[f].queue) \subseteq Packets
  BY <1>1, LineFacts
<1>3. \A f \in DOMAIN d : \A x \in InFifo(d[f].queue) : x \in Packets /\ x.flow = f
  BY <1>2 DEF AllFlows, IsFlow
<1>4. \A f \in DOMAIN d : d[f].queue # <<>>
  BY DEF AllFlows, IsFlow
<1>5. \A f \in DOMAIN d : InFifo(d[f].queue) # {}
  BY <1>1, <1>4, LineFacts
<1>6. \A x : x \in InFlows(d) <=> \E f \in DOMAIN d : x \in InFifo(d[f].queue)
  BY FlowsMember
<1>7. \A x \in InFlows(d) : x.flow \in DOMAIN d /\ x \in InFifo(d[x.flow].queue)
  BY <1>3, <1>6
<1>8. InFlows(d) = {} <=> DOMAIN d = {}
  <2>1. ASSUME NEW f \in DOMAIN d PROVE InFlows(d) # {}
    <3>1. PICK x : x \in InFifo(d[f].queue)
      BY <1>5
    <3> QED BY <1>6, <3>1
  <2>2. DOMAIN d = {} => InFlows(d) = {}
    BY EmptyParts
  <2> QED BY <2>1, <2>2
<1> QED BY <1>3, <1>7, <1>8

LEMMA FlowsPush ==
    ASSUME NEW d, AllFlows(d), NEW p \in Packets, \A x \in InFlows(d) : x.idx < p.idx,
           NEW v, v.queue = Append(IF p.flow \in DOMAIN d THEN d[p.flow].queue ELSE <<>>, p)
    PROVE  /\ AllFlows(With(d, p.flow, v))
           /\ InFlows(With(d, p.flow, v)) = InFlows(d) \cup {p}
<1> DEFINE q == IF p.flow \in DOMAIN d THEN d[p.flow].queue ELSE <<>>
           e == With(d, p.flow, v)
<1>1. InLine(q) /\ \A x \in InFifo(q) : x.idx < p.idx /\ x.flow = p.flow
  <2>1. CASE p.flow \in DOMAIN d
    <3>1. q = d[p.flow].queue
      BY <2>1
    <3>2. \A x \in InFifo(q) : x \in InFlows(d)
      BY <2>1, <3>1, FlowsMember
    <3> QED BY <2>1, <3>1, <3>2 DEF AllFlows, IsFlow
  <2>2. CASE p.flow \notin DOMAIN d
    <3>1. q = <<>>
      BY <2>2
    <3> QED BY <3>1, EmptyParts, EmptyLine
  <2> QED BY <2>1, <2>2
<1>2. v.queue = Append(q, p)
  OBVIOUS
<1>3. DOMAIN e = DOMAIN d \cup {p.flow} /\ e[p.flow] = v /\ \A f \in DOMAIN d \ {p.flow} : e[f] = d[f]
  BY DEF With
<1>4. \A x : x \in InFifo(q) <=> p.flow \in DOMAIN d /\ x \in InFifo(d[p.flow].queue)
  BY EmptyParts
<1> HIDE DEF q, e
<1>5. InLine(v.queue) /\ InFifo(v.queue) = InFifo(q) \cup {p} /\ v.queue # <<>>
  BY <1>1, <1>2, AppendFacts
<1>6. AllFlows(e)
  <2>1. IsFlow(p.flow, v)
    BY <1>1, <1>5 DEF IsFlow
  <2> QED BY <1>3, <2>1 DEF AllFlows
<1>7. \A x : x \in InFlows(e) <=> x \in InFlows(d) \/ x = p
  <2>1. \A x : x \in InFlows(e) <=> \E f \in DOMAIN e : x \in InFifo(e[f].queue)
    BY FlowsMember
  <2>2. \A x : x \in InFlows(d) <=> \E f \in DOMAIN d : x \in InFifo(d[f].queue)
    BY FlowsMember
  <2> QED BY <1>3, <1>4, <1>5, <2>1, <2>2
<1>8. InFlows(e) = InFlows(d) \cup {p}
  BY <1>7
<1> QED BY <1>6, <1>8 DEF e

\* What is left of the flows when flow f has popped its head.
Popped(d, f, v) == IF v.queue # <<>> THEN [d EXCEPT ![f] = v] ELSE Without(d, f)

LEMMA FlowsPop ==
    ASSUME NEW d, AllFlows(d), NEW f \in DOMAIN d, NEW v, v.queue = Tail(d[f].queue)
    PROVE  /\ AllFlows(Popped(d, f, v))
           /\ Head(d[f].queue) \in InFlows(d) /\ Head(d[f].queue).flow = f
           /\ InFlows(Popped(d, f, v)) = InFlows(d) \ {Head(d[f].queue)}
           /\ \A x \in InFlows(d) \ {Head(d[f].queue)} : x.flow = f => Head(d[f].queue).idx < x.idx
<1> DEFINE e == Popped(d, f, v)
           q == d[f].queue
           p == Head(q)
<1>1. InLine(q) /\ q # <<>> /\ \A x \in InFifo(q) : x.flow = f
  BY DEF AllFlows, IsFlow
<1>2. /\ InLine(v.queue) /\ p \in InFifo(q)
      /\ InFifo(v.queue) = InFifo(q) \ {p}
      /\ \A x \in InFifo(q) \ {p} : p.idx < x.idx
  BY <1>1, TailFacts
<1>3. /\ v.queue # <<>> => DOMAIN e = DOMAIN d /\ e[f] = v
      /\ v.queue = <<>> => DOMAIN e = DOMAIN d \ {f} /\ InFifo(v.queue) = {}
      /\ \A g \in DOMAIN d \ {f} : e[g] = d[g]
  BY EmptyParts DEF Popped, Without
<1>4. q = d[f].queue
  OBVIOUS
<1>5. \A g \in DOMAIN d : \A x \in InFifo(d[g].queue) : x.flow = g
  BY FlowsFacts
<1>6. p \in InFlows(d) /\ p.flow = f
  BY <1>1, <1>2, FlowsMember
<1> HIDE DEF e, q, p
<1>7. AllFlows(e)
  <2>1. v.queue # <<>> => IsFlow(f, v)
    BY <1>1, <1>2 DEF IsFlow
  <2>2. \A g \in DOMAIN d \ {f} : IsFlow(g, d[g])
    BY DEF AllFlows
  <2> QED BY <1>3, <2>1, <2>2 DEF AllFlows
<1>8. \A x : x \in InFlows(e) <=> x \in InFlows(d) /\ x # p
  <2>1. \A x : x \in InFlows(e) <=> \E g \in DOMAIN e : x \in InFifo(e[g].queue)
    BY FlowsMember
  <2>2. \A x : x \in InFlows(d) <=> \E g \in DOMAIN d : x \in InFifo(d[g].queue)
    BY FlowsMember
  <2>3. \A x : x \in InFifo(v.queue) <=> x \in InFifo(d[f].queue) /\ x # p
    BY <1>2, <1>4
  <2>4. \A g \in DOMAIN d \ {f} : p \notin InFifo(d[g].queue)
    BY <1>5, <1>6
  <2>5. CASE v.queue # <<>>
    BY <1>3, <2>1, <2>2, <2>3, <2>4, <2>5
  <2>6. CASE v.queue = <<>>
    BY <1>3, <2>1, <2>2, <2>3, <2>4, <2>6
  <2> QED BY <2>5, <2>6
<1>9. \A x \in InFlows(d) : x.flow = f => x \in InFifo(q)
  BY <1>4, FlowsFacts
<1>10. InFlows(e) = InFlows(d) \ {p}
  BY <1>8
<1>11. \A x \in InFlows(d) \ {p} : x.flow = f => p.idx < x.idx
  BY <1>2, <1>9
<1> QED BY <1>6, <1>7, <1>10, <1>11 DEF e, p, q

LEMMA PriorityNext ==
    ASSUME policy' = policy
    PROVE  \A f : FlowPriority(f, data[f])' = FlowPriority(f, data'[f])
BY DEF FlowPriority, FlowWeight, MinHeapEntry

LEMMA InorderTakes ==
    ASSUME QueueOK, NEW p \in Packets, \A q \in Waiting : q.idx < p.idx, InorderPush(p)
    PROVE  Takes(p)
<1> DEFINE v == FlowPush(IF p.flow \in DOMAIN data THEN data[p.flow] ELSE NewFlow, p)
           e == FlowPriority(p.flow, v)
<1>1. /\ policy \in InorderPolicies /\ policy' = policy /\ size' = size + 1
      /\ data' = With(data, p.flow, v)
      /\ priorities' = With(priorities, p.flow, e)
  BY DEF InorderPush
<1>2. v.queue = Append(IF p.flow \in DOMAIN data THEN data[p.flow].queue ELSE <<>>, p)
  BY DEF FlowPush, NewFlow
<1> HIDE DEF v
<1>3. Waiting = InFlows(data)
  BY <1>1, WaitingSplit
<1>4. AllFlows(data)
  BY DEF QueueOK, FlowsOK, AllFlows
<1>5. AllFlows(data') /\ InFlows(data') = InFlows(data) \cup {p}
  <2>1. /\ AllFlows(With(data, p.flow, v))
        /\ InFlows(With(data, p.flow, v)) = InFlows(data) \cup {p}
    BY <1>2, <1>3, <1>4, FlowsPush
  <2> QED BY <1>1, <2>1
<1>6. Waiting' = Waiting \cup {p}
  BY <1>5, WaitingParts, WaitingPartsNext DEF InorderPush
<1>7. SizeOK'
  BY <1>1, <1>6, WaitingAdd
<1>8. FlowsOK'
  <2>1. /\ DOMAIN data' = DOMAIN data \cup {p.flow} /\ data'[p.flow] = v
        /\ \A f \in DOMAIN data \ {p.flow} : data'[f] = data[f]
    BY <1>1 DEF With
  <2> HIDE DEF e
  <2>2. /\ DOMAIN priorities' = DOMAIN priorities \cup {p.flow} /\ priorities'[p.flow] = e
        /\ \A f \in DOMAIN priorities \ {p.flow} : priorities'[f] = priorities[f]
    BY <1>1 DEF With
  <2>3. DOMAIN priorities = DOMAIN data /\ \A f \in DOMAIN data : priorities[f] = FlowPriority(f, data[f])
    BY DEF QueueOK, FlowsOK
  <2>4. e = FlowPriority(p.flow, data'[p.flow])
    BY <2>1 DEF e
  <2>5. \A f \in DOMAIN data' : priorities'[f] = FlowPriority(f, data'[f])
    BY <2>1, <2>2, <2>3, <2>4
  <2>6. \A f : FlowPriority(f, data[f])' = FlowPriority(f, data'[f])
    BY <1>1, PriorityNext
  <2> QED BY <1>5, <2>1, <2>2, <2>3, <2>5, <2>6 DEF FlowsOK, AllFlows
<1>9. OneQueue' /\ InLine(fifo') /\ IsHeap(heap')
  BY <1>1 DEF InorderPush, QueueOK, OneQueue, InorderPolicies
<1>10. FqOK'
  BY <1>1, FqKept, PolicyNames
<1> QED BY <1>1, <1>6, <1>7, <1>8, <1>9, <1>10 DEF Takes, QueueOK

LEMMA InorderGives ==
    ASSUME QueueOK, NEW p, InorderPop(p)
    PROVE  /\ HandsOut(p)
           /\ \A q \in Waiting \ {p} : q.flow = p.flow => p.idx < q.idx
<1>1. DOMAIN priorities = DOMAIN data /\ \A f \in DOMAIN data : priorities[f] = FlowPriority(f, data[f])
  BY DEF QueueOK, FlowsOK
<1>2. PICK top \in Tops(Entries(priorities)) :
        LET f == top.tag
            popped == FlowPop(data[f])
        IN  /\ policy \in InorderPolicies
            /\ p = Head(data[f].queue)
            /\ IF popped.queue # <<>>
               THEN /\ data' = [data EXCEPT ![f] = popped]
                    /\ priorities' = [priorities EXCEPT ![f] = FlowPriority(f, popped)]
               ELSE /\ data' = Without(data, f)
                    /\ priorities' = Without(priorities, f)
            /\ size' = size - 1
            /\ UNCHANGED <<policy, fifo, heap, fq_data>>
  BY DEF InorderPop
<1>3. PICK f \in DOMAIN data : top = FlowPriority(f, data[f])
  BY <1>1 DEF Tops, Entries
<1>4. top.tag = f
  BY <1>3 DEF FlowPriority, MinHeapEntry
<1> DEFINE v == FlowPop(data[f])
           e == FlowPriority(f, v)
<1>5. /\ policy \in InorderPolicies /\ policy' = policy /\ size' = size - 1
      /\ p = Head(data[f].queue)
      /\ IF v.queue # <<>>
         THEN data' = [data EXCEPT ![f] = v] /\ priorities' = [priorities EXCEPT ![f] = e]
         ELSE data' = Without(data, f) /\ priorities' = Without(priorities, f)
      /\ fifo' = fifo /\ heap' = heap
  BY <1>2, <1>4
<1>6. v.queue = Tail(data[f].queue)
  BY DEF FlowPop
<1> HIDE DEF v
<1>7. Waiting = InFlows(data)
  BY <1>5, WaitingSplit
<1>8. AllFlows(data)
  BY DEF QueueOK, FlowsOK, AllFlows
<1>9. data' = Popped(data, f, v)
  BY <1>5 DEF Popped
<1>10. /\ AllFlows(data') /\ p \in InFlows(data) /\ p.flow = f
       /\ InFlows(data') = InFlows(data) \ {p}
       /\ \A x \in InFlows(data) \ {p} : x.flow = f => p.idx < x.idx
  <2>1. /\ AllFlows(Popped(data, f, v))
        /\ Head(data[f].queue) \in InFlows(data) /\ Head(data[f].queue).flow = f
        /\ InFlows(Popped(data, f, v)) = InFlows(data) \ {Head(data[f].queue)}
        /\ \A x \in InFlows(data) \ {Head(data[f].queue)} : x.flow = f => Head(data[f].queue).idx < x.idx
    BY <1>6, <1>8, FlowsPop
  <2> QED BY <1>5, <1>9, <2>1
<1>11. Waiting' = Waiting \ {p}
  <2>1. InFifo(fifo') = {} /\ InHeap(heap') = {}
    BY <1>5, EmptyParts DEF QueueOK, OneQueue, InorderPolicies
  <2> QED BY <1>7, <1>10, <2>1, WaitingPartsNext
<1>12. SizeOK'
  BY <1>5, <1>7, <1>10, <1>11, WaitingRemove
<1>13. FlowsOK'
  <2>1. /\ DOMAIN data' = IF v.queue # <<>> THEN DOMAIN data ELSE DOMAIN data \ {f}
        /\ v.queue # <<>> => data'[f] = v
        /\ \A g \in DOMAIN data' \ {f} : data'[g] = data[g]
    BY <1>5 DEF Without
  <2> HIDE DEF e
  <2>2. /\ DOMAIN priorities' = IF v.queue # <<>> THEN DOMAIN priorities ELSE DOMAIN priorities \ {f}
        /\ v.queue # <<>> => priorities'[f] = e
        /\ \A g \in DOMAIN priorities' \ {f} : priorities'[g] = priorities[g]
    BY <1>1, <1>5 DEF Without
  <2>3. v.queue # <<>> => e = FlowPriority(f, data'[f])
    BY <2>1 DEF e
  <2>4. DOMAIN priorities' = DOMAIN data'
    BY <1>1, <2>1, <2>2
  <2>5. \A g \in DOMAIN data' : priorities'[g] = FlowPriority(g, data'[g])
    <3> SUFFICES ASSUME NEW g \in DOMAIN data' PROVE priorities'[g] = FlowPriority(g, data'[g])
      OBVIOUS
    <3>1. g \in DOMAIN data
      BY <2>1
    <3>2. CASE g = f
      <4>1. v.queue # <<>>
        BY <2>1, <3>2
      <4> QED BY <2>2, <2>3, <3>2, <4>1
    <3>3. CASE g # f
      BY <1>1, <2>1, <2>2, <2>4, <3>1, <3>3
    <3> QED BY <3>2, <3>3
  <2>6. \A g : FlowPriority(g, data[g])' = FlowPriority(g, data'[g])
    BY <1>5, PriorityNext
  <2> QED BY <1>10, <2>4, <2>5, <2>6 DEF FlowsOK, AllFlows
<1>14. OneQueue' /\ InLine(fifo') /\ IsHeap(heap')
  BY <1>2, <1>5 DEF QueueOK, OneQueue, InorderPolicies
<1>15. FqOK'
  BY <1>5, FqKept, PolicyNames
<1>16. HandsOut(p)
  BY <1>5, <1>7, <1>10, <1>11, <1>12, <1>13, <1>14, <1>15 DEF HandsOut, QueueOK
<1> QED BY <1>7, <1>10, <1>16

(* What the simulator needs of its queue, whatever the policy.             *)
LEMMA PushFacts ==
    ASSUME QueueOK, NEW p \in Packets, \A q \in Waiting : q.idx < p.idx, Push(p)
    PROVE  Takes(p)
BY FcfsTakes, ShortestFirstTakes, FqTakes, InorderTakes DEF Push

LEMMA EmptyFacts ==
    ASSUME QueueOK, policy \in Policies
    PROVE  QueueEmpty <=> Waiting = {}
<1>1. CASE policy = "fcfs"
  <2>1. Waiting = {} <=> fifo = <<>>
    BY <1>1, WaitingSplit, LineFacts DEF QueueOK
  <2> QED BY <1>1, <2>1 DEF QueueEmpty
<1>2. CASE policy \in {"sjf", "wsjf"}
  <2>1. Waiting = {} <=> heap = {}
    BY <1>2, WaitingSplit, HeapFacts DEF QueueOK
  <2> QED BY <1>2, <2>1 DEF QueueEmpty
<1>3. CASE policy = "fq"
  <2>1. Waiting = {} <=> Cardinality(heap) = 0
    BY <1>3, WaitingSplit, HeapFacts DEF QueueOK
  <2>2. size = Cardinality(heap)
    BY <1>3 DEF QueueOK, FqOK
  <2> QED BY <1>3, <2>1, <2>2 DEF QueueEmpty
<1>4. CASE policy \in InorderPolicies
  <2>1. Waiting = {} <=> Cardinality(Waiting) = 0
    BY FS_EmptySet DEF QueueOK, SizeOK
  <2>2. size = Cardinality(Waiting)
    BY <1>4 DEF QueueOK, SizeOK
  <2> QED BY <1>4, <2>1, <2>2, PolicyNames DEF QueueEmpty
<1> QED BY <1>1, <1>2, <1>3, <1>4, PolicyNames

LEMMA PopFacts ==
    ASSUME QueueOK, policy \in Policies, ~QueueEmpty, NEW p, Pop(p)
    PROVE  HandsOut(p)
<1>1. FcfsPop(p) => fifo # <<>>
  BY DEF FcfsPop, QueueEmpty
<1> QED BY <1>1, FcfsGives, ShortestFirstGives, FqGives, InorderGives DEF Pop

-----------------------------------------------------------------------------
(* What parsing has checked of the configuration.                          *)

LEMMA DivNat ==
    ASSUME NEW a \in Nat, NEW b \in Nat \ {0}
    PROVE  a \div b \in Nat
OBVIOUS

LEMMA ModFacts ==
    ASSUME NEW a \in Nat, NEW b \in Nat \ {0}
    PROVE  a % b \in Nat /\ a % b < b
OBVIOUS

LEMMA MulMonotone ==
    ASSUME NEW a \in Nat, NEW b \in Nat, NEW c \in Nat, a <= b
    PROVE  a * c <= b * c
<1> DEFINE d == b - a
<1>1. d \in Nat /\ b = a + d
  OBVIOUS
<1> HIDE DEF d
<1>2. (a + d) * c = a * c + d * c /\ d * c \in Nat /\ a * c \in Nat
  BY <1>1
<1> QED BY <1>1, <1>2

Iat(c) == InnocentIat(c.innocent_traffic, c.dry)
AttackPeriod(c) == AttackIat(AttackTraffic(c), c.dry)
IsAttacked(c) == Attacks(AttackTraffic(c), c.dry)
AttackFlows(c) == Lookup(AttackTraffic(c), "num_flows", 1)

LEMMA ConfigFacts ==
    ASSUME NEW c \in Configs, ~Refused(c)
    PROVE  /\ PolicyOf(c) \in Policies
           /\ IsFlowOrderRequired(c.application) => PolicyOf(c) \in FlowOrderPolicies
           /\ Iat(c) \in Nat /\ Iat(c) > 0
           /\ MaxArrivals(c) \in Nat /\ MaxArrivals(c) * Iat(c) <= kDblPosInfty
           /\ NumFlows(c.innocent_traffic) \in Nat \ {0}
           /\ AttackFlows(c) \in Nat \ {0}
           /\ \A n \in Nat : n < NumFlows(c.innocent_traffic) + AttackFlows(c) => n \in Flows
           /\ ~IsAttacked(c) => AttackPeriod(c) = kDblPosInfty
           /\ IsAttacked(c) =>
                /\ AttackPeriod(c) \in Nat /\ AttackPeriod(c) > 0
                /\ AttackTraffic(c).job_size_ns \in Nat
                /\ AttackTraffic(c).packet_size_bits \in Nat
           /\ kDblPosInfty \in Nat
<1>1. PolicyOf(c) \in Policies
  BY PolicyNames DEF Refused, QueueRefused, PolicyOf, Policies
<1>2. IsFlowOrderRequired(c.application) => PolicyOf(c) \in FlowOrderPolicies
  BY DEF Refused, ServerRefused
<1>3. /\ Iat(c) \in 1 .. kDblPosInfty - 1
      /\ MaxArrivals(c) \in Nat /\ MaxArrivals(c) * Iat(c) <= kDblPosInfty
      /\ NumFlows(c.innocent_traffic) \in Nat \ {0}
      /\ AttackFlows(c) \in Nat \ {0}
      /\ IsAttacked(c) => {AttackTraffic(c).rate_bps, AttackTraffic(c).job_size_ns,
                           AttackTraffic(c).packet_size_bits} \subseteq Nat
  BY ConfigsAssumption DEF Iat, AttackFlows, IsAttacked
<1>4. Iat(c) \in Nat /\ Iat(c) > 0 /\ kDblPosInfty \in Nat
  BY <1>3, UnitsAssumption
<1>5. 0 .. NumFlows(c.innocent_traffic) + AttackFlows(c) - 1 \subseteq Flows
  BY FlowsAssumption DEF AttackFlows
<1>6. \A n \in Nat : n < NumFlows(c.innocent_traffic) + AttackFlows(c) => n \in Flows
  BY <1>3, <1>5
<1>7. ~IsAttacked(c) => AttackPeriod(c) = kDblPosInfty
  BY DEF IsAttacked, AttackPeriod, AttackIat
<1>8. ASSUME IsAttacked(c)
      PROVE  AttackPeriod(c) \in Nat /\ AttackPeriod(c) > 0
  <2> DEFINE t == AttackTraffic(c)
             rate == t.rate_bps
             psize == t.packet_size_bits
  <2>1. rate \in Nat /\ psize \in Nat
    BY <1>3, <1>8
  <2>2. Lookup(t, "rate_bps", 0) > 0
    BY <1>8 DEF IsAttacked, Attacks
  <2>3. AttackPeriod(c) = InterArrivalTime(psize, rate)
    BY <1>8 DEF AttackPeriod, AttackIat, IsAttacked
  <2>4. AttackPeriod(c) # 0
    BY DEF Refused, AttackRefused, Calibrates, AttackPeriod
  <2> HIDE DEF t, rate, psize
  <2>5. kNanosecsPerSec * psize \in Nat
    BY <2>1, UnitsAssumption
  <2>6. InterArrivalTime(psize, rate) \in Nat
    BY <1>4, <2>1, <2>5, DivNat DEF InterArrivalTime
  <2> QED BY <2>3, <2>4, <2>6
<1> QED BY <1>1, <1>2, <1>3, <1>4, <1>6, <1>7, <1>8

-----------------------------------------------------------------------------
(* The inductive invariant.                                                *)

NumbersOK ==
    /\ config \in Configs
    /\ phase \in {"config", "refused", "running", "aborted", "done"}
    /\ is_busy \in BOOLEAN
    /\ packet \in Packets \cup {NoPacket}
    /\ trace_left \in Nat /\ at_innocent \in Nat /\ at_attack \in Nat
    /\ depart_time \in Nat
    /\ num_arrivals \in Nat /\ num_departures \in Nat /\ num_innocent_arrivals \in Nat
    /\ steady_state_ns \in Nat /\ ss_last_depart \in Nat

\* Every packet that arrived has left, is served or waits.
PacketsCounted ==
    num_arrivals - num_departures = Cardinality(Waiting) + IF is_busy THEN 1 ELSE 0

\* Arrivals of either kind come at their times, and stop.
TrafficOK ==
    /\ num_innocent_arrivals <= num_arrivals
    /\ at_innocent = num_innocent_arrivals * Iat(config)
    /\ num_innocent_arrivals + (IF UsesTrace THEN trace_left ELSE 0) <= MaxArrivals(config)
    /\ ~IsAttacked(config) => at_attack = kDblPosInfty

\* Packets that wait have arrived, the older of a flow before the younger, and
\* before the next of their kind; and the server is busy.
ArrivedOK ==
    /\ \A p \in Waiting :
        /\ is_busy
        /\ p.idx < num_arrivals
        /\ p.innocent <=> p.flow < NumInnocentFlows
        /\ p.arrive < IF p.innocent THEN at_innocent ELSE at_attack
        /\ p.arrive <= depart_time
    /\ \A p, q \in Waiting : p.idx < q.idx /\ p.flow = q.flow => p.arrive < q.arrive

\* The server is never late.
ServerOK ==
    /\ is_busy => packet \in Packets /\ packet.idx < num_arrivals
                    /\ packet.arrive + packet.actual <= depart_time
    /\ ~is_busy /\ MoreArrivals => NextArrivalTime >= depart_time

Unstarted ==
    /\ policy = NoQueue /\ Waiting = {} /\ ~is_busy
    /\ num_arrivals = 0 /\ num_departures = 0 /\ num_innocent_arrivals = 0
    /\ at_innocent = 0 /\ at_attack = 0 /\ depart_time = 0

Started ==
    /\ ~Refused(config) /\ policy = PolicyOf(config)
    /\ PacketsCounted /\ TrafficOK /\ ArrivedOK /\ ServerOK

IsStarted == phase \notin {"config", "refused"}

IInv ==
    /\ NumbersOK
    /\ QueueOK
    /\ IF IsStarted THEN Started ELSE Unstarted

LEMMA QueueTypes ==
    ASSUME QueueOK, policy \in Policies \cup {NoQueue}
    PROVE  size \in Nat
<1>1. CASE policy = "fq"
  BY <1>1, HeapFacts DEF QueueOK, FqOK
<1>2. CASE policy \in InorderPolicies
  BY <1>2, FS_CardinalityType DEF QueueOK, SizeOK
<1>3. CASE policy \notin {"fq"} \cup InorderPolicies
  BY <1>3 DEF QueueOK, OneQueue
<1> QED BY <1>1, <1>2, <1>3

LEMMA WaitingNumber ==
    ASSUME QueueOK
    PROVE  Cardinality(Waiting) \in Nat /\ (Cardinality(Waiting) = 0 <=> Waiting = {})
BY FS_CardinalityType, FS_EmptySet DEF QueueOK, SizeOK

LEMMA TypeFacts ==
    ASSUME IInv
    PROVE  TypeOK
<1>1. policy \in IF phase \in {"config", "refused"} THEN {NoQueue} ELSE Policies
  BY ConfigFacts DEF IInv, IsStarted, Started, Unstarted, NumbersOK
<1>2. size \in Nat
  BY <1>1, QueueTypes DEF IInv
<1>3. Waiting \subseteq Packets
  BY WaitingSplit DEF IInv
<1>4. /\ fifo # <<>> => policy = "fcfs"
      /\ heap # {} => policy \in {"sjf", "wsjf", "fq"}
      /\ DOMAIN fq_data # {} => policy = "fq"
      /\ DOMAIN data # {} => policy \in InorderPolicies
  BY DEF IInv, QueueOK, OneQueue
<1> QED BY <1>1, <1>2, <1>3, <1>4 DEF TypeOK, IInv, NumbersOK

LEMMA AssertFacts ==
    ASSUME IInv
    PROVE  AssertsHold
<1>1. CASE ~IsStarted
  <2>1. size = 0 /\ policy = NoQueue
    BY <1>1 DEF IInv, Unstarted, QueueOK, OneQueue, NoQueue, InorderPolicies
  <2>2. QueueEmpty
    BY <2>1 DEF QueueEmpty, NoQueue
  <2> QED BY <1>1, <2>2 DEF AssertsHold, IsStarted, TakesArrival
<1>2. CASE IsStarted
  <2>1. Started /\ NumbersOK /\ QueueOK
    BY <1>2 DEF IInv
  <2>2. policy \in Policies
    BY <2>1, ConfigFacts DEF Started, NumbersOK
  <2>3. QueueEmpty <=> Waiting = {}
    BY <2>1, <2>2, EmptyFacts
  <2>4. Waiting # {} => is_busy
    BY <2>1 DEF Started, ArrivedOK
  <2>5. num_arrivals = num_departures <=> Waiting = {} /\ ~is_busy
    <3> DEFINE w == Cardinality(Waiting)
    <3>1. w \in Nat /\ (w = 0 <=> Waiting = {})
      BY <2>1, WaitingNumber
    <3>2. num_arrivals - num_departures = w + IF is_busy THEN 1 ELSE 0
      BY <2>1 DEF Started, PacketsCounted
    <3>3. num_arrivals \in Nat /\ num_departures \in Nat /\ is_busy \in BOOLEAN
      BY <2>1 DEF NumbersOK
    <3> HIDE DEF w
    <3>4. num_arrivals = num_departures <=> w = 0 /\ ~is_busy
      BY <3>1, <3>2, <3>3
    <3> QED BY <3>1, <3>4
  <2>6. ~is_busy /\ MoreArrivals => NextArrivalTime >= depart_time
    BY <2>1 DEF Started, ServerOK
  <2>7. phase = "running" /\ LoopContinues /\ ~TakesArrival => is_busy
    BY <2>4, <2>5 DEF TakesArrival, LoopContinues
  <2>8. TakesArrival /\ ~is_busy => NextArrivalTime >= depart_time
    BY <2>6 DEF TakesArrival
  <2>9. phase = "running" /\ ~LoopContinues => QueueEmpty /\ ~is_busy
    BY <2>3, <2>5 DEF LoopContinues
  <2> QED BY <2>1, <2>3, <2>4, <2>7, <2>8, <2>9 DEF AssertsHold, Started
<1> QED BY <1>1, <1>2

LEMMA InvariantInit == Init => IInv
<1> SUFFICES ASSUME Init PROVE IInv
  OBVIOUS
<1>1. DOMAIN NoFlows = {}
  BY DEF NoFlows
<1>2. Waiting = {}
  BY <1>1, WaitingParts, EmptyParts DEF Init, QueueInit
<1>3. QueueOK
  <2>1. OneQueue
    BY <1>1 DEF Init, QueueInit, OneQueue
  <2>2. InLine(fifo)
    BY EmptyLine DEF Init, QueueInit
  <2>3. IsHeap(heap)
    BY FS_EmptySet DEF Init, QueueInit, IsHeap
  <2>4. FlowsOK
    BY <1>1 DEF Init, QueueInit, FlowsOK
  <2>5. FqOK
    BY DEF Init, QueueInit, FqOK, NoQueue
  <2>6. SizeOK
    BY <1>2, FS_EmptySet DEF Init, QueueInit, SizeOK, NoQueue, InorderPolicies
  <2> QED BY <2>1, <2>2, <2>3, <2>4, <2>5, <2>6 DEF QueueOK
<1>4. NumbersOK
  BY DEF Init, NumbersOK
<1>5. Unstarted
  BY <1>2 DEF Init, QueueInit, Unstarted
<1> QED BY <1>3, <1>4, <1>5 DEF IInv, IsStarted, Init

-----------------------------------------------------------------------------
(* Steps.                                                                  *)

LEMMA QueueKept ==
    ASSUME QueueOK, UNCHANGED queueVars
    PROVE  QueueOK' /\ Waiting' = Waiting /\ policy' = policy
<1>1. /\ policy' = policy /\ fifo' = fifo /\ heap' = heap /\ fq_data' = fq_data
      /\ data' = data /\ priorities' = priorities /\ size' = size
  BY DEF queueVars
<1>2. Waiting' = Waiting
  BY <1>1, WaitingParts, WaitingPartsNext
<1>3. FlowsOK'
  BY <1>1, FlowsKept DEF QueueOK
<1>4. FqOK'
  <2>1. \A f : Mine(f, heap)' = Mine(f, heap)
    BY <1>1 DEF Mine
  <2> QED BY <1>1, <2>1 DEF QueueOK, FqOK
<1>5. SizeOK'
  BY <1>1, <1>2 DEF QueueOK, SizeOK
<1>6. OneQueue' /\ InLine(fifo') /\ IsHeap(heap')
  BY <1>1 DEF QueueOK, OneQueue
<1> QED BY <1>1, <1>2, <1>3, <1>4, <1>5, <1>6 DEF QueueOK

LEMMA ConfigKept ==
    ASSUME config' = config
    PROVE  /\ NumInnocentFlows' = NumInnocentFlows
           /\ UsesTrace' = UsesTrace
           /\ Iat(config)' = Iat(config)
           /\ IsAttacked(config)' = IsAttacked(config)
           /\ MaxArrivals(config)' = MaxArrivals(config)
BY Zenon DEF NumInnocentFlows, innocent_traffic, UsesTrace

(* A packet that arrives, of either kind.                                  *)
Arrives(p) ==
    /\ p.idx = num_arrivals
    /\ p.arrive = NextArrivalTime
    /\ p.innocent <=> p.flow < NumInnocentFlows
    /\ IF p.innocent
       THEN NextArrivalTime = at_innocent /\ at_innocent' > at_innocent /\ at_attack' = at_attack
       ELSE NextArrivalTime = at_attack /\ at_attack' > at_attack /\ at_innocent' = at_innocent

LEMMA AdmitFacts ==
    ASSUME IInv, TakesArrival, NEW p \in Packets, Arrives(p), Admit(p),
           at_innocent' \in Nat, at_attack' \in Nat
    PROVE  /\ QueueOK' /\ policy' = policy
           /\ PacketsCounted' /\ ArrivedOK' /\ ServerOK'
           /\ is_busy' \in BOOLEAN /\ packet' \in Packets
           /\ depart_time' \in Nat /\ depart_time' >= depart_time
<1>1. IsStarted /\ MoreArrivals /\ (NextArrivalTime < depart_time \/ ~is_busy)
  BY DEF TakesArrival, IsStarted
<1>2. NumbersOK /\ QueueOK /\ PacketsCounted /\ ArrivedOK /\ ServerOK
  BY <1>1 DEF IInv, Started
<1>3. NextArrivalTime \in Nat
  BY <1>2 DEF NumbersOK, NextArrivalTime
<1>4. num_arrivals' = num_arrivals + 1 /\ num_departures' = num_departures /\ config' = config
  BY DEF Admit
<1>5. NumInnocentFlows' = NumInnocentFlows
  BY <1>4, ConfigKept
<1>6. \A q \in Waiting : q.idx < p.idx
  BY <1>2 DEF ArrivedOK, Arrives
<1>7. \A q \in Waiting \cup {p} : q \in Packets /\ q.idx \in Nat /\ q.arrive \in Nat /\ q.innocent \in BOOLEAN
  <2>1. \A q \in Waiting \cup {p} : q \in Packets
    BY <1>2, WaitingSplit
  <2> QED BY <2>1 DEF Packets
<1>8. CASE is_busy
  <2>1. Push(p) /\ is_busy' = is_busy /\ packet' = packet /\ depart_time' = depart_time
    BY <1>8 DEF Admit, server
  <2>2. QueueOK' /\ Waiting' = Waiting \cup {p} /\ policy' = policy
    BY <1>2, <1>6, <2>1, PushFacts DEF Takes
  <2>3. PacketsCounted'
    <3>1. p \notin Waiting /\ IsFiniteSet(Waiting)
      BY <1>2, <1>6, <1>7 DEF QueueOK, SizeOK
    <3>2. Cardinality(Waiting') = Cardinality(Waiting) + 1
      BY <2>2, <3>1, FS_AddElement
    <3> DEFINE w == Cardinality(Waiting)
    <3>3. w \in Nat /\ num_arrivals \in Nat /\ num_departures \in Nat
      BY <1>2, WaitingNumber DEF NumbersOK
    <3>4. num_arrivals - num_departures = w + 1
      BY <1>2, <1>8 DEF PacketsCounted
    <3> HIDE DEF w
    <3>5. (num_arrivals + 1) - num_departures = (w + 1) + 1
      BY <3>3, <3>4
    <3>6. num_arrivals' - num_departures' = Cardinality(Waiting') + 1
      BY <1>4, <3>2, <3>5 DEF w
    <3> QED BY <1>8, <2>1, <3>6 DEF PacketsCounted
  <2>4. ArrivedOK'
    <3>1. ASSUME NEW q \in Waiting'
          PROVE  /\ is_busy' /\ q.idx < num_arrivals'
                 /\ q.innocent <=> q.flow < NumInnocentFlows'
                 /\ q.arrive < IF q.innocent THEN at_innocent' ELSE at_attack'
                 /\ q.arrive <= depart_time'
      <4>1. q.idx < num_arrivals + 1
        BY <1>2, <1>7, <2>2 DEF ArrivedOK, Arrives, NumbersOK
      <4>2. q.innocent <=> q.flow < NumInnocentFlows
        BY <1>2, <2>2 DEF ArrivedOK, Arrives
      <4>3. q.arrive <= depart_time
        <5>1. CASE q = p
          BY <1>1, <1>2, <1>3, <1>8, <5>1 DEF Arrives, NumbersOK
        <5>2. CASE q \in Waiting
          BY <1>2, <5>2 DEF ArrivedOK
        <5> QED BY <2>2, <5>1, <5>2
      <4>4. q.arrive < IF q.innocent THEN at_innocent' ELSE at_attack'
        <5>1. at_innocent \in Nat /\ at_attack \in Nat /\ at_innocent' >= at_innocent /\ at_attack' >= at_attack
          BY <1>2 DEF Arrives, NumbersOK
        <5>2. CASE q = p
          BY <5>1, <5>2 DEF Arrives
        <5>3. CASE q \in Waiting
          <6>1. q.arrive < IF q.innocent THEN at_innocent ELSE at_attack
            BY <1>2, <5>3 DEF ArrivedOK
          <6> QED BY <1>7, <5>1, <5>3, <6>1
        <5> QED BY <2>2, <5>2, <5>3
      <4> QED BY <1>4, <1>5, <1>8, <2>1, <4>1, <4>2, <4>3, <4>4
    <3>2. ASSUME NEW q \in Waiting', NEW r \in Waiting', q.idx < r.idx, q.flow = r.flow
          PROVE  q.arrive < r.arrive
      <4>1. CASE r \in Waiting
        <5>1. q # p
          BY <1>6, <1>7, <3>2, <4>1
        <5> QED BY <1>2, <2>2, <3>2, <4>1, <5>1 DEF ArrivedOK
      <4>2. CASE r = p
        <5>1. q \in Waiting
          BY <1>7, <2>2, <3>2, <4>2
        <5>2. q.innocent <=> p.innocent
          BY <1>2, <3>2, <4>2, <5>1 DEF ArrivedOK, Arrives
        <5>3. q.arrive < IF q.innocent THEN at_innocent ELSE at_attack
          BY <1>2, <5>1 DEF ArrivedOK
        <5>4. p.arrive = IF p.innocent THEN at_innocent ELSE at_attack
          BY DEF Arrives
        <5> QED BY <4>2, <5>2, <5>3, <5>4
      <4> QED BY <2>2, <4>1, <4>2
    <3> QED BY <3>1, <3>2 DEF ArrivedOK
  <2>5. ServerOK'
    <3>1. packet \in Packets /\ packet.idx < num_arrivals /\ packet.arrive + packet.actual <= depart_time
      BY <1>2, <1>8 DEF ServerOK
    <3>2. packet.idx < num_arrivals + 1
      BY <1>2, <3>1 DEF Packets, NumbersOK
    <3> QED BY <1>4, <1>8, <2>1, <3>1, <3>2 DEF ServerOK
  <2> QED BY <1>2, <1>8, <2>1, <2>2, <2>3, <2>4, <2>5 DEF NumbersOK, ServerOK
<1>9. CASE ~is_busy
  <2>1. /\ is_busy' = TRUE /\ packet' = p /\ depart_time' = NextArrivalTime + p.actual
        /\ UNCHANGED queueVars
    BY <1>9 DEF Admit, Schedule
  <2>2. QueueOK' /\ Waiting' = Waiting /\ policy' = policy
    BY <1>2, <2>1, QueueKept
  <2>3. Waiting = {}
    BY <1>2, <1>9 DEF ArrivedOK
  <2>4. ArrivedOK'
    BY <2>2, <2>3 DEF ArrivedOK
  <2>5. PacketsCounted'
    <3>1. Cardinality(Waiting) = 0 /\ Cardinality(Waiting') = 0
      BY <2>2, <2>3, FS_EmptySet
    <3>2. num_arrivals - num_departures = 0 + 0
      BY <1>2, <1>9, <3>1 DEF PacketsCounted
    <3>3. (num_arrivals + 1) - num_departures = 0 + 1
      BY <1>2, <3>2 DEF NumbersOK
    <3>4. num_arrivals' - num_departures' = 0 + 1
      BY <1>4, <3>3
    <3> QED BY <2>1, <3>1, <3>4 DEF PacketsCounted
  <2>6. p.actual \in Nat
    BY DEF Packets
  <2>7. NextArrivalTime >= depart_time
    BY <1>1, <1>2, <1>9 DEF ServerOK
  <2>8. /\ NextArrivalTime + p.actual \in Nat /\ NextArrivalTime + p.actual >= depart_time
        /\ p.arrive + p.actual <= NextArrivalTime + p.actual
        /\ p.idx < num_arrivals + 1
    BY <1>2, <1>3, <2>6, <2>7 DEF NumbersOK, Arrives
  <2>9. ServerOK'
    BY <1>4, <2>1, <2>8 DEF ServerOK
  <2> QED BY <2>1, <2>2, <2>4, <2>5, <2>8, <2>9
<1> QED BY <1>8, <1>9

(* A packet that leaves, and the one that is served next.                  *)
LEMMA DepartureFacts ==
    ASSUME IInv, Departure
    PROVE  /\ QueueOK' /\ policy' = policy
           /\ PacketsCounted' /\ ArrivedOK' /\ ServerOK'
           /\ is_busy' \in BOOLEAN /\ packet' \in Packets
           /\ depart_time' \in Nat /\ depart_time' >= depart_time
           /\ \/ ~is_busy' /\ Waiting = {} /\ UNCHANGED queueVars
              \/ /\ is_busy' /\ packet' \in Waiting /\ Waiting' = Waiting \ {packet'}
                 /\ Pop(packet') /\ ~QueueEmpty
<1>1. IsStarted /\ LoopContinues /\ ~TakesArrival /\ phase = "running"
  BY DEF Departure, IsStarted
<1>2. NumbersOK /\ QueueOK /\ PacketsCounted /\ ArrivedOK /\ ServerOK /\ policy = PolicyOf(config)
  BY <1>1 DEF IInv, Started
<1>3. policy \in Policies
  BY <1>1, ConfigFacts DEF IInv, Started, NumbersOK
<1>4. is_busy
  BY <1>1, AssertFacts DEF AssertsHold
<1>5. /\ config' = config /\ num_arrivals' = num_arrivals /\ num_departures' = num_departures + 1
      /\ trace_left' = trace_left /\ at_innocent' = at_innocent /\ at_attack' = at_attack
      /\ num_innocent_arrivals' = num_innocent_arrivals
      /\ ServeNext
  BY DEF Departure, generators, CountedOut
<1>6. NumInnocentFlows' = NumInnocentFlows /\ MoreArrivals' = MoreArrivals
      /\ NextArrivalTime' = NextArrivalTime
  <2>1. NumInnocentFlows' = NumInnocentFlows /\ UsesTrace' = UsesTrace
    BY <1>5, ConfigKept
  <2> QED BY <1>5, <2>1, Zenon DEF MoreArrivals, NextArrivalTime
<1>7. QueueEmpty <=> Waiting = {}
  BY <1>2, <1>3, EmptyFacts
<1>8. MoreArrivals => NextArrivalTime >= depart_time
  BY <1>1, <1>2, <1>4 DEF TakesArrival, NumbersOK, NextArrivalTime
<1> DEFINE w == Cardinality(Waiting)
<1>9. w \in Nat /\ num_arrivals \in Nat /\ num_departures \in Nat /\ IsFiniteSet(Waiting)
      /\ num_arrivals - num_departures = w + 1
  BY <1>2, <1>4, WaitingNumber DEF NumbersOK, PacketsCounted, QueueOK, SizeOK
<1>10. CASE QueueEmpty
  <2>1. is_busy' = FALSE /\ UNCHANGED <<queueVars, packet, depart_time>>
    BY <1>5, <1>10 DEF ServeNext
  <2>2. QueueOK' /\ Waiting' = Waiting /\ policy' = policy /\ Waiting = {}
    BY <1>2, <1>7, <1>10, <2>1, QueueKept
  <2>3. ArrivedOK'
    BY <2>2 DEF ArrivedOK
  <2>4. PacketsCounted'
    <3>1. w = 0 /\ Cardinality(Waiting') = 0
      BY <2>2, FS_EmptySet
    <3> HIDE DEF w
    <3>2. num_arrivals - (num_departures + 1) = 0 + 0
      BY <1>9, <3>1
    <3>3. num_arrivals' - num_departures' = 0 + 0
      BY <1>5, <3>2
    <3> QED BY <2>1, <3>1, <3>3 DEF PacketsCounted
  <2>5. ServerOK'
    BY <1>6, <1>8, <2>1 DEF ServerOK
  <2>6. UNCHANGED queueVars /\ packet' = packet /\ depart_time' = depart_time
    BY <2>1
  <2>7. packet' \in Packets /\ depart_time' \in Nat /\ depart_time' >= depart_time
    BY <1>2, <1>4, <2>6 DEF NumbersOK, ServerOK
  <2>8. is_busy' \in BOOLEAN /\ ~is_busy'
    BY <2>1
  <2> QED BY <2>2, <2>3, <2>4, <2>5, <2>6, <2>7, <2>8
<1>11. CASE ~QueueEmpty
  <2>1. PICK p \in Waiting : Pop(p) /\ Schedule(depart_time, p)
    BY <1>5, <1>11 DEF ServeNext
  <2>2. is_busy' = TRUE /\ packet' = p /\ depart_time' = depart_time + p.actual
    BY <2>1 DEF Schedule
  <2>3. QueueOK' /\ Waiting' = Waiting \ {p} /\ policy' = policy
    BY <1>2, <1>3, <1>11, <2>1, PopFacts DEF HandsOut
  <2>4. p \in Packets /\ p.actual \in Nat /\ p.arrive \in Nat
    BY <1>2, WaitingSplit DEF Packets
  <2>5. depart_time \in Nat /\ depart_time + p.actual \in Nat /\ depart_time + p.actual >= depart_time
    BY <1>2, <2>4 DEF NumbersOK
  <2>6. p.idx < num_arrivals /\ p.arrive <= depart_time
    BY <1>2 DEF ArrivedOK
  <2>7. ServerOK'
    <3>1. p.arrive + p.actual <= depart_time + p.actual
      BY <2>4, <2>5, <2>6
    <3> QED BY <1>5, <2>2, <2>4, <2>6, <3>1 DEF ServerOK
  <2>8. ArrivedOK'
    <3>1. ASSUME NEW q \in Waiting
          PROVE  /\ q.idx < num_arrivals
                 /\ q.innocent <=> q.flow < NumInnocentFlows
                 /\ q.arrive < IF q.innocent THEN at_innocent ELSE at_attack
                 /\ q.arrive <= depart_time + p.actual
      <4>1. q.arrive \in Nat /\ q.arrive <= depart_time
        BY <1>2, WaitingSplit DEF ArrivedOK, Packets
      <4> QED BY <1>2, <2>4, <2>5, <4>1 DEF ArrivedOK
    <3>2. \A q, r \in Waiting : q.idx < r.idx /\ q.flow = r.flow => q.arrive < r.arrive
      BY <1>2 DEF ArrivedOK
    <3> QED BY <1>5, <1>6, <2>2, <2>3, <3>1, <3>2 DEF ArrivedOK
  <2>9. PacketsCounted'
    <3>1. Cardinality(Waiting') = w - 1
      BY <1>9, <2>3, FS_RemoveElement
    <3> HIDE DEF w
    <3>2. num_arrivals - (num_departures + 1) = (w - 1) + 1
      BY <1>9
    <3>3. num_arrivals' - num_departures' = Cardinality(Waiting') + 1
      BY <1>5, <3>1, <3>2
    <3> QED BY <2>2, <3>3 DEF PacketsCounted
  <2> QED BY <1>11, <2>1, <2>2, <2>3, <2>4, <2>5, <2>7, <2>8, <2>9
<1> QED BY <1>10, <1>11

LEMMA ParseStep ==
    ASSUME IInv, ParseSimulationConfig
    PROVE  /\ IInv' /\ Waiting' = Waiting /\ Waiting = {} /\ ~is_busy /\ UNCHANGED server
           /\ heap' = heap /\ fq_data' = fq_data
<1>1. NumbersOK /\ QueueOK /\ Unstarted
  BY DEF ParseSimulationConfig, IInv, IsStarted
<1>2. config' = config /\ UNCHANGED server /\ UNCHANGED counts /\ UNCHANGED steady_state
  BY DEF ParseSimulationConfig
<1>3. CASE Refused(config)
  <2>1. phase' = "refused" /\ UNCHANGED queueVars /\ UNCHANGED generators
    BY <1>3 DEF ParseSimulationConfig
  <2>2. QueueOK' /\ Waiting' = Waiting /\ policy' = policy
    BY <1>1, <2>1, QueueKept
  <2>3. NumbersOK' /\ ~IsStarted'
    BY <1>1, <1>2, <2>1 DEF NumbersOK, server, counts, steady_state, generators, IsStarted
  <2>4. Unstarted'
    BY <1>1, <1>2, <2>1, <2>2 DEF Unstarted, server, counts, generators
  <2> QED BY <1>1, <1>2, <2>1, <2>2, <2>3, <2>4 DEF IInv, Unstarted, queueVars
<1>4. CASE ~Refused(config)
  <2>1. /\ phase' = "running" /\ Generate(PolicyOf(config))
        /\ trace_left' = IF UsesTrace THEN Trace.packets ELSE 0
        /\ at_attack' = AttackStart /\ at_innocent' = at_innocent
    BY <1>4 DEF ParseSimulationConfig
  <2>2. /\ policy' = PolicyOf(config) /\ fifo' = fifo /\ heap' = heap /\ fq_data' = fq_data
        /\ data' = data /\ priorities' = priorities /\ size' = size
    BY <2>1 DEF Generate
  <2>3. policy = NoQueue /\ Waiting = {}
    BY <1>1 DEF Unstarted
  <2>4. Waiting' = Waiting
    BY <2>2, WaitingParts, WaitingPartsNext
  <2>5. fifo = <<>> /\ heap = {} /\ DOMAIN fq_data = {} /\ DOMAIN data = {} /\ size = 0
    BY <1>1, <2>3 DEF QueueOK, OneQueue, NoQueue, InorderPolicies
  <2>6. QueueOK'
    <3>1. OneQueue'
      BY <2>2, <2>5 DEF OneQueue
    <3>2. InLine(fifo') /\ IsHeap(heap')
      BY <1>1, <2>2 DEF QueueOK
    <3>3. FlowsOK'
      BY <1>1, <2>2, <2>5 DEF QueueOK, FlowsOK
    <3>4. FqOK'
      BY <2>2, <2>5, FS_EmptySet DEF FqOK
    <3>5. SizeOK'
      <4>1. IsFiniteSet(Waiting') /\ Cardinality(Waiting') = 0
        BY <2>3, <2>4, FS_EmptySet
      <4> QED BY <2>2, <2>5, <4>1 DEF SizeOK
    <3> QED BY <3>1, <3>2, <3>3, <3>4, <3>5 DEF QueueOK
  <2> DEFINE c == config
  <2>7. c \in Configs /\ ~Refused(c)
    BY <1>1, <1>4 DEF NumbersOK
  <2>8. /\ Iat(c) \in Nat /\ MaxArrivals(c) \in Nat /\ kDblPosInfty \in Nat
        /\ ~IsAttacked(c) => AttackPeriod(c) = kDblPosInfty
    BY <2>7, ConfigFacts
  <2>9. MaxArrivals(c) = IF UsesTrace THEN Trace.packets ELSE c.max_num_arrivals
    BY DEF MaxArrivals, UsesTrace, Trace, innocent_traffic
  <2>10. AttackStart = IF AttackPeriod(c) = kDblPosInfty THEN kDblPosInfty ELSE 0
    BY DEF AttackStart, AttackPeriod, attack_traffic
  <2>11. trace_left' \in Nat /\ at_attack' \in Nat
    BY <2>1, <2>8, <2>9, <2>10
  <2>12. NumbersOK' /\ IsStarted'
    BY <1>1, <1>2, <2>1, <2>11 DEF NumbersOK, server, counts, steady_state, IsStarted
  <2>13. /\ num_arrivals' = 0 /\ num_departures' = 0 /\ num_innocent_arrivals' = 0
         /\ at_innocent' = 0 /\ depart_time' = 0 /\ ~is_busy' /\ is_busy' = is_busy
    BY <1>1, <1>2, <2>1 DEF Unstarted, counts, server
  <2>14. /\ UsesTrace' = UsesTrace
         /\ Iat(config)' = Iat(c) /\ IsAttacked(config)' = IsAttacked(c)
         /\ MaxArrivals(config)' = MaxArrivals(c)
    BY <1>2, ConfigKept
  <2>15. TrafficOK'
    <3>1. 0 = 0 * Iat(c)
      BY <2>8
    <3>2. 0 + (IF UsesTrace THEN trace_left' ELSE 0) <= MaxArrivals(c)
      BY <2>1, <2>8, <2>9
    <3>3. ~IsAttacked(c) => at_attack' = kDblPosInfty
      BY <2>1, <2>8, <2>10
    <3> HIDE DEF c
    <3>4. num_innocent_arrivals' = num_innocent_arrivals' * Iat(c)
      BY <2>13, <3>1
    <3>5. at_innocent' = num_innocent_arrivals' * Iat(config)'
      BY <2>13, <2>14, <3>4
    <3>6. num_innocent_arrivals' + (IF UsesTrace' THEN trace_left' ELSE 0) <= MaxArrivals(config)'
      BY <2>13, <2>14, <3>2
    <3>7. num_innocent_arrivals' <= num_arrivals'
      BY <2>13
    <3> QED BY <2>13, <2>14, <3>3, <3>5, <3>6, <3>7 DEF TrafficOK
  <2>16. PacketsCounted'
    <3>1. Cardinality(Waiting') = 0
      BY <2>3, <2>4, FS_EmptySet
    <3>2. num_arrivals' - num_departures' = 0 + 0
      BY <2>13
    <3> QED BY <2>13, <3>1, <3>2 DEF PacketsCounted
  <2>17. ArrivedOK'
    BY <2>3, <2>4 DEF ArrivedOK
  <2>18. ServerOK'
    <3>1. NextArrivalTime' \in Nat
      BY <2>12 DEF NumbersOK, NextArrivalTime
    <3> QED BY <2>13, <3>1 DEF ServerOK
  <2>19. ~Refused(config)' /\ policy' = PolicyOf(config)'
    BY <1>2, <1>4, <2>2
  <2>20. Started'
    BY <2>1, <2>15, <2>16, <2>17, <2>18, <2>19 DEF Started
  <2> QED BY <1>1, <1>2, <2>2, <2>3, <2>4, <2>6, <2>12, <2>20 DEF IInv, Unstarted
<1> QED BY <1>3, <1>4

IsArrival(p, flow) ==
    /\ p \in Packets
    /\ p.idx = num_arrivals /\ p.flow = flow /\ p.arrive = NextArrivalTime

LEMMA ArrivalFacts ==
    ASSUME NEW flow \in Flows, NEW job,
           job[1] \in Nat \cup {kInvalidJobSize}, job[2] \in Nat, job[3] \in Nat,
           NumbersOK
    PROVE  /\ IsArrival(Arrival(flow, TRUE, job), flow) /\ Arrival(flow, TRUE, job).innocent
           /\ IsArrival(Arrival(flow, FALSE, job), flow) /\ ~Arrival(flow, FALSE, job).innocent
<1> DEFINE est == IF job[1] = kInvalidJobSize THEN 0 ELSE job[1]
<1>1. est \in Nat
  OBVIOUS
<1>2. num_arrivals \in Nat /\ NextArrivalTime \in Nat
  BY DEF NumbersOK, NextArrivalTime
<1> DEFINE t == [idx |-> num_arrivals, flow |-> flow, innocent |-> TRUE, est |-> est,
                 actual |-> job[2], psize |-> job[3], arrive |-> NextArrivalTime]
           u == [idx |-> num_arrivals, flow |-> flow, innocent |-> FALSE, est |-> est,
                 actual |-> job[2], psize |-> job[3], arrive |-> NextArrivalTime]
<1>3. Arrival(flow, TRUE, job) = t /\ Arrival(flow, FALSE, job) = u
  BY Zenon DEF Arrival
<1> HIDE DEF est
<1>4. t \in Packets /\ u \in Packets
  BY <1>1, <1>2 DEF Packets
<1>5. t.idx = num_arrivals /\ t.flow = flow /\ t.arrive = NextArrivalTime /\ t.innocent
  OBVIOUS
<1>6. u.idx = num_arrivals /\ u.flow = flow /\ u.arrive = NextArrivalTime /\ ~u.innocent
  OBVIOUS
<1> HIDE DEF t, u
<1>7. IsArrival(t, flow) /\ IsArrival(u, flow)
  BY <1>4, <1>5, <1>6 DEF IsArrival
<1> QED BY <1>3, <1>5, <1>6, <1>7, Zenon

LEMMA AttackArrivalStep ==
    ASSUME IInv, AttackArrival
    PROVE  /\ IInv' /\ depart_time' >= depart_time
           /\ \E p \in Packets : p.idx = num_arrivals /\ TakesArrival /\ Admit(p)
<1> DEFINE p == Arrival(AttackFlow, FALSE, AttackJob)
           c == config
<1>1. TakesArrival /\ at_attack < at_innocent /\ Admit(p)
      /\ at_attack' = at_attack + AttackPeriod(c) /\ trace_left' = trace_left /\ at_innocent' = at_innocent
  BY DEF AttackArrival, AttackPeriod, attack_traffic
<1>2. IsStarted /\ NumbersOK /\ QueueOK /\ Started /\ TrafficOK /\ MoreArrivals
  BY <1>1 DEF IInv, Started, TakesArrival, IsStarted
<1>3. c \in Configs /\ ~Refused(c)
  BY <1>2 DEF NumbersOK, Started
<1>4. /\ Iat(c) \in Nat /\ MaxArrivals(c) \in Nat /\ MaxArrivals(c) * Iat(c) <= kDblPosInfty
      /\ NumFlows(c.innocent_traffic) \in Nat \ {0} /\ AttackFlows(c) \in Nat \ {0}
      /\ \A n \in Nat : n < NumFlows(c.innocent_traffic) + AttackFlows(c) => n \in Flows
      /\ kDblPosInfty \in Nat
      /\ IsAttacked(c) => /\ AttackPeriod(c) \in Nat /\ AttackPeriod(c) > 0
                          /\ AttackTraffic(c).job_size_ns \in Nat
                          /\ AttackTraffic(c).packet_size_bits \in Nat
  BY <1>3, ConfigFacts
<1>5. IsAttacked(c)
  <2> SUFFICES ASSUME ~IsAttacked(c) PROVE FALSE
    OBVIOUS
  <2>1. at_attack = kDblPosInfty /\ at_innocent = num_innocent_arrivals * Iat(c)
    BY <1>2 DEF TrafficOK
  <2>2. num_innocent_arrivals \in Nat /\ num_innocent_arrivals <= MaxArrivals(c)
    BY <1>2, <1>4 DEF TrafficOK, NumbersOK
  <2> HIDE DEF c
  <2>3. num_innocent_arrivals * Iat(c) <= MaxArrivals(c) * Iat(c)
    BY <1>4, <2>2, MulMonotone
  <2>4. num_innocent_arrivals * Iat(c) \in Nat /\ MaxArrivals(c) * Iat(c) \in Nat
    BY <1>4, <2>2
  <2> QED BY <1>1, <1>4, <2>1, <2>3, <2>4
<1>6. AttackFlow \in Nat /\ AttackFlow \in Flows /\ ~(AttackFlow < NumInnocentFlows)
  <2> DEFINE n == num_arrivals - num_innocent_arrivals
             k == AttackFlows(c)
             m == NumFlows(c.innocent_traffic)
  <2>1. n \in Nat
    BY <1>2 DEF NumbersOK, TrafficOK
  <2>2. AttackFlow = m + (n % k) /\ NumInnocentFlows = m
    BY DEF AttackFlow, NumInnocentFlows, innocent_traffic, attack_traffic, AttackFlows
  <2>3. m \in Nat /\ k \in Nat \ {0} /\ \A i \in Nat : i < m + k => i \in Flows
    BY <1>4
  <2> HIDE DEF n, k, m
  <2>4. n % k \in Nat /\ n % k < k
    BY <2>1, <2>3, ModFacts
  <2> DEFINE r == n % k
  <2>5. r \in Nat /\ r < k
    BY <2>4
  <2>6. AttackFlow = m + r
    BY <2>2
  <2> HIDE DEF r
  <2> QED BY <2>2, <2>3, <2>5, <2>6
<1>7. NextArrivalTime = at_attack
  BY <1>1 DEF NextArrivalTime
<1>8. /\ p.idx = num_arrivals /\ p.flow = AttackFlow /\ ~p.innocent /\ p.arrive = NextArrivalTime
      /\ p \in Packets
  <2>1. AttackJob[1] \in Nat /\ AttackJob[2] \in Nat /\ AttackJob[3] \in Nat
    BY <1>4, <1>5 DEF AttackJob, attack_traffic
  <2>2. IsArrival(p, AttackFlow) /\ ~p.innocent
    BY <1>2, <1>6, <2>1, ArrivalFacts
  <2> HIDE DEF p
  <2> QED BY <2>2 DEF IsArrival
<1> HIDE DEF p
<1>9. at_attack' \in Nat /\ at_innocent' \in Nat /\ at_attack' > at_attack
  BY <1>1, <1>2, <1>4, <1>5 DEF NumbersOK
<1>10. Arrives(p)
  BY <1>1, <1>6, <1>7, <1>8, <1>9 DEF Arrives
<1>11. /\ QueueOK' /\ policy' = policy
       /\ PacketsCounted' /\ ArrivedOK' /\ ServerOK'
       /\ is_busy' \in BOOLEAN /\ packet' \in Packets
       /\ depart_time' \in Nat /\ depart_time' >= depart_time
  BY <1>1, <1>8, <1>9, <1>10, AdmitFacts
<1>12. /\ config' = c /\ phase' = phase /\ num_departures' = num_departures
       /\ ss_last_depart' = ss_last_depart /\ steady_state_ns' = NextArrivalTime
       /\ num_arrivals' = num_arrivals + 1 /\ num_innocent_arrivals' = num_innocent_arrivals
  BY <1>1, <1>2, <1>8 DEF Admit, NumbersOK
<1>13. NumbersOK' /\ IsStarted'
  BY <1>1, <1>2, <1>7, <1>9, <1>11, <1>12 DEF NumbersOK, IsStarted
<1>14. TrafficOK'
  <2>1. /\ UsesTrace' = UsesTrace
        /\ Iat(config)' = Iat(c) /\ IsAttacked(config)' = IsAttacked(c)
        /\ MaxArrivals(config)' = MaxArrivals(c)
    BY <1>12, ConfigKept
  <2>2. num_innocent_arrivals <= num_arrivals + 1
    BY <1>2 DEF TrafficOK, NumbersOK
  <2>3. num_innocent_arrivals' <= num_arrivals'
    BY <1>12, <2>2
  <2>4. at_innocent' = num_innocent_arrivals' * Iat(config)'
    BY <1>1, <1>2, <1>12, <2>1 DEF TrafficOK
  <2>5. num_innocent_arrivals' + (IF UsesTrace' THEN trace_left' ELSE 0) <= MaxArrivals(config)'
    BY <1>1, <1>2, <1>12, <2>1 DEF TrafficOK
  <2> QED BY <1>2, <1>5, <2>1, <2>3, <2>4, <2>5 DEF TrafficOK
<1>15. Started'
  <2>1. ~Refused(config)' /\ policy' = PolicyOf(config)'
    BY <1>2, <1>3, <1>11, <1>12 DEF Started
  <2> QED BY <1>11, <1>14, <2>1 DEF Started
<1> QED BY <1>1, <1>8, <1>11, <1>13, <1>15 DEF IInv

LEMMA InnocentArrivalStep ==
    ASSUME IInv, InnocentArrival
    PROVE  /\ IInv' /\ depart_time' >= depart_time
           /\ \E p \in Packets : p.idx = num_arrivals /\ TakesArrival /\ Admit(p)
<1> DEFINE c == config
<1>1. PICK flow \in InnocentFlows, job \in Answers :
        job[2] # kInvalidJobSize /\ Admit(Arrival(flow, TRUE, job))
  BY DEF InnocentArrival
<1> DEFINE p == Arrival(flow, TRUE, job)
<1>2. /\ TakesArrival /\ at_attack >= at_innocent /\ Admit(p)
      /\ at_innocent' = at_innocent + Iat(c) /\ at_attack' = at_attack
      /\ trace_left' = IF UsesTrace THEN trace_left - 1 ELSE 0
  BY <1>1 DEF InnocentArrival, InnocentTurn, ReadTrace, Iat, innocent_traffic
<1>3. IsStarted /\ NumbersOK /\ QueueOK /\ Started /\ TrafficOK /\ MoreArrivals
  BY <1>2 DEF IInv, Started, TakesArrival, IsStarted
<1>4. c \in Configs /\ ~Refused(c)
  BY <1>3 DEF NumbersOK, Started
<1>5. /\ Iat(c) \in Nat /\ Iat(c) > 0
      /\ NumFlows(c.innocent_traffic) \in Nat \ {0} /\ AttackFlows(c) \in Nat \ {0}
      /\ \A n \in Nat : n < NumFlows(c.innocent_traffic) + AttackFlows(c) => n \in Flows
      /\ MaxArrivals(c) \in Nat
  BY <1>4, ConfigFacts
<1>6. flow \in Nat /\ flow \in Flows /\ flow < NumInnocentFlows
  <2> DEFINE m == NumFlows(c.innocent_traffic)
             k == AttackFlows(c)
  <2>1. NumInnocentFlows = m
    BY DEF NumInnocentFlows, innocent_traffic
  <2>2. m \in Nat \ {0} /\ k \in Nat /\ k > 0 /\ \A i \in Nat : i < m + k => i \in Flows
    BY <1>5
  <2>3. flow \in IF UsesTrace THEN 0 .. m - 1 ELSE {num_innocent_arrivals % m}
    BY <2>1 DEF InnocentFlows
  <2> HIDE DEF m, k
  <2>4. num_innocent_arrivals % m \in Nat /\ num_innocent_arrivals % m < m
    BY <1>3, <2>2, ModFacts DEF NumbersOK
  <2>5. flow \in Nat /\ flow < m
    BY <2>2, <2>3, <2>4
  <2> QED BY <2>1, <2>2, <2>5
<1>7. NextArrivalTime = at_innocent
  BY <1>2, <1>3 DEF NextArrivalTime, NumbersOK
<1>8. /\ p.idx = num_arrivals /\ p.flow = flow /\ p.innocent /\ p.arrive = NextArrivalTime
      /\ p \in Packets
  <2>1. job \in Jobs
    BY DEF Answers
  <2>2. job[1] \in Nat \cup {kInvalidJobSize} /\ job[2] \in Nat /\ job[3] \in Nat
    BY <1>1, <2>1, JobsAssumption
  <2>3. IsArrival(p, flow) /\ p.innocent
    BY <1>3, <1>6, <2>2, ArrivalFacts
  <2> HIDE DEF p
  <2> QED BY <2>3 DEF IsArrival
<1> HIDE DEF p
<1>9. at_attack' \in Nat /\ at_innocent' \in Nat /\ at_innocent' > at_innocent
  BY <1>2, <1>3, <1>5 DEF NumbersOK
<1>10. Arrives(p)
  BY <1>2, <1>6, <1>7, <1>8, <1>9 DEF Arrives
<1>11. /\ QueueOK' /\ policy' = policy
       /\ PacketsCounted' /\ ArrivedOK' /\ ServerOK'
       /\ is_busy' \in BOOLEAN /\ packet' \in Packets
       /\ depart_time' \in Nat /\ depart_time' >= depart_time
  BY <1>2, <1>8, <1>9, <1>10, AdmitFacts
<1>12. /\ config' = c /\ phase' = phase /\ num_departures' = num_departures
       /\ ss_last_depart' = ss_last_depart /\ steady_state_ns' = NextArrivalTime
       /\ num_arrivals' = num_arrivals + 1 /\ num_innocent_arrivals' = num_innocent_arrivals + 1
  BY <1>2, <1>8 DEF Admit
<1>13. UsesTrace => trace_left > 0
  BY <1>3 DEF MoreArrivals
<1>14. trace_left' \in Nat
  BY <1>2, <1>3, <1>13 DEF NumbersOK
<1>15. NumbersOK' /\ IsStarted'
  BY <1>3, <1>7, <1>9, <1>11, <1>12, <1>14 DEF NumbersOK, IsStarted
<1>16. TrafficOK'
  <2>1. /\ UsesTrace' = UsesTrace
        /\ Iat(config)' = Iat(c) /\ IsAttacked(config)' = IsAttacked(c)
        /\ MaxArrivals(config)' = MaxArrivals(c)
    BY <1>12, ConfigKept
  <2>2. num_innocent_arrivals \in Nat /\ num_arrivals \in Nat /\ trace_left \in Nat
    BY <1>3 DEF NumbersOK
  <2>3. num_innocent_arrivals' <= num_arrivals'
    <3>1. num_innocent_arrivals + 1 <= num_arrivals + 1
      BY <1>3, <2>2 DEF TrafficOK
    <3> QED BY <1>12, <3>1
  <2>4. at_innocent' = num_innocent_arrivals' * Iat(config)'
    <3>1. at_innocent = num_innocent_arrivals * Iat(c)
      BY <1>3 DEF TrafficOK
    <3> HIDE DEF c
    <3>2. at_innocent + Iat(c) = (num_innocent_arrivals + 1) * Iat(c)
      BY <1>5, <2>2, <3>1
    <3> QED BY <1>2, <1>12, <2>1, <3>2
  <2>5. num_innocent_arrivals' + (IF UsesTrace' THEN trace_left' ELSE 0) <= MaxArrivals(config)'
    <3>1. num_innocent_arrivals + (IF UsesTrace THEN trace_left ELSE 0) <= MaxArrivals(c)
      BY <1>3 DEF TrafficOK
    <3>2. CASE UsesTrace
      <4>1. (num_innocent_arrivals + 1) + (trace_left - 1) <= MaxArrivals(c)
        BY <1>5, <2>2, <3>1, <3>2
      <4> QED BY <1>2, <1>12, <2>1, <3>2, <4>1
    <3>3. CASE ~UsesTrace
      <4>1. num_innocent_arrivals < MaxArrivals(c)
        BY <1>3, <3>3 DEF MoreArrivals, MaxArrivals, UsesTrace, innocent_traffic
      <4> HIDE DEF c
      <4>2. (num_innocent_arrivals + 1) + 0 <= MaxArrivals(c)
        BY <1>5, <2>2, <4>1
      <4> QED BY <1>12, <2>1, <3>3, <4>2
    <3> QED BY <3>2, <3>3
  <2>6. ~IsAttacked(c) => at_attack' = kDblPosInfty
    BY <1>2, <1>3 DEF TrafficOK
  <2> QED BY <1>2, <2>1, <2>3, <2>4, <2>5, <2>6 DEF TrafficOK
<1>17. Started'
  <2>1. ~Refused(config)' /\ policy' = PolicyOf(config)'
    BY <1>3, <1>4, <1>11, <1>12 DEF Started
  <2> QED BY <1>11, <1>16, <2>1 DEF Started
<1> QED BY <1>2, <1>8, <1>11, <1>15, <1>17 DEF IInv

(* Steps that only end the run or read on in the trace.                    *)
LEMMA NothingServed ==
    ASSUME IInv, IsStarted,
           UNCHANGED <<config, queueVars, at_innocent, at_attack, server, counts, steady_state>>,
           trace_left' \in Nat, trace_left' <= trace_left,
           phase' \in {"running", "aborted", "done"}
    PROVE  IInv'
<1>1. NumbersOK /\ QueueOK /\ Started
  BY DEF IInv
<1>2. QueueOK' /\ Waiting' = Waiting /\ policy' = policy
  BY <1>1, QueueKept
<1>3. /\ config' = config /\ at_innocent' = at_innocent /\ at_attack' = at_attack
      /\ is_busy' = is_busy /\ packet' = packet /\ depart_time' = depart_time
      /\ num_arrivals' = num_arrivals /\ num_departures' = num_departures
      /\ num_innocent_arrivals' = num_innocent_arrivals
      /\ steady_state_ns' = steady_state_ns /\ ss_last_depart' = ss_last_depart
  BY DEF server, counts, steady_state
<1>4. NumbersOK' /\ IsStarted'
  BY <1>1, <1>3 DEF NumbersOK, IsStarted
<1>5. /\ NumInnocentFlows' = NumInnocentFlows /\ UsesTrace' = UsesTrace
      /\ Iat(config)' = Iat(config) /\ IsAttacked(config)' = IsAttacked(config)
      /\ MaxArrivals(config)' = MaxArrivals(config)
  BY <1>3, ConfigKept
<1>6. PacketsCounted'
  BY <1>1, <1>2, <1>3 DEF Started, PacketsCounted
<1>7. TrafficOK'
  <2>1. num_innocent_arrivals + (IF UsesTrace THEN trace_left ELSE 0) <= MaxArrivals(config)
    BY <1>1 DEF Started, TrafficOK
  <2>2. MaxArrivals(config) \in Nat
    BY <1>1, ConfigFacts DEF Started, NumbersOK
  <2>3. num_innocent_arrivals \in Nat /\ trace_left \in Nat
    BY <1>1 DEF NumbersOK
  <2>4. num_innocent_arrivals + (IF UsesTrace THEN trace_left' ELSE 0) <= MaxArrivals(config)
    BY <2>1, <2>2, <2>3
  <2>5. num_innocent_arrivals' + (IF UsesTrace' THEN trace_left' ELSE 0) <= MaxArrivals(config)'
    BY <1>3, <1>5, <2>4
  <2>6. at_innocent' = num_innocent_arrivals' * Iat(config)'
    BY <1>1, <1>3, <1>5 DEF Started, TrafficOK
  <2>7. num_innocent_arrivals' <= num_arrivals'
    BY <1>1, <1>3 DEF Started, TrafficOK
  <2>8. ~IsAttacked(config)' => at_attack' = kDblPosInfty
    BY <1>1, <1>3, <1>5 DEF Started, TrafficOK
  <2> QED BY <2>5, <2>6, <2>7, <2>8 DEF TrafficOK
<1>8. ArrivedOK'
  BY <1>1, <1>2, <1>3, <1>5 DEF Started, ArrivedOK
<1>9. ServerOK'
  <2>1. MoreArrivals' => MoreArrivals
    BY <1>1, <1>3, <1>5 DEF MoreArrivals, NumbersOK
  <2>2. NextArrivalTime' = NextArrivalTime
    BY <1>3 DEF NextArrivalTime
  <2> QED BY <1>1, <1>3, <2>1, <2>2 DEF Started, ServerOK
<1>10. Started'
  BY <1>1, <1>2, <1>3, <1>6, <1>7, <1>8, <1>9 DEF Started
<1> QED BY <1>2, <1>4, <1>10 DEF IInv

LEMMA EndStep ==
    ASSUME IInv, PassThrough \/ Abort \/ Finish
    PROVE  /\ IInv' /\ UNCHANGED <<queueVars, server>>
<1>1. IsStarted /\ NumbersOK /\ Started
  BY DEF IInv, PassThrough, InnocentTurn, TakesArrival, Abort, Finish, IsStarted
<1>2. CASE PassThrough
  <2>1. /\ phase = "running" /\ MoreArrivals
        /\ trace_left' = IF UsesTrace THEN trace_left - 1 ELSE 0
        /\ UNCHANGED <<config, queueVars, at_innocent, at_attack, server, counts, steady_state>>
        /\ phase' = phase
    BY <1>2 DEF PassThrough, InnocentTurn, TakesArrival, ReadTrace
  <2>2. trace_left' \in Nat /\ trace_left' <= trace_left
    BY <1>1, <2>1 DEF MoreArrivals, NumbersOK
  <2> QED BY <1>1, <2>1, <2>2, NothingServed
<1>3. CASE Abort
  <2>1. /\ phase' = "aborted" /\ trace_left' = trace_left
        /\ UNCHANGED <<config, queueVars, at_innocent, at_attack, server, counts, steady_state>>
    BY <1>3 DEF Abort, generators
  <2>2. trace_left' \in Nat /\ trace_left' <= trace_left
    BY <1>1, <2>1 DEF NumbersOK
  <2> QED BY <1>1, <2>1, <2>2, NothingServed
<1>4. CASE Finish
  <2>1. /\ phase' = IF num_innocent_arrivals = 0 THEN "aborted" ELSE "done"
        /\ trace_left' = trace_left
        /\ UNCHANGED <<config, queueVars, at_innocent, at_attack, server, counts, steady_state>>
    BY <1>4 DEF Finish, generators
  <2>2. trace_left' \in Nat /\ trace_left' <= trace_left
    BY <1>1, <2>1 DEF NumbersOK
  <2> QED BY <1>1, <2>1, <2>2, NothingServed
<1> QED BY <1>2, <1>3, <1>4

LEMMA DepartureStep ==
    ASSUME IInv, Departure
    PROVE  IInv'
<1>1. IsStarted /\ NumbersOK /\ Started
  BY DEF Departure, IsStarted, IInv
<1>2. /\ QueueOK' /\ policy' = policy
      /\ PacketsCounted' /\ ArrivedOK' /\ ServerOK'
      /\ is_busy' \in BOOLEAN /\ packet' \in Packets
      /\ depart_time' \in Nat
  BY DepartureFacts
<1>3. /\ config' = config /\ phase' = "running" /\ num_arrivals' = num_arrivals
      /\ num_departures' = num_departures + 1 /\ num_innocent_arrivals' = num_innocent_arrivals
      /\ trace_left' = trace_left /\ at_innocent' = at_innocent /\ at_attack' = at_attack
      /\ steady_state_ns' = steady_state_ns
      /\ ss_last_depart' \in {depart_time, ss_last_depart}
  BY DEF Departure, generators, CountedOut
<1>4. NumbersOK' /\ IsStarted'
  BY <1>1, <1>2, <1>3 DEF NumbersOK, IsStarted
<1>5. TrafficOK'
  <2>1. /\ UsesTrace' = UsesTrace
        /\ Iat(config)' = Iat(config) /\ IsAttacked(config)' = IsAttacked(config)
        /\ MaxArrivals(config)' = MaxArrivals(config)
    BY <1>3, ConfigKept
  <2> QED BY <1>1, <1>3, <2>1 DEF Started, TrafficOK
<1>6. Started'
  BY <1>1, <1>2, <1>3, <1>5 DEF Started
<1> QED BY <1>2, <1>4, <1>6 DEF IInv

LEMMA StutterStep ==
    ASSUME IInv, UNCHANGED vars
    PROVE  IInv' /\ UNCHANGED <<queueVars, server>>
<1>1. /\ UNCHANGED queueVars /\ UNCHANGED generators /\ UNCHANGED server
      /\ UNCHANGED counts /\ UNCHANGED steady_state
      /\ config' = config /\ phase' = phase
  BY DEF vars
<1>2. CASE IsStarted
  <2>1. trace_left' = trace_left /\ at_innocent' = at_innocent /\ at_attack' = at_attack
    BY <1>1 DEF generators
  <2>2. NumbersOK /\ Started
    BY <1>2 DEF IInv
  <2>3. /\ trace_left' \in Nat /\ trace_left' <= trace_left
        /\ phase' \in {"running", "aborted", "done"}
    BY <1>1, <1>2, <2>1, <2>2 DEF NumbersOK, IsStarted
  <2> QED BY <1>1, <1>2, <2>1, <2>3, NothingServed
<1>3. CASE ~IsStarted
  <2>1. NumbersOK /\ Unstarted /\ QueueOK
    BY <1>3 DEF IInv
  <2>2. QueueOK' /\ Waiting' = Waiting /\ policy' = policy
    BY <1>1, <2>1, QueueKept
  <2>3. NumbersOK' /\ ~IsStarted'
    BY <1>1, <1>3, <2>1 DEF NumbersOK, server, counts, steady_state, generators, IsStarted
  <2>4. Unstarted'
    BY <1>1, <2>1, <2>2 DEF Unstarted, server, counts, generators
  <2> QED BY <1>1, <2>2, <2>3, <2>4 DEF IInv
<1> QED BY <1>2, <1>3

LEMMA InvariantStep == IInv /\ [Next]_vars => IInv'
<1> SUFFICES ASSUME IInv, [Next]_vars PROVE IInv'
  OBVIOUS
<1>1. CASE UNCHANGED vars
  BY <1>1, StutterStep
<1>2. CASE Next
  BY <1>1, <1>2, ParseStep, AttackArrivalStep, InnocentArrivalStep, EndStep, DepartureStep DEF Next
<1> QED BY <1>1, <1>2

THEOREM SimulatorInvariant == Spec => []IInv
<1>1. Init => IInv
  BY InvariantInit
<1>2. IInv /\ [Next]_vars => IInv'
  BY InvariantStep
<1> QED BY <1>1, <1>2, PTL DEF Spec

(* Counters are numbers, packets are packets, and they wait only in the    *)
(* queue of the policy that was chosen.                                    *)
THEOREM SimulatorTypeCorrect == Spec => []TypeOK
<1>1. IInv => TypeOK
  BY TypeFacts
<1> QED BY <1>1, SimulatorInvariant, PTL

(* No assert of the loop or of the server fails, whatever arrives: the     *)
(* server is idle only when no packet waits, it departs only when busy, is *)
(* never scheduled into its past, and the loop ends with nothing left.     *)
THEOREM AssertsNeverFail == Spec => []AssertsHold
<1>1. IInv => AssertsHold
  BY AssertFacts
<1> QED BY <1>1, SimulatorInvariant, PTL

(* Packets are logged in the order they leave, none before its job, which  *)
(* starts no earlier than it arrives, is done.                             *)
THEOREM DeparturesInOrder == Spec => DeparturesOrdered
<1>1. ASSUME IInv, IInv', [Next]_vars
      PROVE  /\ depart_time' >= depart_time
             /\ is_busy' => packet'.arrive + packet'.actual <= depart_time'
  <2>1. is_busy' => packet'.arrive + packet'.actual <= depart_time'
    BY <1>1 DEF IInv, Started, Unstarted, ServerOK
  <2>2. UNCHANGED server => depart_time' >= depart_time
    BY <1>1 DEF server, IInv, NumbersOK
  <2>3. UNCHANGED vars => depart_time' >= depart_time
    BY <2>2 DEF vars
  <2>4. Next => depart_time' >= depart_time
    <3>1. ParseSimulationConfig => depart_time' >= depart_time
      BY <1>1, <2>2, ParseStep
    <3>2. AttackArrival \/ InnocentArrival => depart_time' >= depart_time
      BY <1>1, AttackArrivalStep, InnocentArrivalStep
    <3>3. PassThrough \/ Abort \/ Finish => depart_time' >= depart_time
      <4>1. PassThrough \/ Abort \/ Finish => UNCHANGED server
        BY <1>1, EndStep
      <4> QED BY <2>2, <4>1
    <3>4. Departure => depart_time' >= depart_time
      BY <1>1, DepartureFacts
    <3> QED BY <2>3, <3>1, <3>2, <3>3, <3>4 DEF Next
  <2> QED BY <1>1, <2>1, <2>3, <2>4
<1>2. IInv /\ IInv' /\ [Next]_vars =>
        [/\ depart_time' >= depart_time
         /\ is_busy' => packet'.arrive + packet'.actual <= depart_time']_vars
  BY <1>1
<1> QED BY <1>2, SimulatorInvariant, PTL DEF Spec, DeparturesOrdered

-----------------------------------------------------------------------------
(* Flow order.  Fair queueing keeps it as long as a sum of job sizes never *)
(* gets smaller when it grows, whatever it is rounded to.                  *)

SumsGrow ==
    \A x, y \in Nat : Rounded(x) \in Nat /\ Rounded(x) <= Rounded(Rounded(x) + y)

(* As with the doubles of the code: monotone, and exact where nothing is   *)
(* left to round.                                                          *)
LEMMA RoundingSumsGrow ==
    ASSUME \A x \in Nat : Rounded(x) \in Nat /\ Rounded(Rounded(x)) = Rounded(x),
           \A x, y \in Nat : x <= y => Rounded(x) <= Rounded(y)
    PROVE  SumsGrow
<1> SUFFICES ASSUME NEW x \in Nat, NEW y \in Nat
             PROVE  Rounded(x) \in Nat /\ Rounded(x) <= Rounded(Rounded(x) + y)
  BY DEF SumsGrow
<1> DEFINE r == Rounded(x)
<1>1. r \in Nat /\ Rounded(r) = r
  OBVIOUS
<1> HIDE DEF r
<1>2. r + y \in Nat /\ r <= r + y
  BY <1>1
<1>3. Rounded(r) <= Rounded(r + y)
  BY <1>1, <1>2
<1> QED BY <1>1, <1>3 DEF r

\* The clocks of a flow's entries do not decrease, and its virtual clock is the
\* last of them.
IsLast(e, f, h) == e \in Mine(f, h) /\ \A other \in Mine(f, h) : other.tag.idx <= e.tag.idx

FqClocks ==
    policy = "fq" =>
        /\ \A e \in heap : \E x \in Nat : e.num = Rounded(x)
        /\ \A a, b \in heap :
            a.tag.flow = b.tag.flow /\ a.tag.idx < b.tag.idx => a.num <= b.num
        /\ \A f \in DOMAIN fq_data :
            \E e \in heap : IsLast(e, f, heap) /\ e.num = fq_data[f].virtual_clock

\* The packet that is served is older than those of its flow that wait.
ServedInOrder ==
    is_busy /\ policy \in FlowOrderPolicies =>
        \A p \in Waiting : p.flow = packet.flow => packet.idx < p.idx

LEMMA FqClocksPush ==
    ASSUME SumsGrow, QueueOK, FqClocks, NEW p \in Packets, \A q \in Waiting : q.idx < p.idx, Push(p)
    PROVE  FqClocks'
<1> SUFFICES ASSUME policy' = "fq" PROVE FqClocks'
  BY DEF FqClocks
<1>1. policy = "fq" /\ FqPush(p)
  BY PolicyNames DEF Push, FcfsPush, ShortestFirstPush, FqPush, InorderPush
<1> DEFINE clock == VirtualClock(p)
           n == MinHeapEntry(p, clock, 1, p.arrive)
           pushed == [num_packets |-> NumPackets(p.flow) + 1, virtual_clock |-> clock]
<1>2. heap' = heap \cup {n} /\ fq_data' = With(fq_data, p.flow, pushed)
  BY <1>1 DEF FqPush
<1>3. n.tag = p /\ n.num = clock /\ pushed.virtual_clock = clock
  BY DEF MinHeapEntry
<1> HIDE DEF n, pushed
<1>4. /\ DOMAIN fq_data' = DOMAIN fq_data \cup {p.flow}
      /\ fq_data'[p.flow] = pushed
      /\ \A f \in DOMAIN fq_data \ {p.flow} : fq_data'[f] = fq_data[f]
  BY <1>2 DEF With
<1>5. Waiting = InHeap(heap) /\ IsHeap(heap)
  BY <1>1, WaitingSplit DEF QueueOK
<1>6. n \notin heap
  BY <1>3, <1>5, HeapPush
<1>7. \A e \in heap : e.tag.idx < p.idx /\ e.tag.idx \in Nat
  BY <1>5 DEF InHeap, IsHeap, Packets
<1>8. /\ \A e \in heap : \E x \in Nat : e.num = Rounded(x)
      /\ \A a, b \in heap :
            a.tag.flow = b.tag.flow /\ a.tag.idx < b.tag.idx => a.num <= b.num
      /\ \A f \in DOMAIN fq_data :
            \E e \in heap : IsLast(e, f, heap) /\ e.num = fq_data[f].virtual_clock
  BY <1>1 DEF FqClocks
<1>9. DOMAIN fq_data = {e.tag.flow : e \in heap}
  BY <1>1 DEF QueueOK, FqOK
<1>10. p.est \in Nat /\ p.arrive \in Nat /\ p.idx \in Nat
  BY DEF Packets
<1>11. \A e \in heap : e.num \in Nat
  BY <1>8 DEF SumsGrow
<1>12. (\E x \in Nat : clock = Rounded(x)) /\ \A a \in heap : a.tag.flow = p.flow => a.num <= clock
  <2>1. CASE p.flow \in DOMAIN fq_data
    <3>1. PICK e \in heap : IsLast(e, p.flow, heap) /\ e.num = fq_data[p.flow].virtual_clock
      BY <1>8, <2>1
    <3>2. PICK x \in Nat : e.num = Rounded(x)
      BY <1>8
    <3>3. clock = Rounded(p.est + e.num)
      BY <2>1, <3>1 DEF VirtualClock
    <3>4. e.num \in Nat /\ p.est + e.num \in Nat /\ p.est + e.num = e.num + p.est
      BY <1>10, <1>11
    <3>5. clock = Rounded(e.num + p.est)
      BY <3>3, <3>4
    <3>6. Rounded(x) <= Rounded(Rounded(x) + p.est)
      BY <1>10, <3>2 DEF SumsGrow
    <3>7. e.num <= clock
      BY <3>2, <3>5, <3>6
    <3>8. clock \in Nat
      BY <3>3, <3>4 DEF SumsGrow
    <3> HIDE DEF clock
    <3>9. ASSUME NEW a \in heap, a.tag.flow = p.flow PROVE a.num <= clock
      <4>1. a.tag.idx <= e.tag.idx
        BY <3>1, <3>9 DEF IsLast, Mine
      <4>2. e.tag.flow = p.flow
        BY <3>1 DEF IsLast, Mine
      <4>3. CASE a.tag.idx = e.tag.idx
        BY <1>5, <3>7, <4>3 DEF IsHeap
      <4>4. CASE a.tag.idx # e.tag.idx
        <5>1. a.tag.idx < e.tag.idx
          BY <1>7, <4>1, <4>4
        <5>2. a.num <= e.num
          BY <1>8, <3>9, <4>2, <5>1
        <5> QED BY <1>11, <3>7, <3>8, <5>2
      <4> QED BY <4>3, <4>4
    <3> QED BY <3>3, <3>4, <3>9
  <2>2. CASE p.flow \notin DOMAIN fq_data
    <3>1. clock = Rounded(p.est + p.arrive) /\ p.est + p.arrive \in Nat
      BY <1>10, <2>2 DEF VirtualClock
    <3>2. \A a \in heap : a.tag.flow # p.flow
      BY <1>9, <2>2
    <3> HIDE DEF clock
    <3> QED BY <3>1, <3>2
  <2> QED BY <2>1, <2>2
<1> HIDE DEF clock
<1>13. \A e \in heap' : \E x \in Nat : e.num = Rounded(x)
  BY <1>2, <1>3, <1>8, <1>12
<1>14. \A a, b \in heap' : a.tag.flow = b.tag.flow /\ a.tag.idx < b.tag.idx => a.num <= b.num
  <2> SUFFICES ASSUME NEW a \in heap', NEW b \in heap',
                      a.tag.flow = b.tag.flow, a.tag.idx < b.tag.idx
               PROVE  a.num <= b.num
    OBVIOUS
  <2>1. a # n
    BY <1>2, <1>3, <1>7, <1>10
  <2>2. a \in heap
    BY <1>2, <2>1
  <2>3. CASE b = n
    BY <1>3, <1>12, <2>2, <2>3
  <2>4. CASE b \in heap
    BY <1>8, <2>2, <2>4
  <2> QED BY <1>2, <2>3, <2>4
<1>15. ASSUME NEW f \in DOMAIN fq_data'
       PROVE  \E e \in heap' : IsLast(e, f, heap') /\ e.num = fq_data'[f].virtual_clock
  <2>1. Mine(p.flow, heap') = Mine(p.flow, heap) \cup {n} /\ \A g : g # p.flow => Mine(g, heap') = Mine(g, heap)
    BY <1>2, <1>3, <1>5, <1>6, MinePush
  <2>2. CASE f = p.flow
    <3>1. IsLast(n, f, heap')
      <4>1. \A other \in Mine(f, heap) : other.tag.idx <= p.idx
        BY <1>7, <1>10 DEF Mine
      <4> QED BY <1>3, <1>10, <2>1, <2>2, <4>1 DEF IsLast
    <3> QED BY <1>2, <1>3, <1>4, <2>2, <3>1
  <2>3. CASE f # p.flow
    <3>1. PICK e \in heap : IsLast(e, f, heap) /\ e.num = fq_data[f].virtual_clock
      BY <1>4, <1>8, <2>3
    <3>2. IsLast(e, f, heap')
      BY <2>1, <2>3, <3>1 DEF IsLast
    <3> QED BY <1>2, <1>4, <2>3, <3>1, <3>2
  <2> QED BY <2>2, <2>3
<1>16. \A e, f : IsLast(e, f, heap)' = IsLast(e, f, heap')
  BY DEF IsLast, Mine
<1> QED BY <1>13, <1>14, <1>15, <1>16 DEF FqClocks

(* The top of the fair queue is the oldest packet of its flow.             *)
LEMMA FqTop ==
    ASSUME SumsGrow, QueueOK, FqClocks, ArrivedOK, policy = "fq",
           NEW n \in Tops(heap), NEW o \in heap, o # n, o.tag.flow = n.tag.flow
    PROVE  n.tag.idx < o.tag.idx
<1>1. /\ n \in heap /\ ~Precedes(o, n)
  BY DEF Tops
<1>2. /\ n.tag \in Packets /\ o.tag \in Packets /\ n.tag.idx # o.tag.idx
      /\ n.den = 1 /\ o.den = 1 /\ n.insert_time = n.tag.arrive /\ o.insert_time = o.tag.arrive
  BY <1>1 DEF QueueOK, IsHeap, FqOK
<1>3. n.tag.idx \in Nat /\ o.tag.idx \in Nat /\ n.tag.arrive \in Nat /\ o.tag.arrive \in Nat
  BY <1>2 DEF Packets
<1>4. n.num \in Nat /\ o.num \in Nat
  BY <1>1 DEF FqClocks, SumsGrow
<1>5. SUFFICES ASSUME o.tag.idx < n.tag.idx PROVE FALSE
  BY <1>2, <1>3
<1>6. o.num <= n.num
  BY <1>1, <1>5 DEF FqClocks
<1>7. n.tag \in Waiting /\ o.tag \in Waiting
  BY <1>1, WaitingSplit DEF InHeap
<1>8. o.tag.arrive < n.tag.arrive
  BY <1>5, <1>7 DEF ArrivedOK
<1>9. o.num * 1 = o.num /\ n.num * 1 = n.num
  BY <1>4
<1>10. o.num < n.num \/ o.num = n.num
  BY <1>4, <1>6
<1>11. Precedes(o, n)
  BY <1>2, <1>8, <1>9, <1>10 DEF Precedes, SameMetric
<1> QED BY <1>1, <1>11

LEMMA FqClocksPop ==
    ASSUME SumsGrow, QueueOK, FqClocks, ArrivedOK, NEW p, Pop(p)
    PROVE  FqClocks'
<1> SUFFICES ASSUME policy' = "fq" PROVE FqClocks'
  BY DEF FqClocks
<1>1. policy = "fq" /\ FqPop(p)
  BY PolicyNames DEF Pop, FcfsPop, ShortestFirstPop, FqPop, InorderPop
<1>2. PICK n \in Tops(heap) : p = n.tag /\ heap' = heap \ {n}
  BY <1>1 DEF FqPop
<1>3. fq_data' = IF fq_data[p.flow].num_packets = 1
                 THEN Without(fq_data, p.flow)
                 ELSE [fq_data EXCEPT ![p.flow].num_packets = @ - 1]
  BY <1>1 DEF FqPop
<1>4. n \in heap /\ IsHeap(heap)
  BY <1>2 DEF Tops, QueueOK
<1>5. /\ \A e \in heap : \E x \in Nat : e.num = Rounded(x)
      /\ \A a, b \in heap :
            a.tag.flow = b.tag.flow /\ a.tag.idx < b.tag.idx => a.num <= b.num
      /\ \A f \in DOMAIN fq_data :
            \E e \in heap : IsLast(e, f, heap) /\ e.num = fq_data[f].virtual_clock
  BY <1>1 DEF FqClocks
<1>6. /\ DOMAIN fq_data = {e.tag.flow : e \in heap}
      /\ \A f \in DOMAIN fq_data : fq_data[f].num_packets = Cardinality(Mine(f, heap))
  BY <1>1 DEF QueueOK, FqOK
<1>7. /\ \A g : g # p.flow => Mine(g, heap') = Mine(g, heap)
      /\ Mine(p.flow, heap') = Mine(p.flow, heap) \ {n}
      /\ Mine(p.flow, heap') = {} <=> Cardinality(Mine(p.flow, heap)) = 1
  <2>1. /\ \A g : g # n.tag.flow => Mine(g, heap \ {n}) = Mine(g, heap)
        /\ Mine(n.tag.flow, heap \ {n}) = Mine(n.tag.flow, heap) \ {n}
        /\ Mine(n.tag.flow, heap \ {n}) = {} <=> Cardinality(Mine(n.tag.flow, heap)) = 1
    BY <1>4, MinePop
  <2> QED BY <1>2, <2>1
<1>8. \A f \in DOMAIN fq_data' : f \in DOMAIN fq_data /\ fq_data'[f].virtual_clock = fq_data[f].virtual_clock
  <2>1. CASE fq_data[p.flow].num_packets = 1
    BY <1>3, <2>1 DEF Without
  <2>2. CASE fq_data[p.flow].num_packets # 1
    <3> DEFINE left == fq_data[p.flow].num_packets - 1
    <3>1. fq_data' = [fq_data EXCEPT ![p.flow].num_packets = left]
      BY <1>3, <2>2
    <3> HIDE DEF left
    <3> QED BY <3>1
  <2> QED BY <2>1, <2>2
<1>9. ASSUME NEW f \in DOMAIN fq_data'
      PROVE  \E e \in heap' : IsLast(e, f, heap') /\ e.num = fq_data'[f].virtual_clock
  <2>1. PICK e \in heap : IsLast(e, f, heap) /\ e.num = fq_data[f].virtual_clock
    BY <1>5, <1>8
  <2>2. CASE f # p.flow
    <3>1. e # n
      BY <1>2, <2>1, <2>2 DEF IsLast, Mine
    <3>2. IsLast(e, f, heap')
      BY <1>7, <2>1, <2>2 DEF IsLast
    <3> QED BY <1>2, <1>8, <2>1, <3>1, <3>2
  <2>3. CASE f = p.flow
    <3>1. fq_data[p.flow].num_packets # 1
      BY <1>3, <2>3 DEF Without
    <3>2. f \in DOMAIN fq_data
      BY <1>8
    <3>3. Mine(p.flow, heap') # {}
      BY <1>6, <1>7, <2>3, <3>1, <3>2
    <3>4. PICK o : o \in Mine(p.flow, heap) /\ o # n
      BY <1>7, <3>3
    <3>5. o \in heap /\ o.tag.flow = n.tag.flow
      BY <1>2, <3>4 DEF Mine
    <3>6. n.tag.idx < o.tag.idx
      BY <1>1, <3>4, <3>5, FqTop
    <3>7. o.tag.idx <= e.tag.idx
      BY <2>1, <2>3, <3>4 DEF IsLast
    <3>8. n.tag.idx \in Nat /\ o.tag.idx \in Nat /\ e.tag.idx \in Nat
      BY <1>4, <2>1, <3>5 DEF IsHeap, Packets
    <3>9. e # n
      BY <3>6, <3>7, <3>8
    <3>10. IsLast(e, f, heap')
      BY <1>7, <2>1, <2>3, <3>9 DEF IsLast
    <3> QED BY <1>2, <1>8, <2>1, <3>9, <3>10
  <2> QED BY <2>2, <2>3
<1>10. \A e, f : IsLast(e, f, heap)' = IsLast(e, f, heap')
  BY DEF IsLast, Mine
<1> QED BY <1>2, <1>5, <1>9, <1>10 DEF FqClocks

(* What the server is handed is the oldest packet of its flow.             *)
LEMMA PopOrder ==
    ASSUME SumsGrow, QueueOK, FqClocks, ArrivedOK, ~QueueEmpty,
           policy \in FlowOrderPolicies, NEW p, Pop(p)
    PROVE  \A q \in Waiting \ {p} : q.flow = p.flow => p.idx < q.idx
<1>1. CASE FcfsPop(p)
  <2>1. fifo # <<>>
    BY <1>1 DEF FcfsPop, QueueEmpty
  <2> QED BY <1>1, <2>1, FcfsGives
<1>2. CASE ShortestFirstPop(p)
  BY <1>2, PolicyNames DEF ShortestFirstPop
<1>3. CASE FqPop(p)
  <2>1. policy = "fq" /\ Waiting = InHeap(heap)
    BY <1>3, WaitingSplit DEF FqPop
  <2>2. PICK n \in Tops(heap) : p = n.tag
    BY <1>3 DEF FqPop
  <2>3. ASSUME NEW q \in Waiting \ {p}, q.flow = p.flow PROVE p.idx < q.idx
    <3>1. PICK o \in heap : q = o.tag
      BY <2>1 DEF InHeap
    <3> QED BY <2>1, <2>2, <2>3, <3>1, FqTop
  <2> QED BY <2>3
<1>4. CASE InorderPop(p)
  BY <1>4, InorderGives
<1> QED BY <1>1, <1>2, <1>3, <1>4 DEF Pop

LEMMA FqClocksKept ==
    ASSUME FqClocks, UNCHANGED <<policy, heap, fq_data>>
    PROVE  FqClocks'
<1>1. policy' = policy /\ heap' = heap /\ fq_data' = fq_data
  OBVIOUS
<1>2. \A e, f : IsLast(e, f, heap)' = IsLast(e, f, heap)
  BY <1>1 DEF IsLast, Mine
<1> QED BY <1>1, <1>2 DEF FqClocks

OrderInv == FqClocks /\ ServedInOrder

LEMMA OrderInit == Init => OrderInv
BY DEF Init, QueueInit, OrderInv, FqClocks, ServedInOrder, NoQueue

LEMMA ArrivalOrder ==
    ASSUME SumsGrow, IInv, OrderInv, TakesArrival, NEW p \in Packets, p.idx = num_arrivals, Admit(p)
    PROVE  OrderInv'
<1>1. NumbersOK /\ QueueOK /\ ArrivedOK /\ ServerOK
  BY DEF TakesArrival, IInv, IsStarted, Started
<1>2. \A q \in Waiting : q.idx < p.idx
  BY <1>1 DEF ArrivedOK
<1>3. CASE is_busy
  <2>1. Push(p) /\ is_busy' = is_busy /\ packet' = packet
    BY <1>3 DEF Admit, server
  <2>2. Waiting' = Waiting \cup {p} /\ policy' = policy
    BY <1>1, <1>2, <2>1, PushFacts DEF Takes
  <2>3. FqClocks'
    BY <1>1, <1>2, <2>1, FqClocksPush DEF OrderInv
  <2>4. packet.idx < p.idx
    BY <1>1, <1>3 DEF ServerOK
  <2> QED BY <2>1, <2>2, <2>3, <2>4 DEF OrderInv, ServedInOrder
<1>4. CASE ~is_busy
  <2>1. UNCHANGED queueVars
    BY <1>4 DEF Admit
  <2>2. Waiting' = Waiting /\ Waiting = {}
    BY <1>1, <1>4, <2>1, QueueKept DEF ArrivedOK
  <2>3. FqClocks'
    BY <2>1, FqClocksKept DEF queueVars, OrderInv
  <2> QED BY <2>2, <2>3 DEF OrderInv, ServedInOrder
<1> QED BY <1>3, <1>4

LEMMA DepartureOrder ==
    ASSUME SumsGrow, IInv, OrderInv, Departure
    PROVE  OrderInv'
<1>1. NumbersOK /\ QueueOK /\ ArrivedOK /\ policy' = policy
  BY DepartureFacts DEF Departure, IInv, IsStarted, Started
<1>2. CASE ~is_busy' /\ UNCHANGED queueVars
  <2>1. FqClocks'
    BY <1>2, FqClocksKept DEF queueVars, OrderInv
  <2> QED BY <1>2, <2>1 DEF OrderInv, ServedInOrder
<1>3. CASE /\ is_busy' /\ packet' \in Waiting /\ Waiting' = Waiting \ {packet'}
           /\ Pop(packet') /\ ~QueueEmpty
  <2>1. FqClocks'
    BY <1>1, <1>3, FqClocksPop DEF OrderInv
  <2>2. policy \in FlowOrderPolicies =>
          \A q \in Waiting \ {packet'} : q.flow = packet'.flow => packet'.idx < q.idx
    BY <1>1, <1>3, PopOrder DEF OrderInv
  <2> QED BY <1>1, <1>3, <2>1, <2>2 DEF OrderInv, ServedInOrder
<1> QED BY <1>2, <1>3, DepartureFacts

LEMMA OrderStep ==
    ASSUME SumsGrow
    PROVE  IInv /\ OrderInv /\ [Next]_vars => OrderInv'
<1> SUFFICES ASSUME IInv, OrderInv, [Next]_vars PROVE OrderInv'
  OBVIOUS
<1>1. ASSUME UNCHANGED <<queueVars, server>> PROVE OrderInv'
  <2>1. /\ policy' = policy /\ heap' = heap /\ fq_data' = fq_data
        /\ is_busy' = is_busy /\ packet' = packet /\ UNCHANGED queueVars
    BY <1>1 DEF queueVars, server
  <2>2. FqClocks'
    BY <2>1, FqClocksKept DEF OrderInv
  <2>3. Waiting' = Waiting
    BY <2>1, QueueKept DEF IInv
  <2> QED BY <2>1, <2>2, <2>3 DEF OrderInv, ServedInOrder
<1>2. CASE ParseSimulationConfig
  <2>1. /\ Waiting' = Waiting /\ Waiting = {} /\ heap' = heap /\ fq_data' = fq_data
        /\ NumbersOK /\ QueueOK /\ Unstarted
    BY <1>2, ParseStep DEF IInv, IsStarted, ParseSimulationConfig
  <2>2. heap = {} /\ DOMAIN fq_data = {}
    BY <2>1 DEF QueueOK, OneQueue, Unstarted, NoQueue
  <2>3. FqClocks'
    BY <2>1, <2>2 DEF FqClocks
  <2> QED BY <2>1, <2>3 DEF OrderInv, ServedInOrder
<1>3. CASE AttackArrival \/ InnocentArrival
  BY <1>3, AttackArrivalStep, InnocentArrivalStep, ArrivalOrder
<1>4. CASE PassThrough \/ Abort \/ Finish
  BY <1>1, <1>4, EndStep
<1>5. CASE Departure
  BY <1>5, DepartureOrder
<1>6. CASE UNCHANGED vars
  BY <1>1, <1>6, StutterStep
<1> QED BY <1>2, <1>3, <1>4, <1>5, <1>6 DEF Next

LEMMA OrderInvariant ==
    ASSUME SumsGrow
    PROVE  Spec => []OrderInv
<1>1. Init => OrderInv
  BY OrderInit
<1>2. IInv /\ OrderInv /\ [Next]_vars => OrderInv'
  BY OrderStep
<1> QED BY <1>1, <1>2, SimulatorInvariant, PTL DEF Spec

LEMMA ConsistentFacts ==
    ASSUME IInv, OrderInv
    PROVE  QueueConsistent
<1>1. num_arrivals - num_departures = Cardinality(Waiting) + IF is_busy THEN 1 ELSE 0
  <2>1. CASE IsStarted
    BY <2>1 DEF IInv, Started, PacketsCounted
  <2>2. CASE ~IsStarted
    <3>1. Cardinality(Waiting) = 0
      BY <2>2, FS_EmptySet DEF IInv, Unstarted
    <3>2. num_arrivals - num_departures = 0 + 0
      BY <2>2 DEF IInv, Unstarted
    <3> QED BY <2>2, <3>1, <3>2 DEF IInv, Unstarted
  <2> QED BY <2>1, <2>2
<1>2. ASSUME policy = "fq"
      PROVE  /\ size = Cardinality(heap)
             /\ DOMAIN fq_data = {e.tag.flow : e \in heap}
             /\ \A f \in DOMAIN fq_data :
                LET mine == {e \in heap : e.tag.flow = f}
                IN  /\ fq_data[f].num_packets = Cardinality(mine)
                    /\ \E e \in mine :
                        /\ e.num = fq_data[f].virtual_clock
                        /\ \A other \in mine : other.tag.idx <= e.tag.idx
  <2>1. /\ size = Cardinality(heap)
        /\ DOMAIN fq_data = {e.tag.flow : e \in heap}
        /\ \A f \in DOMAIN fq_data : fq_data[f].num_packets = Cardinality(Mine(f, heap))
    BY <1>2 DEF IInv, QueueOK, FqOK
  <2>2. \A f \in DOMAIN fq_data :
          \E e \in heap : IsLast(e, f, heap) /\ e.num = fq_data[f].virtual_clock
    BY <1>2 DEF OrderInv, FqClocks
  <2> QED BY <2>1, <2>2 DEF IsLast, Mine
<1>3. ASSUME policy \in InorderPolicies
      PROVE  /\ size = Cardinality(Waiting)
             /\ DOMAIN priorities = DOMAIN data
             /\ \A f \in DOMAIN data :
                /\ data[f].queue # <<>>
                /\ priorities[f] = FlowPriority(f, data[f])
  BY <1>3 DEF IInv, QueueOK, SizeOK, FlowsOK, IsFlow
<1> QED BY <1>1, <1>2, <1>3 DEF QueueConsistent

(* The counts, clocks and priorities that the flow-based queues keep by    *)
(* hand agree with the packets that wait, after any pushes and pops, and   *)
(* no packet is lost between its arrival and its departure.                *)
THEOREM QueuesConsistent ==
    ASSUME SumsGrow
    PROVE  Spec => []QueueConsistent
<1>1. IInv /\ OrderInv => QueueConsistent
  BY ConsistentFacts
<1> QED BY <1>1, SimulatorInvariant, OrderInvariant, PTL

(* A policy that claims flow order serves no packet before an older one of *)
(* its flow, and TCP reassembly is only ever run with such a policy.       *)
THEOREM FlowOrder ==
    ASSUME SumsGrow
    PROVE  Spec => []FlowOrderKept
<1>1. ASSUME IInv, OrderInv PROVE FlowOrderKept
  <2> SUFFICES ASSUME phase = "running", is_busy,
                      policy \in FlowOrderPolicies \/ IsFlowOrderRequired(config.application),
                      NEW p \in Waiting, p.flow = packet.flow
               PROVE  p.idx > packet.idx
    BY DEF FlowOrderKept
  <2>1. Started /\ NumbersOK /\ QueueOK
    BY <1>1 DEF IInv, IsStarted
  <2>2. policy \in FlowOrderPolicies
    BY <2>1, ConfigFacts DEF Started, NumbersOK
  <2>3. packet.idx < p.idx
    BY <1>1, <2>2 DEF OrderInv, ServedInOrder
  <2> QED BY <2>3
<1>2. IInv /\ OrderInv => FlowOrderKept
  BY <1>1
<1> QED BY <1>2, SimulatorInvariant, OrderInvariant, PTL

-----------------------------------------------------------------------------
(* The queues as an array of lines.                                        *)

LEMMA LineOf ==
    ASSUME policy' = policy
    PROVE  /\ policy \notin FlowOrderPolicies =>
                UNCHANGED [f \in Flows |-> Line(f)]
           /\ policy \in FlowOrderPolicies =>
                /\ [f \in Flows |-> Line(f)] = [f \in Flows |-> {p \in Waiting : p.flow = f}]
                /\ [f \in Flows |-> Line(f)]' = [f \in Flows |-> {p \in Waiting' : p.flow = f}]
BY DEF Line

LEMMA LinePush ==
    ASSUME policy' = policy, NEW p \in Packets, Waiting' = Waiting \cup {p},
           \A q \in Waiting : q.idx < p.idx
    PROVE  [Ordered!FONext]_([f \in Flows |-> Line(f)])
<1>1. CASE policy \notin FlowOrderPolicies
  BY <1>1, LineOf
<1>2. CASE policy \in FlowOrderPolicies
  <2> DEFINE lines == [f \in Flows |-> {q \in Waiting : q.flow = f}]
             next == [f \in Flows |-> {q \in Waiting' : q.flow = f}]
  <2>1. [f \in Flows |-> Line(f)] = lines /\ [f \in Flows |-> Line(f)]' = next
    BY <1>2, LineOf
  <2>2. p.flow \in Flows
    BY DEF Packets
  <2>3. next = [lines EXCEPT ![p.flow] = @ \cup {p}]
    BY <2>2
  <2>4. p \in next[p.flow] /\ \A q \in lines[p.flow] : q.idx < p.idx
    BY <2>2
  <2> HIDE DEF lines, next
  <2>5. Ordered!FOPush(p.flow)
    BY <2>1, <2>3, <2>4, Zenon DEF Ordered!FOPush
  <2> QED BY <2>2, <2>5 DEF Ordered!FONext
<1> QED BY <1>1, <1>2

LEMMA LinePop ==
    ASSUME policy' = policy, NEW p \in Waiting, p \in Packets, Waiting' = Waiting \ {p},
           policy \in FlowOrderPolicies => \A q \in Waiting \ {p} : q.flow = p.flow => p.idx < q.idx
    PROVE  [Ordered!FONext]_([f \in Flows |-> Line(f)])
<1>1. CASE policy \notin FlowOrderPolicies
  BY <1>1, LineOf
<1>2. CASE policy \in FlowOrderPolicies
  <2> DEFINE lines == [f \in Flows |-> {q \in Waiting : q.flow = f}]
             next == [f \in Flows |-> {q \in Waiting' : q.flow = f}]
  <2>1. [f \in Flows |-> Line(f)] = lines /\ [f \in Flows |-> Line(f)]' = next
    BY <1>2, LineOf
  <2>2. p.flow \in Flows
    BY DEF Packets
  <2>3. next = [lines EXCEPT ![p.flow] = @ \ {p}]
    BY <2>2
  <2>4. p \in lines[p.flow] /\ \A q \in lines[p.flow] \ {p} : p.idx < q.idx
    BY <1>2, <2>2
  <2> HIDE DEF lines, next
  <2>5. Ordered!FOPop(p.flow)
    BY <2>1, <2>3, <2>4, Zenon DEF Ordered!FOPop
  <2> QED BY <2>2, <2>5 DEF Ordered!FONext
<1> QED BY <1>1, <1>2

LEMMA LineStep ==
    ASSUME SumsGrow
    PROVE  IInv /\ OrderInv /\ [Next]_vars => [Ordered!FONext]_([f \in Flows |-> Line(f)])
<1> DEFINE Step == [Ordered!FONext]_([f \in Flows |-> Line(f)])
<1> SUFFICES ASSUME IInv, OrderInv, [Next]_vars PROVE Step
  OBVIOUS
<1>1. NumbersOK /\ QueueOK
  BY DEF IInv
<1>2. ASSUME UNCHANGED queueVars PROVE Step
  <2>1. policy' = policy /\ Waiting' = Waiting
    BY <1>1, <1>2, QueueKept
  <2>2. UNCHANGED [f \in Flows |-> Line(f)]
    BY <2>1 DEF Line
  <2> QED BY <2>2
<1>3. CASE ParseSimulationConfig
  <2>1. Waiting' = Waiting /\ Waiting = {}
    BY <1>3, ParseStep
  <2>2. UNCHANGED [f \in Flows |-> Line(f)]
    BY <2>1 DEF Line
  <2> QED BY <2>2
<1>4. CASE AttackArrival \/ InnocentArrival
  <2>1. PICK p \in Packets : p.idx = num_arrivals /\ TakesArrival /\ Admit(p)
    BY <1>4, AttackArrivalStep, InnocentArrivalStep
  <2>2. \A q \in Waiting : q.idx < p.idx
    BY <2>1 DEF TakesArrival, IInv, IsStarted, Started, ArrivedOK
  <2>3. CASE is_busy
    <3>1. Push(p)
      BY <2>1, <2>3 DEF Admit
    <3>2. Waiting' = Waiting \cup {p} /\ policy' = policy
      BY <1>1, <2>2, <3>1, PushFacts DEF Takes
    <3> QED BY <2>2, <3>2, LinePush
  <2>4. CASE ~is_busy
    BY <1>2, <2>1, <2>4 DEF Admit
  <2> QED BY <2>3, <2>4
<1>5. CASE PassThrough \/ Abort \/ Finish
  BY <1>2, <1>5, EndStep
<1>6. CASE Departure
  <2>1. CASE UNCHANGED queueVars
    BY <1>2, <2>1
  <2>2. CASE /\ packet' \in Waiting /\ Waiting' = Waiting \ {packet'}
             /\ Pop(packet') /\ ~QueueEmpty
    <3>1. ArrivedOK /\ policy' = policy
      BY <1>6, DepartureFacts DEF Departure, IInv, IsStarted, Started
    <3>2. PICK p : p = packet'
      OBVIOUS
    <3>3. p \in Waiting /\ p \in Packets /\ Waiting' = Waiting \ {p} /\ Pop(packet')
      BY <1>1, <2>2, <3>2, WaitingSplit
    <3>4. policy \in FlowOrderPolicies =>
            \A q \in Waiting \ {packet'} : q.flow = packet'.flow => packet'.idx < q.idx
      BY <1>1, <2>2, <3>1, PopOrder DEF OrderInv
    <3>5. policy \in FlowOrderPolicies => \A q \in Waiting \ {p} : q.flow = p.flow => p.idx < q.idx
      BY <3>2, <3>4
    <3> QED BY <3>1, <3>3, <3>5, LinePop
  <2> QED BY <1>6, <2>1, <2>2, DepartureFacts
<1>7. CASE UNCHANGED vars
  BY <1>2, <1>7 DEF vars
<1> HIDE DEF Step
<1> QED BY <1>3, <1>4, <1>5, <1>6, <1>7 DEF Next

(* Whatever the policy, where it claims flow order the queue is an array   *)
(* of lines: a push joins the end of its flow's line and a pop takes the   *)
(* head of some line.                                                      *)
THEOREM FlowOrderRefinement ==
    ASSUME SumsGrow
    PROVE  Spec => RefinesFlowOrderedQueue
<1>1. Init => Ordered!FOInit
  <2> SUFFICES ASSUME Init PROVE [f \in Flows |-> Line(f)] = [f \in Flows |-> {}]
    BY DEF Ordered!FOInit
  <2>1. policy \notin FlowOrderPolicies
    BY PolicyNames DEF Init, QueueInit
  <2> QED BY <2>1 DEF Line
<1>2. IInv /\ OrderInv /\ [Next]_vars => [Ordered!FONext]_([f \in Flows |-> Line(f)])
  BY LineStep
<1> QED BY <1>1, <1>2, SimulatorInvariant, OrderInvariant, PTL
        DEF Spec, RefinesFlowOrderedQueue, Ordered!FOSpec
=============================================================================
