--------------------------- MODULE TcpReassembly ---------------------------
(***************************************************************************)
(* The TCP reassembly application of the simulator                         *)
(* (src/simulator/src/applications/tcp_reassembly.cpp).  One step is what  *)
(* Server::setJobSizeEstimateAndActual does with an arriving packet: ask   *)
(* for an estimate, then for the actual job size.  Sequence numbers are    *)
(* SeqBits wide (32 in the code) and their sums wrap.                      *)
(***************************************************************************)
EXTENDS Integers, Sequences, FiniteSetsExt

CONSTANTS
    Flows,
    SeqBits,
    kReassemblyWindowSizeInBytes,
    kServiceTimeScaling,    \* nanoseconds per unit of service time
    MaxPayload,         \* bound of the model: bytes in a packet
    AttackJobSize

ASSUME SeqAssumption == SeqBits \in Nat
ASSUME WindowAssumption ==
    /\ kReassemblyWindowSizeInBytes \in Nat \ {0}
    /\ MaxPayload \in Nat \ {0}
    /\ kReassemblyWindowSizeInBytes + 2 * MaxPayload < 2 ^ SeqBits
ASSUME ScalingAssumption == kServiceTimeScaling \in Nat
ASSUME AttackAssumption == AttackJobSize \in Nat

kInvalidJobSize == -1
kCostBase == 116
kCostPerTraversal == 4

VARIABLES
    use_heuristic,      \* of the application's parameters
    flows_,             \* [known flows -> [next_psn_, ooo_list_]]
    packet,             \* the packet just handled
    job_size_estimate, job_size_actual,     \* and its job sizes
    aborted             \* an assert failed

vars == <<use_heuristic, flows_, packet, job_size_estimate, job_size_actual, aborted>>

Seqs == 0 .. 2 ^ SeqBits - 1

\* Defect: the header field is not cut to its width.
MutantNextSequenceNumber(psn, payload) == psn + payload

NextSequenceNumber(psn, payload) == (psn + payload) % 2 ^ SeqBits

Smaller(a, b) == IF a < b THEN a ELSE b
Larger(a, b) == IF a > b THEN a ELSE b

Header(flow, syn, psn, payload) ==
    [kind |-> "INNOCENT", flow |-> flow, is_tcp |-> TRUE, syn |-> syn, fin |-> FALSE,
     psn |-> psn, next_psn |-> NextSequenceNumber(psn, payload)]

DataPackets ==
    {Header(f, syn, psn, n) :
        f \in Flows, syn \in BOOLEAN, psn \in Seqs, n \in 0 .. MaxPayload}

\* The packets of a trace, and those of the attack.
Packets ==
    DataPackets
    \cup {[Header(f, FALSE, 0, 0) EXCEPT !.fin = TRUE] : f \in Flows}
    \cup {[Header(f, FALSE, 0, 0) EXCEPT !.is_tcp = FALSE] : f \in Flows}
    \cup {[Header(f, FALSE, 0, 0) EXCEPT !.is_tcp = FALSE, !.kind = "ATTACK"] : f \in Flows}

Init ==
    /\ use_heuristic \in BOOLEAN
    /\ flows_ = <<>>
    /\ packet = <<>>
    /\ job_size_estimate = kInvalidJobSize
    /\ job_size_actual = kInvalidJobSize
    /\ aborted = FALSE

-----------------------------------------------------------------------------
(* The state of a flow, s, and a packet of it, p.                          *)

NewFlow == [next_psn_ |-> 0, ooo_list_ |-> <<>>]
Flow(f) == IF f \in DOMAIN flows_ THEN flows_[f] ELSE NewFlow

toServiceTime(num_traversals) == kCostBase + kCostPerTraversal * num_traversals

IsSyn(s, p) == p.syn \/ s.next_psn_ = 0

KeepsInOrder(s, p) == s.ooo_list_ = <<>> /\ s.next_psn_ >= p.psn

PastWindow(s, p) ==
    p.psn > (s.next_psn_ + kReassemblyWindowSizeInBytes) % 2 ^ SeqBits

IsDuplicate(s, p) == s.next_psn_ >= p.next_psn

getServiceTimeEstimate(s, p) ==
    IF IsSyn(s, p) \/ KeepsInOrder(s, p) \/ PastWindow(s, p) \/ IsDuplicate(s, p)
    THEN kInvalidJobSize
    ELSE toServiceTime(Len(s.ooo_list_))

-----------------------------------------------------------------------------
(* The out-of-order list.                                                  *)

\* Where the packet goes: before the first node that ends no earlier.
Position(list, p) ==
    Min({i \in 1 .. Len(list) : p.next_psn <= list[i].second} \cup {Len(list) + 1})

First(s, p) == Larger(s.next_psn_, p.psn)

\* Defect: nodes covered by the packet stay.
MutantKept(s, p) == Position(s.ooo_list_, p) - 1

\* The nodes before the packet, but for those that start within it.
Kept(s, p) ==
    Max({k \in 1 .. Position(s.ooo_list_, p) - 1 : s.ooo_list_[k].first < First(s, p)}
        \cup {0})

\* What the packet brings that neither neighbour has.
NewBytes(s, p) ==
    LET list == s.ooo_list_
        pos == Position(list, p)
        kept == Kept(s, p)
    IN  [first |-> IF kept = 0 THEN First(s, p) ELSE Larger(First(s, p), list[kept].second),
         second |-> IF pos > Len(list) THEN p.next_psn
                    ELSE Smaller(p.next_psn, list[pos].first)]

IsEmpty(range) == range.second <= range.first

Inserted(s, p, range) ==
    SubSeq(s.ooo_list_, 1, Kept(s, p))
    \o (IF IsEmpty(range) THEN <<>> ELSE <<range>>)
    \o SubSeq(s.ooo_list_, Position(s.ooo_list_, p), Len(s.ooo_list_))

\* Defect: only the first node is released.
MutantNumReleased(list, next_psn) ==
    IF list # <<>> /\ list[1].first = next_psn THEN 1 ELSE 0

\* How many nodes at the front continue the stream.
NumReleased(list, next_psn) ==
    Max({n \in 0 .. Len(list) :
            \A i \in 1 .. n :
                list[i].first = IF i = 1 THEN next_psn ELSE list[i - 1].second})

-----------------------------------------------------------------------------
(* Handling a packet.                                                      *)

\* The mark of a packet without a job is not scaled.
toJobSizeInNs(service_time) ==
    IF service_time = kInvalidJobSize THEN kInvalidJobSize
    ELSE service_time * kServiceTimeScaling

SetFlow(f, s) == flows_' = [g \in DOMAIN flows_ \cup {f} |-> IF g = f THEN s ELSE flows_[g]]

\* TCPReassembly::process and getJobSizeEstimate for innocent traffic: without
\* the heuristic the packet is processed to get the estimate, and that is it.
Answer(estimate, service_time) ==
    /\ job_size_actual' = toJobSizeInNs(service_time)
    /\ job_size_estimate' = toJobSizeInNs(IF use_heuristic THEN estimate ELSE service_time)
    /\ UNCHANGED aborted

\* A flow that is not known has no estimate.
Estimate(p) ==
    IF p.flow \in DOMAIN flows_
    THEN getServiceTimeEstimate(flows_[p.flow], p)
    ELSE kInvalidJobSize

Attack(p) ==
    /\ p.kind = "ATTACK"
    /\ job_size_estimate' = AttackJobSize /\ job_size_actual' = AttackJobSize
    /\ UNCHANGED <<flows_, aborted>>

Ignore(p) ==
    /\ p.kind = "INNOCENT"
    /\ ~p.is_tcp \/ (~p.fin /\ p.psn = p.next_psn)
    /\ Answer(kInvalidJobSize, kInvalidJobSize)
    /\ UNCHANGED flows_

FinOrRst(p) ==
    /\ p.is_tcp /\ p.fin
    /\ flows_' = [f \in DOMAIN flows_ \ {p.flow} |-> flows_[f]]
    /\ Answer(kInvalidJobSize, kInvalidJobSize)

Syn(s, p) ==
    /\ IsSyn(s, p)
    /\ IF s.ooo_list_ = <<>>
       THEN SetFlow(p.flow, [s EXCEPT !.next_psn_ = p.next_psn])
       ELSE UNCHANGED flows_
    /\ IF s.ooo_list_ = <<>> \/ p.next_psn <= s.next_psn_
       THEN Answer(Estimate(p), kInvalidJobSize)
       ELSE aborted' = TRUE /\ UNCHANGED <<job_size_estimate, job_size_actual>>

InOrder(s, p) ==
    /\ ~IsSyn(s, p) /\ KeepsInOrder(s, p)
    /\ SetFlow(p.flow, [s EXCEPT !.next_psn_ = Larger(@, p.next_psn)])
    /\ Answer(Estimate(p), kInvalidJobSize)

Drop(s, p) ==
    /\ ~IsSyn(s, p) /\ ~KeepsInOrder(s, p)
    /\ PastWindow(s, p) \/ IsDuplicate(s, p)
    /\ Answer(Estimate(p), kInvalidJobSize)
    /\ UNCHANGED flows_

Reassemble(s, p) ==
    /\ ~IsSyn(s, p) /\ ~KeepsInOrder(s, p) /\ ~PastWindow(s, p) /\ ~IsDuplicate(s, p)
    /\ LET range == NewBytes(s, p)
           list == Inserted(s, p, range)
           released == IF IsEmpty(range) THEN 0 ELSE NumReleased(list, s.next_psn_)
           traversals == Smaller(Position(s.ooo_list_, p), Len(s.ooo_list_))
       IN  /\ SetFlow(p.flow,
                [next_psn_ |-> IF released = 0 THEN s.next_psn_ ELSE list[released].second,
                 ooo_list_ |-> SubSeq(list, released + 1, Len(list))])
           /\ Answer(Estimate(p), toServiceTime(traversals + released))

process(p) ==
    /\ p.kind = "INNOCENT" /\ p.is_tcp /\ ~p.fin /\ p.psn # p.next_psn
    /\ LET s == Flow(p.flow)
       IN  Syn(s, p) \/ InOrder(s, p) \/ Drop(s, p) \/ Reassemble(s, p)

\* A packet arrives.
Arrive ==
    /\ ~aborted
    /\ \E p \in Packets :
        /\ packet' = p
        /\ Attack(p) \/ Ignore(p) \/ FinOrRst(p) \/ process(p)
    /\ UNCHANGED use_heuristic

Aborted == aborted /\ UNCHANGED vars

Next == Arrive \/ Aborted

Spec == Init /\ [][Next]_vars

-----------------------------------------------------------------------------
(* Properties.                                                             *)

Nodes == [first : Seqs, second : Seqs]

\* Sequence numbers keep their width in every flow, and job sizes are times or
\* the mark of a packet without a job.
TypeOK ==
    /\ use_heuristic \in BOOLEAN /\ aborted \in BOOLEAN
    /\ DOMAIN flows_ \subseteq Flows
    /\ \A f \in DOMAIN flows_ :
        /\ flows_[f].next_psn_ \in Seqs
        /\ flows_[f].ooo_list_ \in Seq(Nodes)
    /\ packet \in Packets \cup {<<>>}
    /\ {job_size_estimate, job_size_actual} \subseteq Nat \cup {kInvalidJobSize}

\* The out-of-order list of a flow is sorted, its nodes are not empty and do not
\* overlap, and the first of them does not continue the stream: whatever
\* packets overlap, repeat or run over the last sequence number.
OooListOrdered ==
    \A f \in DOMAIN flows_ :
        LET list == flows_[f].ooo_list_
        IN  \A i \in 1 .. Len(list) :
                /\ list[i].first < list[i].second
                /\ IF i = 1 THEN list[i].first > flows_[f].next_psn_
                            ELSE list[i].first >= list[i - 1].second
\* The bytes a flow holds back.
Held(list) == UNION {list[i].first .. list[i].second - 1 : i \in DOMAIN list}

Buffer == INSTANCE ReassemblyBuffer WITH
    MaxSeq <- 2 ^ SeqBits - 1,
    Window <- kReassemblyWindowSizeInBytes,
    streams <- [f \in DOMAIN flows_ |->
                    [next |-> flows_[f].next_psn_, held |-> Held(flows_[f].ooo_list_)]],
    costs <- [estimate |-> job_size_estimate # kInvalidJobSize,
              actual |-> job_size_actual # kInvalidJobSize]

\* Whatever the order, overlap and repetition of packets, the list holds exactly
\* the bytes that came early, the stream goes on up to the first missing byte,
\* and the estimate promises a job exactly when there is one.
RefinesReassemblyBuffer == Buffer!RBSpec
=============================================================================
