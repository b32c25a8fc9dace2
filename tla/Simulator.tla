----------------------------- MODULE Simulator -----------------------------
(***************************************************************************)
(* The simulator of src/simulator/src/simulator.cpp: it parses its         *)
(* configuration (Configuration), then runs the event loop with its server *)
(* (server/server.cpp), its queue (PacketQueues) and its two traffic       *)
(* generators.  One step of the loop is one iteration: an arrival or a     *)
(* departure, whichever comes first.                                       *)
(*                                                                         *)
(* Times and job sizes are numbers.  What an application answers for a     *)
(* packet is chosen from Jobs, by what each application can answer.        *)
(***************************************************************************)
EXTENDS PacketQueues, Configuration

CONSTANTS
    Configs,    \* configurations to start from
    Traces,     \* by file: the packets, the flows, and whether lines have job sizes
    Jobs        \* <<estimate, actual, packet size>>

kInvalidJobSize == -1

VARIABLES
    config, phase,
    trace_left,             \* packets of the trace not read yet
    at_innocent, at_attack, \* arrival_time_ of the generators
    is_busy, packet, depart_time,           \* Server
    num_arrivals, num_departures, num_innocent_arrivals,
    steady_state_ns,
    ss_last_depart          \* when the last packet in ss_total_psize_i left

generators == <<trace_left, at_innocent, at_attack>>
server == <<is_busy, packet, depart_time>>
counts == <<num_arrivals, num_departures, num_innocent_arrivals>>
steady_state == <<steady_state_ns, ss_last_depart>>
vars == <<config, phase, queueVars, generators, server, counts, steady_state>>

-----------------------------------------------------------------------------
(* What a configuration says of the traffic.                               *)

\* A file that cannot be opened reads as an empty trace.
TraceOf(t) ==
    IF t.trace_fp \in DOMAIN Traces
    THEN Traces[t.trace_fp]
    ELSE [packets |-> 0, flows |-> 1, sized |-> {FALSE}]

NumFlows(t) == IF IsTrace(t) THEN TraceOf(t).flows ELSE Lookup(t, "num_flows", 1)

MaxArrivals(c) ==
    IF IsTrace(c.innocent_traffic)
    THEN TraceOf(c.innocent_traffic).packets
    ELSE c.max_num_arrivals

\* Innocent rates are not zero: innocent packets that never arrive would be
\* waited for as long as attack packets do.  Traffic uses at least one flow, and
\* no simulation lasts until the time that stands for never.
ASSUME ConfigsAssumption ==
    \A c \in Configs : ~Refused(c) =>
        /\ InnocentIat(c.innocent_traffic, c.dry) \in 1 .. kDblPosInfty - 1
        /\ MaxArrivals(c) \in Nat
        /\ MaxArrivals(c) * InnocentIat(c.innocent_traffic, c.dry) <= kDblPosInfty
        /\ NumFlows(c.innocent_traffic) \in Nat \ {0}
        /\ Lookup(AttackTraffic(c), "num_flows", 1) \in Nat \ {0}
        /\ Attacks(AttackTraffic(c), c.dry) =>
                {AttackTraffic(c).rate_bps, AttackTraffic(c).job_size_ns,
                 AttackTraffic(c).packet_size_bits} \subseteq Nat

\* The flows of the traffic are those that have a number.
ASSUME FlowsAssumption ==
    \A c \in Configs : ~Refused(c) =>
        0 .. NumFlows(c.innocent_traffic) + Lookup(AttackTraffic(c), "num_flows", 1) - 1
            \subseteq Flows

ASSUME JobsAssumption ==
    Jobs \subseteq (Nat \cup {kInvalidJobSize}) \X (Nat \cup {kInvalidJobSize}) \X Nat

NoPacket == [idx |-> -1, flow |-> 0, innocent |-> TRUE, est |-> 0, actual |-> 0,
             psize |-> 0, arrive |-> 0]

Init ==
    /\ config \in Configs
    /\ phase = "config"
    /\ QueueInit
    /\ trace_left = 0
    /\ at_innocent = 0 /\ at_attack = 0
    /\ is_busy = FALSE /\ packet = NoPacket /\ depart_time = 0
    /\ num_arrivals = 0 /\ num_departures = 0 /\ num_innocent_arrivals = 0
    /\ steady_state_ns = 0 /\ ss_last_depart = 0

-----------------------------------------------------------------------------
(* The configuration.                                                      *)

innocent_traffic == config.innocent_traffic
attack_traffic == AttackTraffic(config)
app == config.application.type
UsesTrace == IsTrace(innocent_traffic)

Trace == TraceOf(innocent_traffic)

\* Without attack traffic the first attack packet never arrives.
AttackStart ==
    IF AttackIat(attack_traffic, config.dry) = kDblPosInfty THEN kDblPosInfty ELSE 0

\* An exception ends the program.
ParseSimulationConfig ==
    /\ phase = "config"
    /\ IF Refused(config)
       THEN phase' = "refused" /\ UNCHANGED <<queueVars, generators>>
       ELSE /\ phase' = "running"
            /\ Generate(PolicyOf(config))
            /\ trace_left' = IF UsesTrace THEN Trace.packets ELSE 0
            /\ at_attack' = AttackStart
            /\ UNCHANGED at_innocent
    /\ UNCHANGED <<config, server, counts, steady_state>>

-----------------------------------------------------------------------------
(* Traffic.                                                                *)

\* Defect: the end of the trace is noticed one packet late.
MutantMoreArrivals ==
    IF UsesTrace THEN trace_left >= 0 ELSE num_innocent_arrivals < config.max_num_arrivals

MoreArrivals ==
    IF UsesTrace THEN trace_left > 0 ELSE num_innocent_arrivals < config.max_num_arrivals

NextArrivalTime == IF at_attack < at_innocent THEN at_attack ELSE at_innocent

NumInnocentFlows == NumFlows(innocent_traffic)

\* The synthetic generators take their flows in turn.
InnocentFlows ==
    IF UsesTrace THEN 0 .. NumInnocentFlows - 1 ELSE {num_innocent_arrivals % NumInnocentFlows}

\* Attack flows come after the innocent ones, and are no flow of a trace.
AttackFlow ==
    NumInnocentFlows
        + ((num_arrivals - num_innocent_arrivals) % Lookup(attack_traffic, "num_flows", 1))

\* Whether a packet comes with a job size, which each line of a trace may say,
\* and whether it may come with a TCP header.
Sized == IF UsesTrace THEN Trace.sized ELSE {FALSE}
HasTcpHeaders == UsesTrace

\* The asserts on the job size that a packet comes with.
AppAssertFails(sized) ==
    \/ app = "echo" /\ ~sized
    \/ app = "tcp_reassembly" /\ sized

\* The asserts on what an application makes of a packet: a job size that is drawn
\* is not negative, and no SYN comes ahead of a flow that has a gap.  A gap is
\* left only by a packet that had a job.
MayAssertFail ==
    \/ app = "iid_job_sizes" /\ DrawsNegative(config.application.job_size_ns_dist)
    \/ app = "tcp_reassembly" /\ HasTcpHeaders /\ num_innocent_arrivals > 0

MayBeServed == \E sized \in Sized : ~AppAssertFails(sized)
MayAbort == MayAssertFail \/ \E sized \in Sized : AppAssertFails(sized)

\* What a packet that passes the asserts is answered.  Echo reads its job size,
\* IID job sizes draws one whatever the packet says, and TCP reassembly estimates
\* it from TCP headers: without them, and for some packets with them, there is no
\* job.
Answers ==
    CASE app # "tcp_reassembly" ->
            {j \in Jobs : j[1] = j[2] /\ j[1] # kInvalidJobSize}
      [] HasTcpHeaders -> Jobs
      [] OTHER -> {j \in Jobs : j[2] = kInvalidJobSize}

Arrival(flow, innocent, job) ==
    [idx |-> num_arrivals, flow |-> flow, innocent |-> innocent,
     est |-> IF job[1] = kInvalidJobSize THEN 0 ELSE job[1],
     actual |-> job[2], psize |-> job[3], arrive |-> NextArrivalTime]

AttackJob == <<attack_traffic.job_size_ns, attack_traffic.job_size_ns,
               attack_traffic.packet_size_bits>>

-----------------------------------------------------------------------------
(* The server.                                                             *)

Schedule(time, p) ==
    /\ is_busy' = TRUE
    /\ packet' = p
    /\ depart_time' = time + p.actual

\* Defect: an arrival is taken before a departure that comes first.
MutantTakesArrival == phase = "running" /\ MoreArrivals

TakesArrival ==
    /\ phase = "running"
    /\ MoreArrivals
    /\ NextArrivalTime < depart_time \/ ~is_busy

\* A packet with a valid job size goes to the server, or into the queue.
Admit(p) ==
    /\ IF is_busy
       THEN Push(p) /\ UNCHANGED server
       ELSE Schedule(NextArrivalTime, p) /\ UNCHANGED queueVars
    /\ steady_state_ns' = NextArrivalTime
    /\ num_arrivals' = num_arrivals + 1
    /\ num_innocent_arrivals' = num_innocent_arrivals + (IF p.innocent THEN 1 ELSE 0)
    /\ UNCHANGED <<config, phase, num_departures, ss_last_depart>>

AttackArrival ==
    /\ TakesArrival /\ at_attack < at_innocent
    /\ Admit(Arrival(AttackFlow, FALSE, AttackJob))
    /\ at_attack' = at_attack + AttackIat(attack_traffic, config.dry)
    /\ UNCHANGED <<trace_left, at_innocent>>

InnocentTurn == TakesArrival /\ at_attack >= at_innocent

ReadTrace == trace_left' = IF UsesTrace THEN trace_left - 1 ELSE 0

InnocentArrival ==
    /\ InnocentTurn /\ MayBeServed
    /\ \E flow \in InnocentFlows, job \in Answers :
        /\ job[2] # kInvalidJobSize
        /\ Admit(Arrival(flow, TRUE, job))
    /\ at_innocent' = at_innocent + InnocentIat(innocent_traffic, config.dry)
    /\ ReadTrace
    /\ UNCHANGED at_attack

\* A packet without a job is read and forgotten: the next one arrives instead.
PassThrough ==
    /\ InnocentTurn /\ MayBeServed
    /\ \E job \in Answers : job[2] = kInvalidJobSize
    /\ ReadTrace
    /\ UNCHANGED <<config, phase, queueVars, at_innocent, at_attack, server, counts,
                   steady_state>>

\* An assert of the application fails, at the first packet or in the middle of
\* the run.
Abort ==
    /\ InnocentTurn /\ MayAbort
    /\ phase' = "aborted"
    /\ UNCHANGED <<config, queueVars, generators, server, counts, steady_state>>

LoopContinues == MoreArrivals \/ num_arrivals # num_departures

\* Defect: the server is left idle while packets wait.
MutantServeNext ==
    is_busy' = FALSE /\ UNCHANGED <<queueVars, packet, depart_time>>

\* The next packet is taken from the queue when the one before it leaves.
ServeNext ==
    IF QueueEmpty
    THEN is_busy' = FALSE /\ UNCHANGED <<queueVars, packet, depart_time>>
    ELSE \E p \in Waiting : Pop(p) /\ Schedule(depart_time, p)

\* Defect: attack packets are not counted out.
MutantCountedOut == num_departures + (IF packet.innocent THEN 1 ELSE 0)

CountedOut == num_departures + 1

Departure ==
    /\ phase = "running" /\ LoopContinues /\ ~TakesArrival
    /\ ServeNext
    /\ num_departures' = CountedOut
    /\ ss_last_depart' = IF packet.innocent /\ MoreArrivals THEN depart_time ELSE ss_last_depart
    /\ UNCHANGED <<config, phase, generators, num_arrivals, num_innocent_arrivals,
                   steady_state_ns>>

\* The averages are divided by the number of innocent arrivals, the first of
\* them as integers.
Finish ==
    /\ phase = "running" /\ ~LoopContinues
    /\ phase' = IF num_innocent_arrivals = 0 THEN "aborted" ELSE "done"
    /\ UNCHANGED <<config, queueVars, generators, server, counts, steady_state>>

Ended == phase \in {"refused", "aborted", "done"}

Next ==
    \/ ParseSimulationConfig
    \/ AttackArrival
    \/ InnocentArrival
    \/ PassThrough
    \/ Abort
    \/ Departure
    \/ Finish
    \/ Ended /\ UNCHANGED vars

Spec == Init /\ [][Next]_vars /\ WF_vars(Next)

-----------------------------------------------------------------------------
(* Properties.                                                             *)

Packets ==
    [idx : Nat, flow : Flows, innocent : BOOLEAN, est : Nat, actual : Nat,
     psize : Nat, arrive : Nat]

\* Packets wait only in the queue of the chosen policy, and counters are numbers.
TypeOK ==
    /\ config \in Configs
    /\ phase \in {"config", "refused", "running", "aborted", "done"}
    /\ policy \in IF phase \in {"config", "refused"} THEN {NoQueue} ELSE Policies
    /\ Waiting \subseteq Packets
    /\ fifo # <<>> => policy = "fcfs"
    /\ heap # {} => policy \in {"sjf", "wsjf", "fq"}
    /\ DOMAIN fq_data # {} => policy = "fq"
    /\ DOMAIN data # {} => policy \in InorderPolicies
    /\ packet \in Packets \cup {NoPacket}
    /\ {size, trace_left, at_innocent, at_attack, depart_time, num_arrivals,
        num_departures, num_innocent_arrivals, steady_state_ns, ss_last_depart} \subseteq Nat
    /\ is_busy \in BOOLEAN

\* The metadata of the flow-based queues agrees with the packets that wait: the
\* counts, the virtual clock (that of the flow's last packet), and the priority of
\* each flow, which is recomputed at every push and pop; and every packet that
\* arrived has left, is served, or waits.
QueueConsistent ==
    /\ num_arrivals - num_departures = Cardinality(Waiting) + IF is_busy THEN 1 ELSE 0
    /\ policy = "fq" =>
        /\ size = Cardinality(heap)
        /\ DOMAIN fq_data = {e.tag.flow : e \in heap}
        /\ \A f \in DOMAIN fq_data :
            LET mine == {e \in heap : e.tag.flow = f}
            IN  /\ fq_data[f].num_packets = Cardinality(mine)
                /\ \E e \in mine :
                    /\ e.num = fq_data[f].virtual_clock
                    /\ \A other \in mine : other.tag.idx <= e.tag.idx
    /\ policy \in InorderPolicies =>
        /\ size = Cardinality(Waiting)
        /\ DOMAIN priorities = DOMAIN data
        /\ \A f \in DOMAIN data :
            /\ data[f].queue # <<>>
            /\ priorities[f] = FlowPriority(f, data[f])

\* A policy that claims flow order serves no packet before an older one of its
\* flow, and an application that computes its state on that assumption is never
\* run with another policy.
FlowOrderKept ==
    /\ phase = "running"
    /\ policy \in FlowOrderPolicies \/ IsFlowOrderRequired(config.application)
    /\ is_busy
    => \A p \in Waiting : p.flow = packet.flow => p.idx > packet.idx

\* The asserts of the loop and of Server::schedule: the server is idle only with
\* an empty queue, departs only when busy, is never scheduled into its past, and
\* both are empty at the end.
AssertsHold ==
    /\ ~is_busy => QueueEmpty
    /\ phase = "running" /\ LoopContinues /\ ~TakesArrival => is_busy
    /\ TakesArrival /\ ~is_busy => NextArrivalTime >= depart_time
    /\ phase = "running" /\ ~LoopContinues => QueueEmpty /\ ~is_busy

\* The packet log is ordered by departure, and no packet is served before it
\* arrives (getLatency throws then): the server starts a packet when it arrives
\* or when the one before it leaves, and a later arrival is never in the queue.
DeparturesOrdered ==
    [][/\ depart_time' >= depart_time
       /\ is_busy' => packet'.arrive + packet'.actual <= depart_time']_vars

\* The sanity check of SJFInorderFlowMetadata::pop, on the sum it has just
\* reduced: the jobs that wait in a flow never add up to less than nothing.
TotalJobSizeNonNegative ==
    [][\A f \in DOMAIN data :
        (policy = "sjf_inorder" /\ size' < size /\
            (f \notin DOMAIN data' \/ Len(data'[f].queue) < Len(data[f].queue)))
        => FlowPop(data[f]).total_jsize >= 0]_vars

\* Steady-state goodput is what was served over the steady-state period, so what
\* is counted was served within the period.
SteadyStateWithinPeriod == phase = "done" => ss_last_depart <= steady_state_ns

WithoutAttackRate(c) ==
    [c EXCEPT !.attack_traffic = [key \in DOMAIN @ \ {"rate_bps"} |-> @[key]]]

\* "In dry-run mode, but adversarial rate is non-zero. No attack traffic will be
\* generated": a dry run that is refused is refused without that rate as well.
DryRunIgnoresAttack ==
    phase = "refused" /\ config.dry /\ Gives(config, {"attack_traffic"}) =>
        Refused(WithoutAttackRate(config))

\* The simulation ends, for every configuration but one kind: no packet of
\* synthetic traffic has a job for TCP reassembly, and they do not run out.
Terminates ==
    phase = "running" /\ (UsesTrace \/ app # "tcp_reassembly")
        ~> phase \in {"aborted", "done"}

\* The packets of a flow that wait, where the policy claims flow order.
Line(f) ==
    IF policy \in FlowOrderPolicies THEN {p \in Waiting : p.flow = f} ELSE {}

Ordered == INSTANCE FlowOrderedQueue WITH lines <- [f \in Flows |-> Line(f)]

\* Whatever the scheduling policy, flow order is an array of lines that only
\* lose their heads: no packet is lost, repeated or overtaken in its flow.
RefinesFlowOrderedQueue == Ordered!FOSpec
=============================================================================
