---------------------------- MODULE MCSimulator ----------------------------
(* Two innocent flows and one of the attack. *)
EXTENDS Simulator

MCFlows == 0 .. 2
Exact(x) == x

\* Equal and different sizes, a wrong estimate, an empty job, a packet without a job.
MCJobs == {<<0, 0, 1>>, <<2, 2, 1>>, <<2, 2, 2>>, <<2, 5, 1>>, <<-1, -1, 1>>}

MCTraces ==
    [plain |-> [packets |-> 4, flows |-> 2, sized |-> {FALSE}],
     mixed |-> [packets |-> 4, flows |-> 2, sized |-> BOOLEAN]]

\* One packet per unit of time.
Constant == [type |-> "constant", value |-> 1]
Synthetic == [type |-> "synthetic", num_flows |-> 2, rate_bps |-> 4, packet_size_bits_dist |-> Constant]
PlainTrace == [type |-> "trace", trace_fp |-> "plain", average_packet_size_bits |-> 1, rate_bps |-> 4]
MixedTrace == [PlainTrace EXCEPT !.trace_fp = "mixed"]
NoTrace == [PlainTrace EXCEPT !.trace_fp = "missing"]
Attack == [type |-> "synthetic", rate_bps |-> 2, job_size_ns |-> 2, packet_size_bits |-> 1]

Type(t) == [type |-> t, stsf |-> 1, max_attack_job_size_ns |-> 9]
WithKey(group, key, value) ==
    [k \in DOMAIN group \cup {key} |-> IF k = key THEN value ELSE group[k]]
WithoutKey(group, key) == [k \in DOMAIN group \ {key} |-> group[k]]
Normal == [type |-> "normal", mu |-> 2, sigma |-> 1]
IidOf(dist) == WithKey(Type("iid_job_sizes"), "job_size_ns_dist", dist)
Iid == IidOf(WithKey(Normal, "min", 0))

\* Application and innocent traffic: pairs that work, pairs where a packet or a
\* draw may be one that the application refuses, and pairs that cannot work.
Workloads ==
    {<<Iid, Synthetic>>, <<IidOf(Normal), PlainTrace>>, <<Type("echo"), MixedTrace>>, <<Type("tcp_reassembly"), PlainTrace>>,
     <<Type("echo"), Synthetic>>, <<Type("echo"), NoTrace>>,
     <<Type("tcp_reassembly"), MixedTrace>>, <<Type("tcp_reassembly"), Synthetic>>}

Config(dry, p, work, attack) ==
    LET root == [dry |-> dry, policy |-> p, application |-> work[1],
                 innocent_traffic |-> work[2]]
        limited == IF IsTrace(work[2]) THEN root ELSE WithKey(root, "max_num_arrivals", 6)
    IN  IF attack THEN WithKey(limited, "attack_traffic", Attack) ELSE limited

Complete == {Config(dry, p, work, attack) :
                dry \in BOOLEAN, p \in Policies, work \in Workloads, attack \in BOOLEAN}

\* What is missing, superfluous or wrong in a configuration, one at a time.
Example == Config(FALSE, "sjf", <<Iid, Synthetic>>, TRUE)
Incomplete ==
    LET WithAttack(key, value) ==
            WithKey(Example, "attack_traffic", WithKey(Attack, key, value))
        WithTraffic(t) == WithKey(Example, "innocent_traffic", t)
    IN  {WithoutKey(Example, key) : key \in {"policy", "application", "innocent_traffic", "max_num_arrivals"}}
        \cup {WithKey(Example, "policy", "lifo"),
              WithKey(Example, "application", Type("iid_job_sizes")),
              WithKey(Example, "application", WithoutKey(Iid, "stsf")),
              WithKey(Example, "application", Type("http")),
              WithTraffic(WithoutKey(Synthetic, "rate_bps")),
              WithTraffic(WithKey(Synthetic, "packet_size_bits_dist", [type |-> "uniform", lower |-> 1])),
              WithTraffic(WithKey(Synthetic, "packet_size_bits_dist", [Constant EXCEPT !.value = 0])),
              WithTraffic(PlainTrace),
              WithAttack("packet_size_bits", 0),
              WithKey(Example, "attack_traffic", WithoutKey(Attack, "job_size_ns")),
              WithKey(Example, "attack_traffic", PlainTrace)}

MCConfigs == Complete \cup Incomplete

\* Mantissas of three bits, as wide as the jobs themselves: half to even.
Units == {1, 2, 4}
Unit(x) == CHOOSE u \in Units : x < 8 * u /\ \A v \in Units : v < u => x >= 8 * v
ToUnit(x, u) ==
    LET q == x \div u
        r == x % u
    IN  u * (IF 2 * r > u \/ (2 * r = u /\ q % 2 = 1) THEN q + 1 ELSE q)
ThreeBits(x) == IF x >= 0 THEN ToUnit(x, Unit(x)) ELSE -ToUnit(-x, Unit(-x))

MCFullJobs == {<<7, 7, 1>>, <<6, 6, 1>>}
MCInorderConfigs == {Config(FALSE, "sjf_inorder", <<Iid, Synthetic>>, attack) : attack \in BOOLEAN}
=============================================================================
