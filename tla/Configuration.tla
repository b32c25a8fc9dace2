--------------------------- MODULE Configuration ---------------------------
(***************************************************************************)
(* What Simulator::parseSimulationConfig accepts, and what it makes of it: *)
(* simulator.cpp with QueueFactory, ApplicationFactory, the constructor of *)
(* Server, TrafficGeneratorFactory and DistributionFactory.                *)
(*                                                                         *)
(* A libconfig group is a record with a field for each key that is given;  *)
(* the field dry of the outermost one is the flag of the command line.     *)
(* Every exception of this code ends the program, so the operators tell    *)
(* apart only whether one is thrown.                                       *)
(*                                                                         *)
(* Rates, sizes and times are integers in units of the configurations:     *)
(* where the quotients are exact, so is the comparison of doubles.         *)
(***************************************************************************)
EXTENDS Integers, QueueingPolicies

CONSTANTS
    kNanosecsPerSec, kDblPosInfty,
    kDryRunIATInNs      \* inter-arrival time where no rate is used

ASSUME UnitsAssumption ==
    /\ kNanosecsPerSec \in Nat \ {0}
    /\ kDblPosInfty \in Nat \ {0}
    /\ kDryRunIATInNs \in Nat \ {0}

Applications == {"iid_job_sizes", "echo", "tcp_reassembly"}

Gives(group, keys) == keys \subseteq DOMAIN group

Lookup(group, key, default) == IF Gives(group, {key}) THEN group[key] ELSE default

-----------------------------------------------------------------------------
(* DistributionFactory::generate.                                          *)

\* For each type, the sets of keys of which one must be given.
Parameters ==
    [constant |-> {{"value"}},
     exponential |-> {{"rate"}},
     normal |-> {{"mu", "sigma"}},
     uniform |-> {{"lower", "upper"}, {"mean", "std"}}]

DistributionRefused(dist) ==
    \/ ~Gives(dist, {"type"})
    \/ dist.type \notin DOMAIN Parameters
    \/ \A keys \in Parameters[dist.type] : ~Gives(dist, keys)

\* The mean of a truncated normal distribution is measured, and near mu when it
\* is cut symmetrically.  The rate of an exponential one is its reciprocal here.
Mean(dist) ==
    CASE dist.type = "constant" -> dist.value
      [] dist.type = "exponential" -> dist.rate
      [] dist.type = "normal" -> dist.mu
      [] OTHER -> IF Gives(dist, {"lower", "upper"})
                  THEN (dist.lower + dist.upper) \div 2
                  ELSE dist.mean

\* Whether sample() may return less than nothing.  A normal distribution is cut
\* only where the configuration says so; a uniform one that is given by its mean
\* extends to both sides by the square root of 3 times std.
DrawsNegative(dist) ==
    CASE dist.type = "constant" -> dist.value < 0
      [] dist.type = "exponential" -> FALSE
      [] dist.type = "normal" -> Lookup(dist, "min", -1) < 0
      [] OTHER -> IF Gives(dist, {"lower", "upper"})
                  THEN dist.lower < 0
                  ELSE dist.mean < 0 \/ dist.mean * dist.mean < 3 * dist.std * dist.std

-----------------------------------------------------------------------------
(* Queue, application and server.                                          *)

\* A dry run does not read the policy.
PolicyOf(c) == IF c.dry THEN "fcfs" ELSE c.policy

QueueRefused(c) == ~c.dry /\ (~Gives(c, {"policy"}) \/ c.policy \notin Policies)

ApplicationRefused(a) ==
    \/ ~Gives(a, {"stsf", "max_attack_job_size_ns", "type"})
    \/ a.type \notin Applications
    \/ /\ a.type = "iid_job_sizes"
       /\ ~Gives(a, {"job_size_ns_dist"}) \/ DistributionRefused(a.job_size_ns_dist)

\* An application that keeps state per flow needs its packets in order.
IsFlowOrderRequired(a) == a.type = "tcp_reassembly"

\* Defect: the order that the application needs is not asked of the policy.
MutantServerRefused(c) == FALSE

ServerRefused(c) ==
    IsFlowOrderRequired(c.application) /\ PolicyOf(c) \notin FlowOrderPolicies

-----------------------------------------------------------------------------
(* Traffic generators.  A rate of zero is an infinite inter-arrival time.  *)

InterArrivalTime(psize, rate) ==
    IF rate = 0 THEN kDblPosInfty ELSE (kNanosecsPerSec * psize) \div rate

RateInBitsPerSecond(psize, iat) ==
    IF iat = kDblPosInfty THEN 0 ELSE (kNanosecsPerSec * psize) \div iat

\* calibrate(): the rate computed back from the inter-arrival time is the one
\* asked for.  With empty packets it is 0 / 0, equal to nothing.
Calibrates(rate, psize, iat) == iat # 0 /\ rate = RateInBitsPerSecond(psize, iat)

IsTrace(t) == t.type = "trace"

\* Trace-driven traffic is calibrated by the average packet size, and synthetic
\* traffic by its rate; neither in a dry run.
IsCalibrated(t, dry) ==
    ~dry /\ Gives(t, IF IsTrace(t) THEN {"average_packet_size_bits", "rate_bps"}
                                   ELSE {"rate_bps"})

AveragePacketSize(t) ==
    IF IsTrace(t) THEN t.average_packet_size_bits ELSE Mean(t.packet_size_bits_dist)

InnocentIat(t, dry) ==
    IF IsCalibrated(t, dry)
    THEN InterArrivalTime(AveragePacketSize(t), t.rate_bps)
    ELSE kDryRunIATInNs

InnocentRefused(t, dry) ==
    \/ ~Gives(t, {"type"})
    \/ t.type \notin {"trace", "synthetic"}
    \/ t.type = "trace" /\ ~Gives(t, {"trace_fp"})
    \/ /\ t.type = "synthetic"
       /\ \/ ~Gives(t, {"packet_size_bits_dist"})
          \/ DistributionRefused(t.packet_size_bits_dist)
          \/ /\ IsCalibrated(t, dry)
             /\ ~Calibrates(t.rate_bps, AveragePacketSize(t), InnocentIat(t, dry))
    \/ ~dry /\ ~IsCalibrated(t, dry)

\* Attack traffic is sent when its rate is not zero, but not in a dry run.
Attacks(t, dry) == Lookup(t, "rate_bps", 0) > 0 /\ ~dry

AttackPacketSize(t, dry) == IF Attacks(t, dry) THEN t.packet_size_bits ELSE 0

AttackIat(t, dry) ==
    IF Attacks(t, dry)
    THEN InterArrivalTime(t.packet_size_bits, t.rate_bps)
    ELSE kDblPosInfty

\* The rate that is calibrated is the one of the configuration, in a dry run too.
AttackRefused(t, dry) ==
    \/ ~Gives(t, {"type"})
    \/ t.type # "synthetic"
    \/ Attacks(t, dry) /\ ~Gives(t, {"job_size_ns", "packet_size_bits"})
    \/ ~Calibrates(Lookup(t, "rate_bps", 0), AttackPacketSize(t, dry), AttackIat(t, dry))

-----------------------------------------------------------------------------
(* Simulator::parseSimulationConfig.                                       *)

\* Without a group for it there is no attack traffic.
AttackTraffic(c) == Lookup(c, "attack_traffic", [type |-> "synthetic"])

\* The number of arrivals is limited iff there is no trace.
MaxArrivalsRefused(c) == IsTrace(c.innocent_traffic) <=> Gives(c, {"max_num_arrivals"})

Refused(c) ==
    \/ QueueRefused(c)
    \/ ~Gives(c, {"application"})
    \/ ApplicationRefused(c.application)
    \/ ServerRefused(c)
    \/ ~Gives(c, {"innocent_traffic"})
    \/ InnocentRefused(c.innocent_traffic, c.dry)
    \/ AttackRefused(AttackTraffic(c), c.dry)
    \/ MaxArrivalsRefused(c)
=============================================================================
