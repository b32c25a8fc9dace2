---------------------------- MODULE BenchServer ----------------------------
(***************************************************************************)
(* The benchmark server (src/scheduler/benchmark/server): the scheduler    *)
(* loop with one of its four policies, the processing lcore and the        *)
(* profiling lcore, joined by two rings.  Each step of a lcore between two *)
(* accesses to shared state is an action, so the three interleave.         *)
(*                                                                         *)
(* An mbuf is known by its packet (job size and size) while the order of   *)
(* service depends on it, and counted after that.  DPDK is external: a     *)
(* ring created with size n holds n - 1 mbufs, the pool is a count, and    *)
(* rte_eth_rx_burst returns any burst the pool has mbufs for.              *)
(***************************************************************************)
EXTENDS Integers, SequencesExt

CONSTANTS
    BURST_SIZE, SCHEDULER_QUEUE_SIZE, PROCESS_RING_SIZE,
    Packets,        \* the packets that may arrive
    kScaleFactor, kNumBuckets,      \* of the hffs queue
    WeightMod,      \* its arithmetic is modulo this (2^32 for uint32_t)
    PoolSize        \* mbufs of the pool that are not in the NIC or a cache

ASSUME SizeAssumption ==
    /\ BURST_SIZE \in Nat /\ BURST_SIZE >= 2
    /\ SCHEDULER_QUEUE_SIZE \in Nat /\ SCHEDULER_QUEUE_SIZE >= BURST_SIZE
    /\ PROCESS_RING_SIZE \in Nat /\ PROCESS_RING_SIZE >= BURST_SIZE
    /\ PoolSize \in Nat
ASSUME ScaleAssumption == kScaleFactor \in Nat /\ WeightMod \in Nat \ {0}
ASSUME PacketAssumption == Packets \subseteq [jsize : Nat, psize : Nat \ {0}]

VARIABLES
    policy,         \* chosen on the command line
    sending,        \* the environment may still send packets
    quit,
    pool,           \* the number of free mbufs
    queue,          \* the packets of the packet queue, the oldest first
    bufs,           \* the mbufs of the burst not dealt with yet
    free_slots,     \* the local of scheduleBurst, 0 outside it
    process_ring, profile_ring,     \* their lengths
    pc,             \* where each lcore is
    candidates      \* auxiliary: what those that drop by weight choose from

vars == <<policy, sending, quit, pool, queue, bufs, free_slots, process_ring,
          profile_ring, pc, candidates>>

Policies == {"fcfs", "wsjf_drop_tail", "wsjf_drop_max", "wsjf_hffs"}
DropByWeight == {"wsjf_drop_max", "wsjf_hffs"}
Lcores == {"scheduler", "process", "profile"}
Bursts == UNION {[1 .. n -> Packets] : n \in 0 .. BURST_SIZE}

\* By job size over packet size, which getPacketWeight computes as a double.
Lighter(p, q) == p.jsize * q.psize < q.jsize * p.psize

\* The hffs queue keeps no more of the weight than the bucket it falls into:
\* the multiplication wraps, the division truncates.
BucketIdx(p) == ((p.jsize * kScaleFactor) % WeightMod) \div p.psize

\* Beyond its last bucket the hffs queue fails an assertion (HffsQueue).  What
\* the packet generator sends is within.
ASSUME BucketAssumption == \A p \in Packets : BucketIdx(p) < kNumBuckets

\* The order of the policy's queue.
Before(p, q) ==
    IF policy = "wsjf_hffs" THEN BucketIdx(p) < BucketIdx(q) ELSE Lighter(p, q)

\* The places of the packets that no other packet of the queue goes before,
\* and of those that go before no other.
Foremost(q) == {i \in DOMAIN q : \A j \in DOMAIN q : ~ Before(q[j], q[i])}
Hindmost(q) == {i \in DOMAIN q : \A j \in DOMAIN q : ~ Before(q[i], q[j])}

\* A bucket is a FIFO; a Fibonacci heap may return any of several equal ones.
Choice(places) == IF policy = "wsjf_hffs" THEN {Min(places)} ELSE places

\* What the queue may be after a pop.
PopMin(q) == {RemoveAt(q, i) : i \in Choice(Foremost(q))}
PopMax(q) == {RemoveAt(q, i) : i \in Choice(Hindmost(q))}

ProcessCapacity ==
    (IF policy = "fcfs" THEN SCHEDULER_QUEUE_SIZE ELSE PROCESS_RING_SIZE) - 1
ProfileCapacity == BURST_SIZE - 1

Goto(lcore, label) == pc' = [pc EXCEPT ![lcore] = label]

\* In the code's terms: no packet, all lcores launched.
Init ==
    /\ policy \in Policies
    /\ sending = TRUE
    /\ quit = FALSE
    /\ pool = PoolSize
    /\ queue = <<>>
    /\ bufs = <<>>
    /\ free_slots = 0
    /\ process_ring = 0
    /\ profile_ring = 0
    /\ pc = [scheduler |-> "schedule", process |-> "poll", profile |-> "poll"]
    /\ candidates = <<>>

-----------------------------------------------------------------------------
(* The scheduler: Scheduler::run and the policies.                         *)

\* Scheduler::run tests quit; scheduleBurst starts by reading the ring once.
ScheduleBurst ==
    /\ pc["scheduler"] = "schedule"
    /\ IF quit THEN Goto("scheduler", "done") /\ UNCHANGED free_slots
       ELSE IF policy = "fcfs" THEN Goto("scheduler", "rx") /\ UNCHANGED free_slots
       ELSE Goto("scheduler", "hand_on") /\ free_slots' = ProcessCapacity - process_ring
    /\ candidates' = <<>>
    /\ UNCHANGED <<policy, sending, quit, pool, queue, bufs, process_ring, profile_ring>>

\* Defect: the slot taken is not subtracted.
MutantRemainingSlots == free_slots

RemainingSlots == free_slots - 1

\* One mbuf goes to the process ring; one the ring has no room for is lost, as
\* the result of rte_ring_enqueue is ignored.
HandOn ==
    /\ pc["scheduler"] = "hand_on"
    /\ IF queue # <<>> /\ free_slots > 0
       THEN /\ queue' \in PopMin(queue)
            /\ process_ring' = Min({process_ring + 1, ProcessCapacity})
            /\ free_slots' = RemainingSlots
            /\ UNCHANGED pc
       ELSE Goto("scheduler", "rx") /\ free_slots' = 0 /\ UNCHANGED <<queue, process_ring>>
    /\ UNCHANGED <<policy, sending, quit, pool, bufs, profile_ring, candidates>>

RxBurst ==
    /\ pc["scheduler"] = "rx"
    /\ \E burst \in Bursts :
        /\ Len(burst) <= pool
        /\ burst # <<>> => sending
        /\ bufs' = burst
        /\ pool' = pool - Len(burst)
        /\ candidates' = IF policy \in DropByWeight THEN queue \o burst ELSE <<>>
        /\ Goto("scheduler", IF burst = <<>> THEN "schedule" ELSE "enqueue")
    /\ UNCHANGED <<policy, sending, quit, queue, free_slots, process_ring, profile_ring>>

\* Defect: the burst goes into the ring whole.
MutantNumEnqueued == Len(bufs)

\* What rte_ring_sp_enqueue_burst takes of the burst.
num_enqueued == Min({Len(bufs), ProcessCapacity - process_ring})

\* enqueueBurst of PolicyFCFS.
EnqueueFCFS ==
    /\ pc["scheduler"] = "enqueue" /\ policy = "fcfs"
    /\ process_ring' = process_ring + num_enqueued
    /\ bufs' = SubSeq(bufs, num_enqueued + 1, Len(bufs))
    /\ Goto("scheduler", "free_rest")
    /\ UNCHANGED <<policy, sending, quit, pool, queue, free_slots, profile_ring, candidates>>

\* enqueueBurst of PolicyWSJFFibonacciDropTail, one iteration of its loop.
EnqueueDropTail ==
    /\ pc["scheduler"] = "enqueue" /\ policy = "wsjf_drop_tail"
    /\ IF bufs # <<>> /\ Len(queue) < SCHEDULER_QUEUE_SIZE
       THEN queue' = Append(queue, Head(bufs)) /\ bufs' = Tail(bufs) /\ UNCHANGED pc
       ELSE Goto("scheduler", "free_rest") /\ UNCHANGED <<queue, bufs>>
    /\ UNCHANGED <<policy, sending, quit, pool, free_slots, process_ring, profile_ring,
                   candidates>>

\* enqueueBurst of PolicyWSJFFibonacciDropMax, one iteration: BoundedHeap's
\* push, which may give back an mbuf to drop.
Dropped(pushed) == Len(pushed) > SCHEDULER_QUEUE_SIZE

\* Defect: the newcomer is dropped.
MutantAfterDrop(pushed) == IF Dropped(pushed) THEN {Front(pushed)} ELSE {pushed}

AfterDrop(pushed) == IF Dropped(pushed) THEN PopMax(pushed) ELSE {pushed}

EnqueueDropMax ==
    /\ pc["scheduler"] = "enqueue" /\ policy = "wsjf_drop_max"
    /\ IF bufs # <<>>
       THEN LET pushed == Append(queue, Head(bufs))
            IN  /\ queue' \in AfterDrop(pushed)
                /\ pool' = IF Dropped(pushed) THEN pool + 1 ELSE pool
                /\ bufs' = Tail(bufs)
                /\ UNCHANGED pc
       ELSE Goto("scheduler", "schedule") /\ UNCHANGED <<queue, pool, bufs>>
    /\ UNCHANGED <<policy, sending, quit, free_slots, process_ring, profile_ring, candidates>>

\* enqueueBurst of PolicyWSJFHierarchicalFFS: push all, then trim.
EnqueueHffs ==
    /\ pc["scheduler"] = "enqueue" /\ policy = "wsjf_hffs"
    /\ IF bufs # <<>>
       THEN queue' = Append(queue, Head(bufs)) /\ bufs' = Tail(bufs) /\ UNCHANGED pc
       ELSE Goto("scheduler", "trim") /\ UNCHANGED <<queue, bufs>>
    /\ UNCHANGED <<policy, sending, quit, pool, free_slots, process_ring, profile_ring,
                   candidates>>

\* Defect: the queue is left room for one more burst.
MutantOverLimit == Len(queue) > SCHEDULER_QUEUE_SIZE + BURST_SIZE

OverLimit == Len(queue) > SCHEDULER_QUEUE_SIZE

Trim ==
    /\ pc["scheduler"] = "trim"
    /\ IF OverLimit
       THEN queue' \in PopMax(queue) /\ pool' = pool + 1 /\ UNCHANGED pc
       ELSE Goto("scheduler", "schedule") /\ UNCHANGED <<queue, pool>>
    /\ UNCHANGED <<policy, sending, quit, bufs, free_slots, process_ring, profile_ring,
                   candidates>>

\* The mbufs of the burst that were not enqueued are freed.
FreeRest ==
    /\ pc["scheduler"] = "free_rest"
    /\ pool' = pool + Len(bufs)
    /\ bufs' = <<>>
    /\ Goto("scheduler", "schedule")
    /\ UNCHANGED <<policy, sending, quit, queue, free_slots, process_ring, profile_ring,
                   candidates>>

SchedulerStep ==
    \/ ScheduleBurst \/ HandOn \/ RxBurst
    \/ EnqueueFCFS \/ EnqueueDropTail \/ EnqueueDropMax \/ EnqueueHffs
    \/ Trim \/ FreeRest

-----------------------------------------------------------------------------
(* The worker lcores.                                                      *)

\* The loop test of lcore_process and lcore_profile.
Exit(lcore) ==
    /\ pc[lcore] = "poll"
    /\ quit
    /\ Goto(lcore, "done")
    /\ UNCHANGED <<policy, sending, quit, pool, queue, bufs, free_slots, process_ring,
                   profile_ring, candidates>>

ProcessTake ==
    /\ pc["process"] = "poll"
    /\ ~ quit
    /\ process_ring > 0
    /\ process_ring' = process_ring - 1
    /\ Goto("process", "hand_off")
    /\ UNCHANGED <<policy, sending, quit, pool, queue, bufs, free_slots, profile_ring,
                   candidates>>

\* Defect: try again until the profile ring has room.
MutantProcessHandOff ==
    /\ pc["process"] = "hand_off"
    /\ IF profile_ring < ProfileCapacity
       THEN profile_ring' = profile_ring + 1 /\ Goto("process", "poll")
       ELSE UNCHANGED <<profile_ring, pc>>
    /\ UNCHANGED <<policy, sending, quit, pool, queue, bufs, free_slots, process_ring,
                   candidates>>

\* The job has been worked off; the mbuf is freed if the profile ring is full.
ProcessHandOff ==
    /\ pc["process"] = "hand_off"
    /\ IF profile_ring < ProfileCapacity
       THEN profile_ring' = profile_ring + 1 /\ UNCHANGED pool
       ELSE pool' = pool + 1 /\ UNCHANGED profile_ring
    /\ Goto("process", "poll")
    /\ UNCHANGED <<policy, sending, quit, queue, bufs, free_slots, process_ring, candidates>>

\* Defect: an mbuf waits for the next one.
MutantProfileReady == profile_ring > 1

ProfileReady == profile_ring > 0

ProfileTake ==
    /\ pc["profile"] = "poll"
    /\ ~ quit
    /\ ProfileReady
    /\ profile_ring' = profile_ring - 1
    /\ Goto("profile", "free")
    /\ UNCHANGED <<policy, sending, quit, pool, queue, bufs, free_slots, process_ring,
                   candidates>>

ProfileFree ==
    /\ pc["profile"] = "free"
    /\ pool' = pool + 1
    /\ Goto("profile", "poll")
    /\ UNCHANGED <<policy, sending, quit, queue, bufs, free_slots, process_ring,
                   profile_ring, candidates>>

ProcessStep == Exit("process") \/ ProcessTake \/ ProcessHandOff
ProfileStep == Exit("profile") \/ ProfileTake \/ ProfileFree

-----------------------------------------------------------------------------
(* The environment: SIGINT or SIGTERM, and the end of the traffic.         *)

SignalHandler ==
    /\ ~ quit
    /\ quit' = TRUE
    /\ UNCHANGED <<policy, sending, pool, queue, bufs, free_slots, process_ring,
                   profile_ring, pc, candidates>>

TrafficEnds ==
    /\ sending
    /\ sending' = FALSE
    /\ UNCHANGED <<policy, quit, pool, queue, bufs, free_slots, process_ring,
                   profile_ring, pc, candidates>>

\* main returns when all three are done.
Finished ==
    /\ \A lcore \in Lcores : pc[lcore] = "done"
    /\ UNCHANGED vars

Next ==
    \/ SchedulerStep \/ ProcessStep \/ ProfileStep
    \/ SignalHandler \/ TrafficEnds \/ Finished

\* Each lcore has a core of its own, so none stops while it has a step.
Spec ==
    /\ Init /\ [][Next]_vars
    /\ WF_vars(SchedulerStep) /\ WF_vars(ProcessStep) /\ WF_vars(ProfileStep)

-----------------------------------------------------------------------------
(* Properties.                                                             *)

Labels == {"schedule", "hand_on", "rx", "enqueue", "free_rest", "trim", "poll",
           "hand_off", "free", "done"}

\* The counts stay in range; in particular no ring is over its capacity.
TypeOK ==
    /\ policy \in Policies /\ sending \in BOOLEAN /\ quit \in BOOLEAN
    /\ pool \in 0 .. PoolSize
    /\ queue \in Seq(Packets) /\ candidates \in Seq(Packets)
    /\ bufs \in Bursts
    /\ free_slots \in Nat
    /\ process_ring \in 0 .. ProcessCapacity
    /\ profile_ring \in 0 .. ProfileCapacity
    /\ pc \in [Lcores -> Labels]

InHand == (IF pc["process"] = "hand_off" THEN 1 ELSE 0)
            + (IF pc["profile"] = "free" THEN 1 ELSE 0)

InUse == Len(queue) + Len(bufs) + process_ring + profile_ring + InHand

\* Every mbuf is free or in exactly one place: none leaks, none is freed twice,
\* in particular none is lost at a ring the scheduler believed to have room.
NoLeak == pool + InUse = PoolSize

\* The mbufs in use never exceed what main reserves for them besides the
\* descriptors and the cache, even in the middle of a burst.
PoolBudget == InUse <= BURST_SIZE + SCHEDULER_QUEUE_SIZE + 2 * PROCESS_RING_SIZE

\* Where the packets of q were in c, in the order of arrival.
Places(q, c) ==
    {place \in [DOMAIN q -> DOMAIN c] :
        /\ \A i \in DOMAIN q : c[place[i]] = q[i]
        /\ \A i, j \in DOMAIN q : i < j => place[i] < place[j]}

\* After a burst, the two policies that drop by weight have kept as many packets
\* as fit, in the order they arrived, and dropped none that goes before one they
\* kept.  drop-max goes by weight.  hffs goes by bucket: of a bucket it
\* drops the oldest, and it drops a packet that is lighter than one it keeps
\* where the two share a bucket, or the product of the one it keeps has wrapped.
KeepsLightest ==
    pc["scheduler"] = "schedule" /\ policy \in DropByWeight =>
        /\ Len(queue) = Min({Len(candidates), SCHEDULER_QUEUE_SIZE})
        /\ \E place \in Places(queue, candidates) :
            \A k \in DOMAIN queue, i \in DOMAIN candidates \ Range(place) :
                LET kept == queue[k]
                    dropped == candidates[i]
                IN  /\ ~ Before(dropped, kept)
                    /\ policy = "wsjf_hffs" =>
                        /\ BucketIdx(dropped) = BucketIdx(kept) => i < place[k]
                        /\ Lighter(dropped, kept) =>
                            \/ BucketIdx(dropped) = BucketIdx(kept)
                            \/ kept.jsize * kScaleFactor >= WeightMod

\* When the traffic ends, every mbuf comes back to the pool, unless the server
\* is told to stop.
Drains == ~ sending ~> (pool = PoolSize \/ quit)

\* After the signal all three lcores stop, whichever stops first: none waits
\* for one that is gone.
AllStop == quit ~> \A lcore \in Lcores : pc[lcore] = "done"
=============================================================================
