# SurgeProtector in TLA+

A verification project for the code in `src/`: the heaps of the SurgeProtector
scheduler (software and hardware), the DPDK benchmark around them, and the
event-driven simulator. TLA+ modules model the code, TLC checks them on small
instances, and TLAPS proves the most important results for every instance.

Source paths below are relative to the repository; `hffs_queue/` stands for
`src/scheduler/heaps/hffs_queue/`, `server/` for
`src/scheduler/benchmark/server/`, `sim/` for `src/simulator/src/`.

## 1. The system

### Components, their state and operations

| Component | State | Operations | Correct when |
|---|---|---|---|
| Software hFFS queue (`hffs_queue/software/hffs_queue.hpp`) | a flat array of bitmaps forming a tree, an array of bucket lists, `size_` | `push`, `popMin`, `popMax` | a bit is set exactly when what is below it is not empty; pops take the oldest tag of the extreme bucket; `size_` counts the entries; no `SP_ASSERT` fails |
| Pipelined hardware heap (`hffs_queue/hardware/pipelined_heap.sv`) | FSM state, five pipeline registers, L1/L2 bitmaps, free-list pointers, three memories and their output registers | one edge of the clock: accept an operation, move the pipeline, commit the oldest; initialise; reset | every entry is in exactly one list; bitmaps are exact; a value comes out with its priority, newest first; a deque is not overtaken by a worse priority; an operation accepted in time is never dropped |
| Heap wrapper (`hffs_queue/hardware/pipelined_heap_wrapper.sv`) | in-FIFO, two out-FIFOs, the FSM of secondary requests | accept a word, prefetch the primary answer, request and answer a secondary deque | no word is lost or invented; one deque of a kind at a time; every request is answered |
| Bounded heap (`src/scheduler/heaps/bounded_heap.hpp`) | a min-heap and a max-heap of the same entries, cross-linked by handles | `push` (may evict the heaviest), `pop` | the heaps stay twins; the bound holds; the right entry is evicted |
| Simpler heaps (`src/scheduler/heaps/*.hpp`) | a container of the standard library or boost | `push`, `pop` | by their library |
| Benchmark server (`server/`) | packet queue, two rings, mbuf pool, quit flag, one program counter per lcore | `scheduleBurst`, receive, `enqueueBurst` of four policies; take, emulate and hand off; profile and free; signal handler | no mbuf leaks or is freed twice; the pool is large enough; each policy drops what is last in its own order; everything drains and stops |
| Packet generator (`src/scheduler/benchmark/pktgen/`) | burst buffers, rate-limiting clock | fill and send bursts | packets are sent at the rate asked for |
| Simulator configuration (`sim/simulator.cpp`, the factories) | none that outlives it: it makes the queue, the application, the server and the generators | `parseSimulationConfig` and the `generate` of five factories | what is refused is what could not run; an application gets the flow order it needs; a dry run leaves out what it says it does |
| Simulator queues (`sim/queueing/`) | FIFO list, heap of packets, per-flow metadata, heap of flows | `push`, `pop` of six policies | metadata agree with the packets queued; a policy that claims flow order keeps it |
| Simulator loop and server (`sim/simulator.cpp`, `sim/server/`) | counters, the packet in service, its departure time | an arrival, a departure | packets are conserved, asserts hold, the run ends, the figures printed mean what they say |
| Traffic generators (`sim/traffic/`) | arrival time, next flow, position in the trace | `getNextArrival`, `updateArrivalTime`, `calibrate` | times grow, flows take turns, the end of a trace is noticed, the rate is the one asked for |
| Applications (`sim/applications/`) | TCP reassembly: expected sequence number and out-of-order list per flow; echo and IID job sizes keep nothing | `getJobSizeEstimate`, `process` | the list is sorted and disjoint, bytes are released once and in order; the traffic brings what the application reads |
| Distributions, clocks, utilities (`src/common/`), scripts | - | random draws, time, plotting | inputs of the others |

### How they interact

```
  NIC -> scheduler lcore -> process_ring -> process lcore -> profile_ring -> profile lcore
          | policy                                                             | frees mbufs
          +- FCFS: the ring itself      +- wsjf_drop_max: BoundedHeap
          +- wsjf_drop_tail: Fibonacci  +- wsjf_hffs: HffsQueue

  traffic generator -> application (job sizes) -> server, or queue while it is busy -> server

  in-FIFO -> arbitration -> pipelined heap -> out-FIFOs, with feedback of what is in flight
```

The lcores of the server share rings, the pool and a quit flag, and each runs
on a core of its own. The policies call the heaps synchronously. The simulator
is sequential: a configuration is parsed once and decides which queue,
application and generators there are, then the loop calls generator, application,
server and queue in turn. The hardware advances all its parts at every clock edge; `rst` may come
at any edge.

### What is hard

- The pipeline: five operations in flight read and write three memories with
  two cycles of latency; every read has a forwarding or a conflict path.
- The wrapper judges the heap by what is in flight, and retries deques the
  heap has dropped in silence.
- Reset in the middle of anything; the wrapper is not reset with the heap.
- Three lcores that stop in any order, rings of fixed size, an enqueue whose
  result is ignored, a pool that is a sum of guesses.
- Long sequences of pushes and pops after which cached structure (bitmap tree,
  cross handles, flow priorities) must still agree with what it caches.
- Configurations: five factories each read a part of one, and what one part
  takes for granted (flow order, TCP headers, job sizes, a rate) another decides.
- Arithmetic: products that wrap at 32 bits, sums of doubles, sizes at a limit.

`PROJECT.json` lists these hazards line by line with the properties that would
catch them.

## 2. Plan

Order of work, most important first:

1. done: `BucketQueue`, `HffsQueue` and its proofs: the queue that the whole
   scheduler rests on.
2. done: `StackHeap`, `PipelinedHeap`, then `PipelinedHeapWrapper` composed
   with it: the subtlest concurrency of the repository.
3. done: `BoundedQueue`, `BoundedHeap`; `BenchServer`, `ProcessLcore`.
4. done: `FlowOrderedQueue`, `PacketQueues` and `Simulator` composed of them.
5. done: `ReassemblyBuffer`, `TcpReassembly` (the out-of-order list against the
   set of bytes received; estimate and process agree on which packets have a
   job).
6. done: `Configuration`, from which `Simulator` starts; the wrapper's reset
   and its liveness in one run, with the heap under it still a heap.
7. done: `BoundedHeap` implements `BoundedQueue`.
8. done: proofs of `BenchServer` (mbufs, budget, what is kept), `TcpReassembly`
   (the list and the refinement), `Simulator` (queues, asserts, flow order and the
   refinement).
9. done: proofs of `PipelinedHeap` and of `PipelinedHeapWrapper`. With these, every
   safety property and every refinement that a passing run checks is a theorem too.
10. still worth doing: properties the proofs rest on and no run states by itself (the
   wrapper issues only enques that fit; the queue of the server is over its limit only
   in the middle of a burst); which bytes a packet of TCP reassembly releases, as an
   action property of the list itself.

Abstract specifications: an array of FIFO buckets (`BucketQueue`), an array of
stacks with an output port (`StackHeap`), a bounded set served from one end
and trimmed at the other (`BoundedQueue`), a line per flow
(`FlowOrderedQueue`), the set of bytes held back per flow (`ReassemblyBuffer`).

## 3. The modules and the code

| Module | Code | Role |
|---|---|---|
| `BucketQueue` | interface of `hffs_queue.hpp` | abstract: an array of FIFO buckets |
| `HffsQueue` | `hffs_queue.hpp` | the bitmap tree, implements `BucketQueue` |
| `HffsQueueProofs` | - | theorems about `HffsQueue` |
| `NatRecursion` | - | lemmas that several of the proofs need: induction, recursion and extrema over sets of numbers |
| `StackHeap` | ports of `pipelined_heap.sv` | abstract: stacks and an output port |
| `PipelinedHeap` | `pipelined_heap.sv`, `ffs.sv`, `heap_ops_pkg.sv` | one step per clock edge, implements `StackHeap` |
| `PipelinedHeapProofs` | - | theorems about `PipelinedHeap` |
| `PipelinedHeapWrapper` | `pipelined_heap_wrapper.sv` | extends `PipelinedHeap`: both advance in one step |
| `PipelinedHeapWrapperProofs` | - | theorems about `PipelinedHeapWrapper`, from those about the heap |
| `BoundedQueue` | interface of `bounded_heap.hpp` | abstract: a bounded set |
| `BoundedHeap` | `bounded_heap.hpp` | two cross-linked heaps, implements `BoundedQueue` |
| `BoundedHeapProofs` | - | theorems about `BoundedHeap` |
| `BenchServer` | `server/` | the lcores, rings, pool and policies |
| `BenchServerProofs` | - | theorems about `BenchServer` |
| `ProcessLcore` | `lcore_process` of `server.cpp` | the emulation of job sizes in time |
| `FlowOrderedQueue` | `isFlowOrderMaintained` of `sim/queueing/base_queue.h` | abstract: a line per flow, as the set of its packets that wait, each with its number |
| `QueueingPolicies` | `sim/queueing/queue_factory.cpp` | the names of the policies, and which keep flow order |
| `PacketQueues` | `sim/queueing/` | the six queues behind one interface |
| `Configuration` | `sim/simulator.cpp`, the factories of `sim/` and `src/common/distributions/` | which configurations are accepted, and what they mean |
| `Simulator` | `sim/simulator.cpp`, `sim/server/`, `sim/traffic/`, `sim/applications/` | extends `PacketQueues` and `Configuration`: the program from its configuration to its end; implements `FlowOrderedQueue` |
| `SimulatorProofs` | - | theorems about `Simulator` and the queues it extends |
| `ReassemblyBuffer` | interface of `sim/applications/tcp_reassembly.cpp` | abstract: the bytes held back |
| `TcpReassembly` | `sim/applications/tcp_reassembly.cpp` | the out-of-order list, implements `ReassemblyBuffer` |
| `TcpReassemblyProofs` | - | theorems about `TcpReassembly` |
| `MC...` | - | constants for TLC |

Operators and variables keep the names of the source. An operator named
`Mutant...` is a plausible defect in place of the definition after it; no
specification uses one.

**HffsQueue.** `bitmaps` is the flat array, a bitmap being the set of its
one-bits; `buckets` and `size` are the members of these names. `init()` is the
layout: `LevelWidth`, `level_offsets`, `kNumLevels`. `Push` sets the bits that
the upward loop reaches, which goes on while the bitmap it updates was empty.
`Pop` is `pop_`: the walk down (`Walk`, which is `level_stack_`), its asserts,
and the loop back up. `BucketIdx` wraps and truncates as the C++ does.

**PipelinedHeap.** A variable is a register or a memory of the design, an
operator with the name of a signal is its value in the current cycle. `reg[k]`
is the operation in pipeline register k, `Idle` when its enable bit is off:
`reg[3]` commits in this cycle, `reg[4]` committed in the last one and drives
the output. `he_q`, `fl_q`, `pb_q` are the output registers of the memories;
what was not read in the last cycle is `Junk`, so a wrong use of it shows.
`conflict` and `last` hold what write forwarding needs. `Cycle(in)` is an edge in
IDLE or READY with any input, `InitCycle` one in INIT, `Reset` one with `rst`.
`aux` is history: what was occupied since a deque was accepted, and whether its
commit is assured.

**PipelinedHeapWrapper.** `Tick` is an edge of wrapper and heap together, with
any combination of a word offered, a secondary request, and answers taken;
`ResetTick` resets the heap while the wrapper, which has no reset of its own,
goes on. `clk` changes when nothing else does, so that an idle cycle is a step.
`held` counts what was accepted and
not handed out; `rst` takes away from it what the heap has and what is on its way in
(`Discarded`), and nothing else.

**BoundedHeap.** Boost heaps are functions from nodes to entries and a handle is
a node; nodes given back are used again. The order of ties of either heap is
open, so the two may disagree about it.

**BenchServer.** `pc` says where each lcore is. What an lcore does between two
accesses to shared state is one action. While the order of service depends on
it an mbuf is known by its packet's job size and size (`queue` is the sequence of the
packets queued, oldest first), after that rings are lengths. A pop removes one place of
that sequence: with a heap, any place whose packet no other outranks in weight
(`Lighter`, products of integers for the quotients of doubles); with the hFFS queue the
first place of the extreme bucket, where `BucketIdx` multiplies modulo `WeightMod` and
truncates as `hffs_queue.hpp:157` does, so packets of different weight share a bucket.
The range of `rte_eth_rx_burst` is any burst the pool has mbufs
for. `candidates` is history: what a policy that drops by weight had to choose from.

**ProcessLcore.** One lcore against a clock, since only the time at which a
job is handed off is of interest. `taken` is history.

**PacketQueues.** All six queues are in one module, `policy` says
which one a run uses; the variables of the others keep their initial value, and
before `Generate` there is no queue. A heap is a set of entries of which any that no
other precedes may be on top; a ratio is a fraction; `Rounded` is the rounding of a
double, the identity except in the run about rounding.

**Configuration.** A libconfig group is a record with a field for each key that is
given, and an operator `...Refused` says whether one of the exceptions on the way
is thrown. Since every one of them ends the program, which of them comes first is
not told apart. A dry run (`--dry`) is fcfs, without attack
traffic, at fixed times. Rates, sizes and times are chosen so that quotients are whole;
there the rate computed back is equal or it is not, as for the doubles of
`calibrate`. Two cases are as floating point has them: a rate of zero is
an infinite time, and empty packets have a rate of 0 / 0, equal to nothing.

**Simulator.** `phase` is "config" until `ParseSimulationConfig`, then "refused"
or "running", and "done" or "aborted" in the end. One step while "running" is one
iteration of the event loop. An arrival is decided by the flow and the job chosen for
it: what an application answers is equal estimate and actual
size for echo and IID sizes; any pair, and packets without a job, for TCP
reassembly. (An invalid estimate with a valid actual size is in the model
because the code has a branch for it; no application of the repository answers
that.) An application may be paired with any traffic. Four asserts may end a run at any
packet (`Abort`): echo wants packets with a job size and TCP reassembly packets
without (`AppAssertFails`; the lines of one trace may differ, `Sized`), IID job sizes
wants a draw that is not negative, and TCP reassembly no SYN ahead of a flow with a gap
(`MayAssertFail`). Packets of synthetic
traffic have no TCP headers and so no job for TCP reassembly, which reads them for ever
(`PassThrough`). The averages at the end are divided by the number of innocent
arrivals, so a run without one aborts in `Finish`.
`ss_last_depart` is history: when the last packet counted as steady state left.

**TcpReassembly.** One step is what `Server::setJobSizeEstimateAndActual` does
with an arriving packet: ask for an estimate, then for the actual size.
`flows_` maps the flows that are known to `next_psn_` and `ooo_list_`, a sequence of
half-open ranges; `packet` and the two job sizes are of the packet handled last,
`aborted` is a failed assert. Sequence numbers are `SeqBits` wide and their sums
wrap, in the header field `next_psn` and in the end of the window. The position,
the nodes covered and the nodes released are stated as a minimum or maximum over the
list where the code walks an iterator. Job sizes are in nanoseconds:
`toJobSizeInNs` scales service times, and leaves the invalid one alone.

## 4. What the runs show

| Run | Question | Size |
|---|---|---|
| `hffs` | tree, count and asserts of the software queue; it implements an array of FIFO buckets | 3-bit bitmaps, 11 buckets in three levels, 4 entries of 2 tags |
| `pheap` | lists, bitmaps, deque order and assured commits of the hardware heap under any stream of operations; it implements stacks | four priorities of which three are used, 2 entries |
| `pheap_reset` | `rst` at any edge, and the way back to ready | 2 entries, 2 values, a second reset |
| `wrapper` | words, deques under way and progress in the wrapper with the real pipeline behind it, reset again at any edge; the heap still implements stacks | 2 entries, 2 priorities of different L2 groups, in-FIFO of 1, a second reset |
| `bounded_heap` | twins and evictions of the bounded heap; it implements a bounded set | 4 tags, 3 weights, bound 3, as many nodes as entries ever in use |
| `bench_server` | mbufs, budget, which packets are kept, drain and stop | bursts and queue of 2, a process ring that holds 2, a profile ring that holds 1, 3 packets, pool of 14 |
| `process_lcore_stall` | is each job stalled for its size? (no, see 6) | 3 sizes, ring of 2, 8 ticks |
| `simulator` | what may run, metadata, flow order, conservation, asserts, the end of the simulation; flow-ordered policies are a line per flow | 2 innocent flows, one attack flow, 6 arrivals or traces of 4 packets; 192 complete configurations and 15 faulty ones |
| `sjf_inorder_rounding` | does the sanity check hold for rounded sums? (no, see 6) | 3-bit mantissas, jobs of 6 and 7 |
| `tcp_reassembly` | order of the list, bytes held and released, agreement of estimate and actual job; it implements a set of bytes | 16 sequence numbers, window of 6, packets of up to 4 bytes |
| `steady_state` | is what is counted served in the period? (no, see 6) | as `simulator` |
| `dry_run` | does a dry run leave out attack traffic? (no, see 6) | as `simulator` |

**Bounds.** Each is named in its cfg and chosen for the case it must reach.

- `hffs`: the third level exists only for the last buckets (9 < 11), the last
  bitmaps are partly used, one weight wraps, one is out of range, two fall into one
  bucket. Four entries empty and fill any path of three levels.
- Hardware: with two entries the free list and a bucket go through empty, one
  and full, and every address collides with every other, so all conflicts of
  reads and commits occur; the pipeline is always full, as operations may come
  back to back. Heaps whose size is no power of two and lists with an inner
  entry are not in these runs; the proofs cover them. Three priorities cover two buckets of one L2 group and one of
  another. `MaxResets` counts the reset that starts the heap. The wrapper is run with
  min as automatic deque; max is its mirror image, bitmaps read from the other end.
- `bounded_heap`: one tag more than the bound, so a full heap can be pushed into, and
  one node more, so a push can pick one that was given back.
- `bench_server`: a burst as long as the queue, rings that fill (a ring of size
  3 holds 2), and a pool above the sum of what can be in use, so that
  `PoolBudget` could fail. Of the three packets two have different weights and one
  bucket, and the heaviest wraps into a bucket below theirs; one packet may arrive
  several times, so there are ties.
- `simulator`: the complete configurations are every combination of policy, dry
  run or not, attack traffic or not, and eight pairs of application and innocent
  traffic: the pairs that work, those where some packet or draw is refused, those where all are, and a
  trace that cannot be opened. 132 of them are accepted. The faulty ones each lack, or get wrong, one thing.
  In a loop, enough arrivals for a queue of several packets per flow, ties
  in size, ratio and time, a wrong estimate, a job of size zero.
- `tcp_reassembly`: a packet may cover two nodes and the gap between, a gap
  may be filled by any of several overlapping packets, packets and the window
  run over the last sequence number. One flow: flows share nothing but the table.
  The view leaves out the packet handled last and its job sizes, which the next step
  does not read; properties of steps are checked on every step nonetheless.

**Fairness.** The hardware has a clock: an edge always comes (`WF` of `InitCycle`
in the heap and of `Tick` in the wrapper). A cycle in which the environment asks
for nothing is a `Tick`, so it owes nothing: no answer need be taken, no word
offered. The lcores of the server have a core each and never block: `WF` of each
lcore's step, none of the signal or of the end of the traffic. The simulator is
one loop: `WF` of `Next`; a choice of which packet comes, or which of several
equals is on top, is not owed, so `Terminates` holds whatever is chosen.

**Deadlock** is checked in every run. Where the program really ends, the
specification says so (`Finished`, `TimeUp`, `Ended`).

## 5. What is proved

`HffsQueueProofs` proves, for every bitmap width of at least 2, every number of
buckets, every set of weights, scale and modulus:

- `TypeCorrect`: the state keeps its type; what a pop returns was pushed;
- `TreeCorrect`: the bitmap tree is exact;
- `SizeCorrect`: `size_` counts the entries;
- `AssertsCorrect`: no `SP_ASSERT` of `pop_` fails;
- `Refinement`: `HffsQueue` implements `BucketQueue`.

They rest on `WordBitsAssumption`, `BucketsAssumption`, `WeightAssumption` and
`MaxSizeAssumption` (`MaxSize` is any natural number, so the bound of the model is no
restriction).

The inductive invariant is `IInv == TypeOK /\ TreeConsistent /\
SizeCountsEntries`. None of the three is enough: that the walk of `pop_` ends in
a bucket with a tag needs the tree to be exact at every level, the tree tells nothing
unless there is an entry, and that there is one follows from `size_ # 0`
only because `size_` counts them.

1. *Layout.* `LevelWidthFacts`, `LevelOffsetFacts`, `AboveFacts` give the recursive
   definitions their equations. `BitmapIdxInjective`: no two bitmaps of the tree
   share an index of the flat array, for any number of levels. `NodeFacts`,
   `ChildFacts`: the path of a bucket, level by level.
2. *Walk.* `WalkFacts`: under the tree invariant the walk stays in range and
   meets no empty bitmap. `BitsAbove`: a bucket in use has its bit at every level.
   `WalkEndsInExtremum`: the bucket the walk ends in is the lowest (highest) in use.
3. *Updates.* `PushKeepsTree`, `PopKeepsTree`: the loops that stop early leave
   the tree exact; the case split is on the level the loop stopped at.
4. *Count.* `EntriesChange`, `EntriesZero`: one bucket changes, the sum follows.
5. `InitIInv`, `PushStep`, `PopStep`, `NextIInv`, then the theorems; refinement maps
   each action to its abstract counterpart by `WalkEndsInExtremum`.

`NatRecursion` has induction over a set of numbers and primitive recursion as
facts about sets and functions, which the recursive functions of `HffsQueue`
need and which avoid theorems that take an operator as a parameter; and the
extrema of sets of numbers.

`PipelinedHeapProofs` proves, for every bitmap width that is a power of two, every
heap of at least two entries, and every set of values and of priorities:

- `HeapTypeCorrect`: types; what leaves the pipeline is a real operation, with its
  priority and value known;
- `EntriesArePartitioned`: every entry is in the free list or in one bucket, once;
- `BitmapsAreExact`: both levels of bitmaps say which buckets have entries;
- `DequesInOrder`, `SureOpsAreKept`: no deque is overtaken, and an operation issued
  in time is carried out;
- `HeapRefinesStacks`: `PipelinedHeap` implements `StackHeap`.

They rest on `WidthAssumption`, `EntriesAssumption`, `PrioritiesAssumption`,
`IdleAssumption` and `ResetsAssumption` (`MaxResets` is any natural number: `rst` may come as
often as it likes).

The inductive invariant `IInv` has a part for each state of the FSM. In INIT
(`Initialising`), the pipeline is empty and the memories are as far overwritten as the
counters say. In READY (`Operating`):

1. `ListsOK`: the free list and the buckets are chains in the memories and share no
   entry; `size` counts what is not free. `ChainPush`, `ChainPop` and `ChainAppend` are
   the three ways a commit changes a chain; `LinksUnique` makes the
   sequence that a pointer leads to a function of the memory.
2. `BitmapsOK`: the bitmaps are exact after every commit.
3. `PipelineOK`, the heart of it: *what the pipeline has read, or will be
   forwarded, is what the memories hold after the last commit.* Each clause is one
   hazard: the L2 bitmap of a stage is that of its group (`Stage1` to `Stage3`), the bucket in
   stage 2 is the one read or the one just committed (`ReadBucket`; `BucketSeen`,
   `BucketRead`), the next free entry and the heap entry in stage 3 are read or taken
   from the commit that wrote them (`FreeRead`, `EntryRead`).
4. `OrderOK`: `DequeOrder` speaks of the moment of commit; the deque has chosen its
   group three edges before and its bucket two, and what it has chosen then must be
   no worse than anything occupied ever since.
5. `SureOK`: an assured enque has a free entry left after all enques in front of
   it; an assured deque finds the bits of its way set.

Part 3 makes a commit see the memories as they are, so the parts 1 and 2 and
the refinement (`StackStep`) follow from one commit at a time (`CommitLists`,
`CommitBitmaps`), as though the heap had no pipeline.

`PipelinedHeapWrapperProofs` proves, for every such heap, every depth of the
FIFOs and either type of automatic deque:

- `NoWordIsLost`: what was accepted, and neither handed out nor discarded with the heap's
  contents by `rst`, is in a FIFO, in the pipeline or in the heap, each word as often as
  it should be;
- `DequesOneByOne`: deques of one kind are never under way together;
- `WrappedHeapRefinesStacks`: the heap that the wrapper drives implements
  `StackHeap`.

They add `DepthAssumption`, `PrimaryAssumption` and `NoWordAssumption` (the
mark for offering no word is not a word). The wrapper gives the heap no input but
those that `Next` of the heap allows (`WrapperDrivesHeap`), so `IInv` holds under the
wrapper and is the first part of its invariant `WInv`. The others: `EnquesSure`, each
enque in the pipeline was issued with room for it, without which a word could be dropped at
its commit and `NothingLost` would not be inductive; while the request FSM
waits for the pipeline to take its deque, no answer waits in the out-FIFO. `FifoCount`
and `EdgeCounts` say how an edge changes the words in the FIFOs, `StageCount` how it changes the
operations in the pipeline, `HeapEdge` what the commit adds to or takes from the stacks:
what leaves one place enters the next.

`BoundedHeapProofs` proves, for every bound, set of tags, weights and nodes:

- `BoundedHeapTypeCorrect`, `TwinsCorrect`: both heaps hold entries, and the
  handles lead to the twin and back, however nodes are used again;
- `BoundedRefinement`: `BoundedHeap` implements `BoundedQueue`.

They rest on `SizeAssumption`. The inductive invariant adds to `TypeOK` and
`HeapsConsistent` that no tag is queued twice and that the bound holds. Twins are
inductive without them (`AddedTwins`, `ErasedTwins`); the refinement is not: the
abstract queue is a set of entries, so erasing a node erases one entry only if tags
are distinct (`ErasedEntries`, `EntriesCounted`), and a push evicts one entry only
if the heap was within its bound. That the drop queue's top is the heaviest entry of
the other heap follows from the twins (`PushStep`).

`BenchServerProofs` proves, for every burst, queue, ring and pool size and every
set of packets, scale factor and width of the product that the assumptions of
`BenchServer` allow (a queue and a process ring no shorter than a burst, buckets within
the array; the assertion that fails beyond it is in `HffsQueue`):

- `ServerTypeCorrect`, `MbufsConserved`: whatever the lcores do in whatever order, the
  mbufs free and in use add up to the pool: none leaks, none is freed twice;
- `BudgetSufficient`: what is in use never exceeds what the pool was sized for;
- `LightestKept`: drop-max and hffs keep as many packets as fit, in order of arrival,
  and drop none that their queue puts before one they keep. For drop-max that is
  none lighter. hffs is approximate, as its class says: none of a lower
  bucket, and of one bucket the oldest. It follows that hffs drops a packet lighter than one it keeps
  only where the two share a bucket or the product of the one it keeps has wrapped
  (`TruncationKeepsOrder`).

The inductive invariant says of each program counter what the lcore holds there
(`ControlOK`, `BurstOK`, `SlotsOK`), how full the queue can be at that point
(`LimitOK`: beyond its bound only in the middle of a burst), and that what is gone so far of
the candidates went rightly (`DropOK`). The last is what `KeepsLightest` needs: it speaks of
the end of a burst, and is built up one packet at a time, from the places the packets
left have among the candidates (`RemovePlace`).

`TcpReassemblyProofs` proves, for every width of sequence numbers, window, clock and
set of flows that `SeqAssumption`, `WindowAssumption`, `ScalingAssumption` and
`AttackAssumption` allow:

- `ReassemblyTypeCorrect`, `ListOrdered`: the out-of-order list is sorted, its nodes
  are not empty, do not overlap, and lie beyond what has been released;
- `ReassemblyRefinement`: `TcpReassembly` implements `ReassemblyBuffer`: the list
  is the set of bytes received and not yet released, and a packet that fills the gap
  releases exactly the bytes up to the next one.

The inductive invariant is the type and `FlowOK` of every flow that is known. A packet is
followed in the order of the code: where it goes in the list, which nodes it covers, which
of its bytes are kept and which are new; that the insertion keeps the list sorted
and adds these bytes and no other; that the nodes released are those before the first
missing byte. A packet that runs over the last sequence number is outside the window,
which is computed in the same width.

`SimulatorProofs` proves, for every set of configurations and flows, every application
and trace that `UnitsAssumption`, `ConfigsAssumption`, `FlowsAssumption` and
`JobsAssumption` allow:

- `SimulatorTypeCorrect`, `AssertsNeverFail`, `DeparturesInOrder`: types, the asserts of the
  event loop and the server (not those of the applications, which traffic can fail),
  departures in the order of time;
- `QueuesConsistent`: the metadata of a flow are those of its packets in the heap,
  and the heap of flows has the flows with packets;
- `FlowOrder`: a policy that claims to keep flow order does;
- `FlowOrderRefinement`: such a policy implements `FlowOrderedQueue`.

The last three suppose `SumsGrow`: rounding never makes a sum of two numbers smaller
than the first, rounded. Monotone and idempotent rounding has it (`RoundingSumsGrow`), so
the rounding of a double does. It is what fair queueing needs: the virtual clock of
a flow must not go back.

The inductive invariant has three parts. `QueueOK`: the variables of the
queues that are not in use are at their initial values, and the one in use is well formed.
`Started`: the packets generated, queued, in service, departed add up; the server's
packet and times agree. `OrderInv`, for the order of flows alone: a flow's clocks in the
heap of fair queueing grow with its packets (`FqClocks`), and the last packet served of a
flow precedes those that wait (`ServedInOrder`). `PushFacts`, `PopFacts` and
`EmptyFacts` say what a queue does whatever its policy, so that the proofs about the loop
(`AdmitFacts`, `DepartureFacts`) look into no queue. Equal clocks are told
apart by arrival times, and the proof needs that (`FqTop`).

**Only model-checked.** Liveness under fairness (`SecondaryAnswered`,
`PrimaryPrefetched`, `EnquesProceed`, `ReadyAfterReset`, `Drains`, `AllStop`,
`Terminates`) is out of the prover's reach and stays with TLC, and so do the four
runs of section 6, of which one is about the job emulation of `ProcessLcore`.

## 6. Where the code and its comments differ

- **Jobs after an idle gap are not stalled** (`process_lcore_stall`).
  `server.cpp:319` says "Stall for the required amount of time"; the period a job waits
  for begins when the job before it ended, however long ago
  (`server.cpp:320`). A packet that finds the lcore idle for longer than its size
  is handed off at once.
- **The sanity check of the in-order SJF queue can fail**
  (`sjf_inorder_rounding`). `sim/queueing/sjf_inorder_queue.cpp:23` asserts
  that a sum of doubles, reduced in place, is never negative. Rounding makes it so: jobs
  of 4034.6 and 3332.2 leave -4.5e-13. The build keeps asserts.
- **Steady-state goodput counts more than the steady state**
  (`steady_state`). A departure counts while the trace has packets left
  (`sim/simulator.cpp:222`), the period ends at the last arrival with a job
  (`:192`). A trace that ends in packets without a job counts bytes served after
  the period.

- **A dry run with attack traffic is refused** (`dry_run`).
  `sim/traffic/trafficgen_factory.cpp:118` warns that no attack traffic will be
  generated, and leaves packet size and inter-arrival time at 0 and infinity; the
  rate it calibrates these with is still the one of the configuration (`:126`), and
  `sim/traffic/synthetic_trafficgen.cpp:150` throws. `src/simulator/configs/examples/example_1.cfg`
  with `--dry` is such a run.

Weaknesses that contradict no comment are in the models as the code has them. The end of the reassembly window is computed in 32 bits
(`sim/applications/tcp_reassembly.cpp:77`): near the last sequence number packets
within the window are dropped, even the one that fills the gap (`RBDrop`). A SYN
with new data on a flow that holds bytes back fails an assert (`:68`,
`RBRepeatedSyn`). A trace that cannot be opened reads as an empty one, and a run
without an innocent arrival divides by zero (`sim/simulator.cpp:247`, `Finish`). Echo with
traffic that has no job sizes, and TCP reassembly with a trace that has them, pass
configuration and fail an assert at the first such packet, which need not be the first
of the run; so do IID job sizes from a distribution that extends below zero, at the
first negative draw (`sim/applications/iid_job_sizes.cpp:16`), and the SYN above
(`Abort`). TCP reassembly
with synthetic traffic passes too and never ends; `Terminates` leaves it out. One
weakness is below the model's numbers: `calibrate` compares rates in bits per
second within an absolute 1e-6, less than a unit in the last place of a double above
8.6e9, so it may refuse higher rates for rounding alone.

## 7. What is not modelled

- *Lines of a trace*: a trace is how many packets it has, of how many flows, and
  whether its lines may bring job sizes. Lines with too few fields or no number in them
  (`sim/traffic/trace_trafficgen.cpp:73`) are not, and no order of the lines is
  assumed. A distribution is its mean and whether it draws negative numbers; one that draws
  no others is not told apart.
- *TCP reassembly inside the simulator*: they are modelled apart. The server asks
  for estimate and actual size when a packet arrives
  (`Server::setJobSizeEstimateAndActual`), so the application sees arrivals in their order
  whatever the queue does with them later, and hands back two numbers or fails an assert; `Simulator`
  allows any sequence of these.
- *Packet generator*: set-up of DPDK and packet formatting around one transmit
  loop. All it shares is the pool and the rings of the NIC, which are DPDK's; what the
  server sees of it, bursts that arrive and end, is in `BenchServer`.
- *Packet format, simpler heaps*: accessors and one-line wrappers; they appear as
  the packets and the queue of `BenchServer`.
- *Weights as doubles*: `BenchServer` compares quotients exactly; two that round to the same
  double would be a tie.
- *Sampling of distributions, clocks*: inputs, chosen by the models. The mean of a
  truncated normal distribution is measured by sampling; the model has the one of a
  symmetric cut.
- *Numbers in a trace line*: `sscanf` and `stod`; the models choose what a packet
  says. `reset()` of the generators, which nothing calls.
- *Innocent rate 0 and `num_flows` 0*: packets that never arrive, a remainder
  by zero (`ConfigsAssumption`); negative and NaN rates.
- *libconfig, command lines, printed metrics*: no state that outlives the call,
  or floating-point formulas.
- *Scripts and build files*: plotting, offline formulas, no behaviour.
- *Floating point* beyond `Rounded`: NaN and infinity of a weight divided by zero.
- *The C++ memory model*: the quit flag is read as last written.
