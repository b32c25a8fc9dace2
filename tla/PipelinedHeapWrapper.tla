------------------------ MODULE PipelinedHeapWrapper ------------------------
(***************************************************************************)
(* The wrapper around the pipelined heap                                   *)
(* (src/scheduler/heaps/hffs_queue/hardware/pipelined_heap_wrapper.sv): an *)
(* in-FIFO for enques, an out-FIFO for each kind of deque, automatic       *)
(* deque-PRIMARY operations and a request FSM for deque-SECONDARY ones.    *)
(* It is composed with PipelinedHeap: an edge of the clock is one step of  *)
(* both.  The sc_fifo instances are external: a word written is at the     *)
(* output one cycle later, a write into a full FIFO is lost.               *)
(***************************************************************************)
EXTENDS PipelinedHeap

CONSTANTS
    ENQUE_FIFO_DEPTH, DEQUE_FIFO_DEPTH,
    HEAP_OP_DEQUE_PRIMARY_TYPE

ASSUME DepthAssumption ==
    /\ ENQUE_FIFO_DEPTH \in Nat \ {0}
    /\ DEQUE_FIFO_DEPTH \in Nat \ {0}
ASSUME PrimaryAssumption == HEAP_OP_DEQUE_PRIMARY_TYPE \in {"DEQUE_MIN", "DEQUE_MAX"}

VARIABLES
    enque_fifo, deque_primary_fifo, deque_secondary_fifo,   \* oldest word first
    deque_secondary_req_state,  \* "IDLE", "INIT" or "WAIT"
    clk,                        \* auxiliary: changes when nothing else does, so
                                \* that an idle cycle is a step too
    held                        \* auxiliary: the bag of the words accepted and
                                \* neither handed out nor discarded by rst

fifos == <<enque_fifo, deque_primary_fifo, deque_secondary_fifo>>
wrapperVars == <<fifos, deque_secondary_req_state, clk, held>>

HEAP_OP_DEQUE_SECONDARY_TYPE ==
    IF HEAP_OP_DEQUE_PRIMARY_TYPE = "DEQUE_MIN" THEN "DEQUE_MAX" ELSE "DEQUE_MIN"

Words == [value : Values, priority : InPriorities]
Word(op) == [value |-> op.value, priority |-> op.priority]

\* Offering no word is not offering one.
ASSUME NoWordAssumption == Idle \notin Words

heap_ready == state = "READY"

\* The operations of one type in the pipeline, the output register excluded
\* (num_ops_deque_min, num_ops_deque_max of the heap).
NumOps(type) == Cardinality({k \in 0 .. 3 : reg[k] # Idle /\ reg[k].type = type})

out_deque_primary_ready == deque_primary_fifo # <<>>
out_deque_secondary_ready == deque_secondary_fifo # <<>>

HeapOutputs(type) == reg[4] # Idle /\ reg[4].type = type
deque_primary_fifo_wrreq == HeapOutputs(HEAP_OP_DEQUE_PRIMARY_TYPE)
deque_secondary_fifo_wrreq == HeapOutputs(HEAP_OP_DEQUE_SECONDARY_TYPE)

in_enque_ready == Len(enque_fifo) < ENQUE_FIFO_DEPTH

in_deque_secondary_req_ready ==
    /\ deque_secondary_req_state = "IDLE"
    /\ size # 0
    /\ ~ out_deque_secondary_ready

-----------------------------------------------------------------------------
(* Arbitration for the heap's input port.                                  *)

\* Defect: the operation in the output register is not waited for.
MutantIssueSecondary ==
    /\ heap_ready
    /\ deque_secondary_req_state = "INIT"
    /\ NumOps(HEAP_OP_DEQUE_SECONDARY_TYPE) = 0
    /\ size # 0

IssueSecondary ==
    /\ heap_ready
    /\ deque_secondary_req_state = "INIT"
    /\ ~ deque_secondary_fifo_wrreq
    /\ NumOps(HEAP_OP_DEQUE_SECONDARY_TYPE) = 0
    /\ size # 0

\* Defect: the last entry stays in the heap.
MutantKeepLast ==
    /\ heap_ready
    /\ ~ IssueSecondary
    /\ size > 1
    /\ ~ out_deque_primary_ready
    /\ NumOps(HEAP_OP_DEQUE_PRIMARY_TYPE) = 0
    /\ ~ deque_primary_fifo_wrreq

IssuePrimary ==
    /\ heap_ready
    /\ ~ IssueSecondary
    /\ size # 0
    /\ ~ out_deque_primary_ready
    /\ NumOps(HEAP_OP_DEQUE_PRIMARY_TYPE) = 0
    /\ ~ deque_primary_fifo_wrreq

heap_size_plus_enques == size + num_ops_enque

\* Defects: the enques in flight are not counted; the heap is kept from
\* filling up.
MutantEnqueRdreq ==
    /\ heap_ready
    /\ ~ IssueSecondary
    /\ ~ IssuePrimary
    /\ enque_fifo # <<>>
    /\ size < MaxEntries
MutantLeaveRoom ==
    /\ heap_ready
    /\ ~ IssueSecondary
    /\ ~ IssuePrimary
    /\ enque_fifo # <<>>
    /\ heap_size_plus_enques < MaxEntries - 1

enque_fifo_rdreq ==
    /\ heap_ready
    /\ ~ IssueSecondary
    /\ ~ IssuePrimary
    /\ enque_fifo # <<>>
    /\ heap_size_plus_enques < MaxEntries

DequeOp(type) == [type |-> type, priority |-> Junk, value |-> Junk]
EnqueOp(word) == [type |-> "ENQUE", priority |-> word.priority, value |-> word.value]

HeapInput ==
    IF IssueSecondary THEN DequeOp(HEAP_OP_DEQUE_SECONDARY_TYPE)
    ELSE IF IssuePrimary THEN DequeOp(HEAP_OP_DEQUE_PRIMARY_TYPE)
    ELSE IF enque_fifo_rdreq THEN EnqueOp(Head(enque_fifo))
    ELSE Idle

-----------------------------------------------------------------------------
(* The clock edge of the wrapper, whatever the heap does at that edge.     *)

\* A FIFO after an edge with the given requests.
Fifo(fifo, depth, rdreq, wrreq, word) ==
    (IF rdreq THEN Tail(fifo) ELSE fifo)
        \o (IF wrreq /\ Len(fifo) < depth THEN <<word>> ELSE <<>>)

\* Defect: the request counts as answered once it is issued.
MutantNextReqState(req_en) ==
    CASE deque_secondary_req_state = "IDLE" ->
            IF in_deque_secondary_req_ready /\ req_en THEN "INIT" ELSE "IDLE"
      [] deque_secondary_req_state = "INIT" ->
            IF IssueSecondary THEN "WAIT" ELSE "INIT"
      [] deque_secondary_req_state = "WAIT" ->
            IF out_deque_secondary_ready THEN "IDLE" ELSE "WAIT"

NextReqState(req_en) ==
    CASE deque_secondary_req_state = "IDLE" ->
            IF in_deque_secondary_req_ready /\ req_en THEN "INIT" ELSE "IDLE"
      [] deque_secondary_req_state = "INIT" ->
            IF deque_secondary_fifo_wrreq THEN "WAIT" ELSE "INIT"
      [] deque_secondary_req_state = "WAIT" ->
            IF out_deque_secondary_ready THEN "IDLE" ELSE "WAIT"

\* The read requests of the environment that have an effect.
Reads(ready) == {FALSE, ready}

\* in_word is the word offered to the in-FIFO, or Idle.
Fifos(in_word, primary_rdreq, secondary_rdreq) ==
    /\ enque_fifo' = Fifo(enque_fifo, ENQUE_FIFO_DEPTH, enque_fifo_rdreq,
                          in_word # Idle /\ in_enque_ready, in_word)
    /\ deque_primary_fifo' = Fifo(deque_primary_fifo, DEQUE_FIFO_DEPTH, primary_rdreq,
                                  deque_primary_fifo_wrreq, Word(reg[4]))
    /\ deque_secondary_fifo' = Fifo(deque_secondary_fifo, DEQUE_FIFO_DEPTH, secondary_rdreq,
                                    deque_secondary_fifo_wrreq, Word(reg[4]))

Count(fifo, w) == Cardinality({i \in DOMAIN fifo : fifo[i] = w})

Holds(cond) == IF cond THEN 1 ELSE 0

\* Where a word may be, apart from the FIFOs: on its way into the heap, in the
\* heap, or an answer at the output port.
EnquesOf(w) == Cardinality({k \in 0 .. 3 : reg[k] # Idle /\ IsEnque(reg[k]) /\ Word(reg[k]) = w})
InHeap(w) == Count(Stack(w.priority), w.value)
Answer(w) == Holds(reg[4] # Idle /\ ~ IsEnque(reg[4]) /\ Word(reg[4]) = w)

InPipeline(w) == EnquesOf(w) + Answer(w)

\* What is lost when rst is high: the heap's contents, the enques on their way
\* and the one issued at that very edge. The answer goes to its FIFO.
Discarded(w) ==
    EnquesOf(w) + (IF heap_ready THEN InHeap(w) ELSE 0)
        + Holds(enque_fifo_rdreq /\ Head(enque_fifo) = w)

\* The words the environment gives less those it takes.
Given(w, in_word, primary_rdreq, secondary_rdreq) ==
    Holds(in_word = w /\ in_enque_ready)
        - Holds(primary_rdreq /\ Head(deque_primary_fifo) = w)
        - Holds(secondary_rdreq /\ Head(deque_secondary_fifo) = w)

WrapperInit ==
    /\ Init
    /\ enque_fifo = <<>>
    /\ deque_primary_fifo = <<>>
    /\ deque_secondary_fifo = <<>>
    /\ deque_secondary_req_state = "IDLE"
    /\ clk = 0
    /\ held = [w \in Words |-> 0]

\* An edge with rst low: words are offered, requested and taken in any
\* combination.
Tick ==
    /\ Cycle(HeapInput) \/ InitCycle
    /\ \E in_word \in Words \cup {Idle}, req_en \in {FALSE, in_deque_secondary_req_ready},
          primary_rdreq \in Reads(out_deque_primary_ready),
          secondary_rdreq \in Reads(out_deque_secondary_ready) :
        /\ Fifos(in_word, primary_rdreq, secondary_rdreq)
        /\ deque_secondary_req_state' = NextReqState(req_en)
        /\ held' = [w \in Words |->
                held[w] + Given(w, in_word, primary_rdreq, secondary_rdreq)]
    /\ clk' = IF UNCHANGED <<vars, fifos, deque_secondary_req_state, held>> THEN 1 - clk ELSE 0

\* An edge with rst high: the wrapper does not look at rst.
ResetTick ==
    /\ Reset
    /\ \E in_word \in Words \cup {Idle}, req_en \in {FALSE, in_deque_secondary_req_ready},
          primary_rdreq \in Reads(out_deque_primary_ready),
          secondary_rdreq \in Reads(out_deque_secondary_ready) :
        /\ Fifos(in_word, primary_rdreq, secondary_rdreq)
        /\ deque_secondary_req_state' = NextReqState(req_en)
        /\ clk' = 0
        /\ held' = [w \in Words |->
                held[w] + Given(w, in_word, primary_rdreq, secondary_rdreq) - Discarded(w)]

WrapperNext == Tick \/ ResetTick

\* The clock runs; the environment owes nothing, as a cycle in which it asks
\* for nothing is a Tick.
WrapperSpec ==
    WrapperInit /\ [][WrapperNext]_<<vars, wrapperVars>> /\ WF_<<vars, wrapperVars>>(Tick)

-----------------------------------------------------------------------------
(* Properties.                                                             *)

\* Every word accepted and not yet handed out is, as often as it was accepted,
\* in a FIFO, in the pipeline or in the heap, with its priority: no operation
\* is lost, whether a deque was dropped and issued again or a FIFO was full,
\* and rst takes the contents of the heap and what is on its way in, no more.
NothingLost ==
    \A w \in Words :
        held[w] = Count(enque_fifo, w) + Count(deque_primary_fifo, w)
                    + Count(deque_secondary_fifo, w) + InPipeline(w)
                    + (IF heap_ready THEN InHeap(w) ELSE 0)

\* One deque of each kind is under way at most, counting the pipeline with its
\* output register and the out-FIFO: an automatic deque is not issued on top
\* of an answer nobody has taken, and a request is answered exactly once.
OneDequeUnderWay ==
    LET inPipeline(type) == NumOps(type) + Holds(HeapOutputs(type))
        secondary == inPipeline(HEAP_OP_DEQUE_SECONDARY_TYPE)
    IN  /\ inPipeline(HEAP_OP_DEQUE_PRIMARY_TYPE) + Len(deque_primary_fifo) <= 1
        /\ secondary + Len(deque_secondary_fifo) <= 1
        /\ secondary > 0 => deque_secondary_req_state = "INIT"
        /\ deque_secondary_req_state = "WAIT" => out_deque_secondary_ready

\* A request is answered unless the heap runs empty: deques that fail because
\* an automatic one took the last entry of a bucket are issued again.
SecondaryAnswered ==
    deque_secondary_req_state = "INIT" ~>
        out_deque_secondary_ready \/ size = 0 \/ ~ heap_ready

\* While the heap has entries, the primary answer is there again and again.
PrimaryPrefetched == size # 0 ~> out_deque_primary_ready \/ size = 0

\* The in-FIFO is read again and again while it has words and the heap room.
EnquesProceed ==
    []<>(enque_fifo_rdreq \/ enque_fifo = <<>> \/ ~ heap_ready
            \/ heap_size_plus_enques >= MaxEntries)
=============================================================================
