--------------------------- MODULE PipelinedHeap ---------------------------
(***************************************************************************)
(* The pipelined hardware heap                                             *)
(* (src/scheduler/heaps/hffs_queue/hardware/pipelined_heap.sv), one step   *)
(* per clock edge.  An operator named like a signal of the combinational   *)
(* block is that signal's value in the current cycle; a variable is a      *)
(* register or a memory.                                                   *)
(*                                                                         *)
(* A pipeline register whose enable bit is off is Idle: the code reads no  *)
(* other field of it.  An output of a memory that was not read in the last *)
(* cycle, and a cell never written, is Junk, whatever bits it holds.  A    *)
(* bitmap is the set of its one-bits, so a one-hot mask is a singleton.    *)
(***************************************************************************)
EXTENDS Integers, Sequences, FiniteSets, FiniteSetsExt, Functions

CONSTANTS
    BitmapWidth,    \* HEAP_BITMAP_WIDTH
    MaxEntries,     \* HEAP_MAX_NUM_ENTRIES
    Values,
    InPriorities,   \* the priorities the environment enqueues with
    Idle, Junk,
    MaxResets       \* bound of the model: pulses of rst

TwoTo[w \in Nat] == IF w = 0 THEN 1 ELSE 2 * TwoTo[w - 1]

ASSUME WidthAssumption ==
    /\ BitmapWidth \in Nat
    /\ \E w \in 1 .. BitmapWidth : BitmapWidth = TwoTo[w]
ASSUME EntriesAssumption == MaxEntries \in Nat /\ MaxEntries >= 2
ASSUME PrioritiesAssumption == InPriorities \subseteq 0 .. (BitmapWidth * BitmapWidth - 1)
ASSUME ResetsAssumption == MaxResets \in Nat

VARIABLES
    state,          \* "IDLE", "INIT" or "READY"
    free_list,      \* head and tail pointers
    l1_bitmap, l2_bitmaps,
    size,
    reg,            \* reg[k]: the operation registered for stage k + 1, or Idle
    reg_l1_bitmap_q0,
    reg_pb_q3,      \* the priority bucket of the operation in reg[3]
    conflict,       \* reg_{pb_rdwr_conflict_q2, he_..._q3, fl_..._q3}
    last,           \* reg_{pb, he, fl}_data_q4: what the last commit wrote
    fl, he, pb,     \* the memories: free-list entries, heap entries, buckets
    fl_q, he_q, pb_q,   \* their output registers
    init,           \* progress of INIT: [fl, pb] counters and done flags
    resets,
    aux             \* auxiliary, per reg[k]: the priorities present in the heap
                    \* ever since the operation was accepted, and whether it
                    \* was accepted in a state where it cannot fail

regs == <<state, free_list, l1_bitmap, l2_bitmaps, size, reg, reg_l1_bitmap_q0,
          reg_pb_q3, conflict, last, fl_q, he_q, pb_q, init>>
vars == <<regs, fl, he, pb, resets, aux>>

Bits == 0 .. (BitmapWidth - 1)
Priorities == 0 .. (BitmapWidth * BitmapWidth - 1)
Entries == 0 .. (MaxEntries - 1)
Ops == {"ENQUE", "DEQUE_MIN", "DEQUE_MAX"}

INVALID_PTR == -1
EmptyList == [head |-> INVALID_PTR, tail |-> INVALID_PTR]
JunkList == [head |-> Junk, tail |-> Junk]
JunkEntry == [value |-> Junk, next |-> Junk]

\* $clog2(HEAP_MAX_NUM_ENTRIES)
HEAP_ENTRY_AWIDTH == Min({w \in 1 .. MaxEntries : TwoTo[w] >= MaxEntries})

AddressSpace == TwoTo[HEAP_ENTRY_AWIDTH]

\* A pointer truncated to the width of an address (INVALID_PTR is all ones).
Addr(ptr) == IF ptr = Junk THEN Junk ELSE ptr % AddressSpace

IsEnque(op) == op.type = "ENQUE"

\* A memory after a write port was driven with address a and data d.
Write(mem, a, d) == [k \in DOMAIN mem |-> IF k = a THEN d ELSE mem[k]]

NoConflict == [pb |-> FALSE, he |-> FALSE, fl |-> FALSE]
JunkLast == [pb |-> JunkList, he |-> JunkEntry, fl |-> Junk]
NoProgress == [fl |-> 0, pb |-> 0, fl_done |-> FALSE, pb_done |-> FALSE]
NoAux == [present |-> {}, sure |-> FALSE]

Init ==
    /\ state = "IDLE"
    /\ free_list = [head |-> 0, tail |-> MaxEntries - 1]
    /\ l1_bitmap = {}
    /\ l2_bitmaps = [i \in Bits |-> {}]
    /\ size = 0
    /\ reg = [k \in 0 .. 4 |-> Idle]
    /\ reg_l1_bitmap_q0 = {}
    /\ reg_pb_q3 = JunkList
    /\ conflict = NoConflict
    /\ last = JunkLast
    /\ fl = [k \in Entries |-> Junk]
    /\ he = [k \in Entries |-> JunkEntry]
    /\ pb = [p \in Priorities |-> JunkList]
    /\ fl_q = Junk
    /\ he_q = JunkEntry
    /\ pb_q = JunkList
    /\ init = NoProgress
    /\ resets = 0
    /\ aux = [k \in 0 .. 3 |-> NoAux]

-----------------------------------------------------------------------------
(* Feedback signals.                                                       *)

\* Defect: the operation about to commit is left out.
MutantOpsEnque == Cardinality({k \in 0 .. 2 : reg[k] # Idle /\ IsEnque(reg[k])})

num_ops_enque == Cardinality({k \in 0 .. 3 : reg[k] # Idle /\ IsEnque(reg[k])})

-----------------------------------------------------------------------------
(* Stage 4: commit of the operation in reg[3].                             *)

en_q4 == state # "INIT" /\ reg[3] # Idle
EnqueCommits == en_q4 /\ IsEnque(reg[3])
DequeCommits == en_q4 /\ ~ IsEnque(reg[3])

\* Defects: the entry read while it was being written is not forwarded.
MutantStaleHe == he_q
MutantStaleFl == fl_q

\* Write forwarding from the commit of the last cycle.
int_he_q == IF reg[4] # Idle /\ conflict.he THEN last.he ELSE he_q
int_fl_q == IF reg[4] # Idle /\ conflict.fl THEN last.fl ELSE fl_q

he_wraddress == Addr(free_list.head)
int_he_data == [value |-> reg[3].value, next |-> reg_pb_q3.head]

fl_wren == DequeCommits /\ free_list.head # INVALID_PTR
fl_wraddress == Addr(free_list.tail)
int_fl_data == reg_pb_q3.head

int_free_list ==
    IF EnqueCommits THEN
        IF free_list.head = free_list.tail THEN EmptyList
        ELSE [free_list EXCEPT !.head = int_fl_q]
    ELSE IF DequeCommits THEN
        [head |-> IF free_list.head = INVALID_PTR THEN reg_pb_q3.head ELSE free_list.head,
         tail |-> reg_pb_q3.head]
    ELSE free_list

pb_empty_q4 == reg_pb_q3.head = reg_pb_q3.tail

int_pb_data ==
    IF EnqueCommits THEN
        [head |-> he_wraddress,
         tail |-> IF reg_pb_q3.head = INVALID_PTR THEN he_wraddress ELSE reg_pb_q3.tail]
    ELSE IF pb_empty_q4 THEN EmptyList
    ELSE [reg_pb_q3 EXCEPT !.head = int_he_q.next]

\* The one-hot masks registered with the operation.
L2Mask(op) == {op.priority % BitmapWidth}
L1Mask(op) == {op.l1_idx}

l2_bitmap_data_q4 ==
    IF EnqueCommits THEN reg[3].l2_bitmap \cup L2Mask(reg[3])
    ELSE IF pb_empty_q4 THEN reg[3].l2_bitmap \ L2Mask(reg[3])
    ELSE reg[3].l2_bitmap

int_l1_bitmap ==
    IF EnqueCommits THEN l1_bitmap \cup L1Mask(reg[3])
    ELSE IF DequeCommits /\ pb_empty_q4 /\ l2_bitmap_data_q4 = {}
    THEN l1_bitmap \ L1Mask(reg[3])
    ELSE l1_bitmap

int_size ==
    IF EnqueCommits THEN size + 1 ELSE IF DequeCommits THEN size - 1 ELSE size

he_value_q4 == IF EnqueCommits THEN reg[3].value ELSE int_he_q.value

\* Defect: the bitmap read before the commit of this cycle.
MutantUnforwarded(bitmap, i) == bitmap

\* The L2 bitmap of group i as it is after the commit of this cycle.
Forwarded(bitmap, i) ==
    IF en_q4 /\ reg[3].l1_idx = i THEN l2_bitmap_data_q4 ELSE bitmap

-----------------------------------------------------------------------------
(* Stage 3: read the free list and the heap entry.                         *)

\* Defects: a bucket written in this cycle, or in the last one, is stale.
MutantStalePb == IF reg[4] # Idle /\ conflict.pb THEN last.pb ELSE pb_q
MutantStalePbRead ==
    IF en_q4 /\ reg[3].priority = reg[2].priority THEN int_pb_data ELSE pb_q

int_pb_q ==
    IF en_q4 /\ reg[3].priority = reg[2].priority THEN int_pb_data
    ELSE IF reg[4] # Idle /\ conflict.pb THEN last.pb
    ELSE pb_q

pb_empty_q3 == int_pb_q.head = INVALID_PTR
fl_empty_q3 == int_free_list.head = INVALID_PTR

en_q3 == reg[2] # Idle /\ IF IsEnque(reg[2]) THEN ~ fl_empty_q3 ELSE ~ pb_empty_q3

he_rdaddress == Addr(int_pb_q.head)
fl_rdaddress == Addr(int_free_list.head)

ReadsHe == en_q3 /\ ~ IsEnque(reg[2])
ReadsFl == en_q3 /\ IsEnque(reg[2])
he_rdwr_conflict == ReadsHe /\ EnqueCommits /\ he_wraddress = he_rdaddress
fl_rdwr_conflict == ReadsFl /\ fl_wren /\ fl_wraddress = fl_rdaddress

-----------------------------------------------------------------------------
(* Stage 2: choose the priority bucket and read it.                        *)

\* Defect: msb and lsb exchanged.
MutantFirstSet(op, bitmap) == IF op.type = "DEQUE_MIN" THEN Max(bitmap) ELSE Min(bitmap)

\* The bit a deque takes (module ffs: msb and lsb).
FirstSet(op, bitmap) == IF op.type = "DEQUE_MAX" THEN Max(bitmap) ELSE Min(bitmap)

en_q2 == reg[1] # Idle /\ (IsEnque(reg[1]) \/ reg[1].l2_bitmap # {})

pb_rdaddress ==
    IF IsEnque(reg[1]) THEN reg[1].priority
    ELSE FirstSet(reg[1], reg[1].l2_bitmap) + reg[1].l1_idx * BitmapWidth

pb_rdwr_conflict == en_q2 /\ en_q4 /\ reg[3].priority = pb_rdaddress

-----------------------------------------------------------------------------
(* Stage 1: choose the L2 bitmap and read it.                              *)

en_q1 == reg[0] # Idle /\ (IsEnque(reg[0]) \/ reg_l1_bitmap_q0 # {})

l1_bitmap_idx_q1 ==
    IF IsEnque(reg[0]) THEN reg[0].priority \div BitmapWidth
    ELSE FirstSet(reg[0], reg_l1_bitmap_q0)

-----------------------------------------------------------------------------
(* The clock edge.                                                         *)

\* An operation at the input port; the other input signals of a deque are
\* never read.
Inputs ==
    [type : {"ENQUE"}, priority : InPriorities, value : Values]
        \cup [type : {"DEQUE_MIN", "DEQUE_MAX"}, priority : {Junk}, value : {Junk}]

Registered(in) ==
    [type |-> in.type, priority |-> in.priority, value |-> in.value,
     l1_idx |-> 0, l2_bitmap |-> {}]

NextReg(in) ==
    [k \in 0 .. 4 |->
        CASE k = 0 -> IF state = "READY" /\ in # Idle THEN Registered(in) ELSE Idle
          [] k = 1 -> IF en_q1
                      THEN [reg[0] EXCEPT !.l1_idx = l1_bitmap_idx_q1,
                                          !.l2_bitmap = Forwarded(l2_bitmaps[l1_bitmap_idx_q1],
                                                                  l1_bitmap_idx_q1)]
                      ELSE Idle
          [] k = 2 -> IF en_q2
                      THEN [reg[1] EXCEPT !.priority = pb_rdaddress,
                                          !.l2_bitmap = Forwarded(@, reg[1].l1_idx)]
                      ELSE Idle
          [] k = 3 -> IF en_q3
                      THEN [reg[2] EXCEPT !.l2_bitmap = Forwarded(@, reg[2].l1_idx)]
                      ELSE Idle
          [] k = 4 -> IF en_q4
                      THEN [type |-> reg[3].type, priority |-> reg[3].priority,
                            value |-> he_value_q4]
                      ELSE Idle]

\* A memory's output register after a read of address a, if one is issued.
Read(mem, rden, a, junk) == IF rden /\ a \in DOMAIN mem THEN mem[a] ELSE junk

\* The writes of stage 4 to the memories.
CommitWrites ==
    /\ he' = IF EnqueCommits THEN Write(he, he_wraddress, int_he_data) ELSE he
    /\ fl' = IF fl_wren THEN Write(fl, fl_wraddress, int_fl_data) ELSE fl
    /\ pb' = IF en_q4 THEN Write(pb, reg[3].priority, int_pb_data) ELSE pb

\* What is known of the operation registered by this edge, and of the ones
\* that move on.
Occupied(buckets) == {p \in Priorities : buckets[p].head # INVALID_PTR}

NextAux(in) ==
    LET there == Occupied(pb')
        deques == {k \in 0 .. 2 : reg[k] # Idle /\ ~ IsEnque(reg[k])}
        accepted ==
            IF reg'[0] = Idle THEN NoAux
            ELSE IF IsEnque(in)
            THEN [present |-> {}, sure |-> size + num_ops_enque < MaxEntries]
            ELSE [present |-> there, sure |-> there # {} /\ deques = {}]
    IN  [k \in 0 .. 3 |->
            IF k = 0 THEN accepted
            ELSE IF reg'[k] = Idle THEN NoAux
            ELSE [aux[k - 1] EXCEPT !.present = @ \cap there]]

\* An edge with rst low, in IDLE or READY: what the operations in the pipeline
\* do, and the registration of in, which is at the input port.
Advance ==
    /\ state \in {"IDLE", "READY"}
    /\ CommitWrites
    /\ free_list' = int_free_list
    /\ l1_bitmap' = int_l1_bitmap
    /\ l2_bitmaps' = IF en_q4 THEN [l2_bitmaps EXCEPT ![reg[3].l1_idx] = l2_bitmap_data_q4]
                     ELSE l2_bitmaps
    /\ size' = int_size
    /\ reg_l1_bitmap_q0' = int_l1_bitmap
    /\ reg_pb_q3' = IF en_q3 THEN int_pb_q ELSE JunkList
    /\ conflict' = [pb |-> pb_rdwr_conflict, he |-> he_rdwr_conflict, fl |-> fl_rdwr_conflict]
    /\ last' = [pb |-> IF en_q4 THEN int_pb_data ELSE JunkList,
                he |-> IF EnqueCommits THEN int_he_data ELSE JunkEntry,
                fl |-> IF fl_wren THEN int_fl_data ELSE Junk]
    /\ fl_q' = Read(fl, ReadsFl /\ ~ fl_rdwr_conflict, fl_rdaddress, Junk)
    /\ he_q' = Read(he, ReadsHe /\ ~ he_rdwr_conflict, he_rdaddress, JunkEntry)
    /\ pb_q' = Read(pb, en_q2 /\ ~ pb_rdwr_conflict, pb_rdaddress, JunkList)
    /\ UNCHANGED <<state, init, resets>>

Accept(in) == reg' = NextReg(in) /\ aux' = NextAux(in)

Cycle(in) == Advance /\ Accept(in)

\* Defects: a last address the counter, which wraps around, never has; the
\* last address of the other memory.
MutantFlInitDone == init.fl_done \/ init.fl = AddressSpace
MutantPbInitDone == init.pb_done \/ init.pb = MaxEntries - 1

\* An edge with rst low, in INIT: one free-list entry and one bucket.
fl_init_done == init.fl_done \/ init.fl = MaxEntries - 1
pb_init_done == init.pb_done \/ init.pb = BitmapWidth * BitmapWidth - 1

InitWrites ==
    /\ fl' = IF init.fl_done THEN fl ELSE Write(fl, init.fl, init.fl + 1)
    /\ pb' = IF init.pb_done THEN pb ELSE Write(pb, init.pb, EmptyList)
    /\ UNCHANGED he

\* The write address is 0 once a memory is done, so its counter is then 1.
InitCycle ==
    /\ state = "INIT"
    /\ InitWrites
    /\ init' = [fl |-> IF init.fl_done THEN 1 ELSE (init.fl + 1) % (AddressSpace),
                pb |-> IF init.pb_done THEN 1
                       ELSE (init.pb + 1) % (BitmapWidth * BitmapWidth),
                fl_done |-> fl_init_done, pb_done |-> pb_init_done]
    /\ state' = IF fl_init_done /\ pb_init_done THEN "READY" ELSE "INIT"
    /\ reg_l1_bitmap_q0' = l1_bitmap
    /\ UNCHANGED <<free_list, l1_bitmap, l2_bitmaps, size, reg, reg_pb_q3, conflict,
                    last, fl_q, he_q, pb_q, resets, aux>>

\* An edge with rst high; the write ports are driven all the same.  The
\* registers it leaves alone are unread until they are written again.
Reset ==
    /\ resets < MaxResets
    /\ resets' = resets + 1
    /\ IF state = "INIT" THEN InitWrites ELSE CommitWrites
    /\ free_list' = [head |-> 0, tail |-> MaxEntries - 1]
    /\ l1_bitmap' = {}
    /\ l2_bitmaps' = [i \in Bits |-> {}]
    /\ size' = 0
    /\ reg' = [k \in 0 .. 4 |-> Idle]
    /\ reg_pb_q3' = JunkList
    /\ conflict' = NoConflict
    /\ last' = JunkLast
    /\ fl_q' = Junk
    /\ he_q' = JunkEntry
    /\ pb_q' = JunkList
    /\ init' = NoProgress
    /\ state' = "INIT"
    /\ aux' = [k \in 0 .. 3 |-> NoAux]
    /\ UNCHANGED reg_l1_bitmap_q0

Next ==
    \/ Advance /\ \E in \in Inputs \cup {Idle} : Accept(in)
    \/ InitCycle
    \/ Reset

\* The clock runs, so initialization proceeds unless it is reset again.
Spec == Init /\ [][Next]_vars /\ WF_vars(InitCycle)

-----------------------------------------------------------------------------
(* Properties.                                                             *)

Op == [type : Ops, priority : Priorities \cup {Junk}, value : Values \cup {Junk},
       l1_idx : Bits, l2_bitmap : SUBSET Bits]
OutOp == [type : Ops, priority : Priorities, value : Values]
Pointers == Entries \cup {INVALID_PTR, MaxEntries}
Lists == [head : Pointers \cup {Junk}, tail : Pointers \cup {Junk}]
HeapEntries == [value : Values \cup {Junk}, next : Pointers \cup {Junk}]

\* An empty register is no operation.
ASSUME IdleAssumption == Idle \notin Op \cup OutOp

\* Every register holds a value of its type; what leaves the pipeline is a
\* real operation, with its priority and value known.
TypeOK ==
    /\ state \in {"IDLE", "INIT", "READY"}
    /\ free_list \in [head : Entries \cup {INVALID_PTR}, tail : Entries \cup {INVALID_PTR}]
    /\ l1_bitmap \in SUBSET Bits /\ reg_l1_bitmap_q0 \in SUBSET Bits
    /\ l2_bitmaps \in [Bits -> SUBSET Bits]
    /\ size \in 0 .. MaxEntries
    /\ \A k \in 0 .. 3 : reg[k] \in Op \cup {Idle}
    /\ reg[4] \in OutOp \cup {Idle}
    /\ reg_pb_q3 \in Lists /\ pb_q \in Lists
    /\ conflict \in [pb : BOOLEAN, he : BOOLEAN, fl : BOOLEAN]
    /\ last \in [pb : Lists, he : HeapEntries, fl : Pointers \cup {Junk}]
    /\ fl \in [Entries -> Pointers \cup {Junk}] /\ fl_q \in Pointers \cup {Junk}
    /\ he \in [Entries -> HeapEntries] /\ he_q \in HeapEntries
    /\ pb \in [Priorities -> Lists]
    /\ init \in [fl : 0 .. (AddressSpace - 1), pb : Priorities,
                 fl_done : BOOLEAN, pb_done : BOOLEAN]
    /\ resets \in 0 .. MaxResets
    /\ \A k \in 0 .. 3 : aux[k] \in [present : SUBSET Priorities, sure : BOOLEAN]

\* What a linked list can be: a sequence of entries without repetition.
EntrySeqs ==
    {s \in UNION {[1 .. n -> Entries] : n \in 1 .. MaxEntries} : IsInjective(s)}

Links(list, next, s) ==
    /\ s[1] = list.head
    /\ s[Len(s)] = list.tail
    /\ \A i \in 1 .. (Len(s) - 1) : next[s[i]] = s[i + 1]

\* The entries of a list from its head to its tail; <<Junk>> if the links do
\* not lead there.
Chain(list, next) ==
    LET paths == {s \in EntrySeqs : Links(list, next, s)}
    IN  IF list.head = INVALID_PTR THEN <<>>
        ELSE IF list.head = list.tail THEN <<list.head>>
        ELSE IF paths = {} THEN <<Junk>>
        ELSE CHOOSE s \in paths : TRUE

FreeEntries == Chain(free_list, fl)
Bucket(p) == Chain(pb[p], [e \in Entries |-> he[e].next])

\* The free list and the bucket lists share out the entries: each entry is in
\* exactly one list, exactly once, however commits and reads of the pipeline
\* overlap, and size counts the ones in buckets.
EntriesPartitioned ==
    state = "READY" =>
        LET free == Range(FreeEntries)
            in == [p \in Priorities |-> Range(Bucket(p))]
            used == UNION {in[p] : p \in Priorities}
        IN  /\ free \cup used = Entries
            /\ free \cap used = {}
            /\ \A p, q \in Priorities : p # q => in[p] \cap in[q] = {}
            /\ size = Cardinality(used)

\* A bit is set exactly when what it summarises is not empty: in L2 a bucket,
\* in L1 an L2 bitmap.  The L2 bitmap written back by a commit was read three
\* cycles before.
BitmapsExact ==
    state = "READY" =>
        /\ \A p \in Priorities :
              p % BitmapWidth \in l2_bitmaps[p \div BitmapWidth] <=> p \in Occupied(pb)
        /\ l1_bitmap = {i \in Bits : l2_bitmaps[i] # {}}

\* A deque about to commit takes from a priority at least as good as every
\* one that was occupied all the time since the deque was accepted.
DequeOrder ==
    reg[3] # Idle =>
        /\ reg[3].type = "DEQUE_MIN" => \A p \in aux[3].present : reg[3].priority <= p
        /\ reg[3].type = "DEQUE_MAX" => \A p \in aux[3].present : reg[3].priority >= p

\* An operation is not dropped, except by rst, if it was accepted in a state
\* that assures it: an enque with size + num_ops_enque below the capacity (the
\* condition the wrapper tests), a deque of a heap not empty after the commit
\* of that cycle and with no other deque before it in stages 0 to 2.
SureOpsCommit ==
    [][resets' = resets =>
          \A k \in 0 .. 2 : aux[k].sure => reg'[k + 1] # Idle]_vars

\* The heap and its output port behave as stacks, with every commit reported.
Stack(p) ==
    LET chain == Bucket(p)
    IN  [i \in 1 .. Len(chain) |-> IF chain[i] \in Entries THEN he[chain[i]].value ELSE Junk]

Stacks == INSTANCE StackHeap WITH
    stacks <- [p \in Priorities |-> IF state = "READY" THEN Stack(p) ELSE <<>>],
    out <- reg[4],
    NoOutput <- Idle

RefinesStackHeap == Stacks!SHSpec

\* A reset is followed by ready, or by another reset: the two memories
\* differ in size and are initialised side by side.
ReadyAfterReset == state = "INIT" ~> state = "READY"
=============================================================================
