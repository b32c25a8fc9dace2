----------------------------- MODULE StackHeap -----------------------------
(***************************************************************************)
(* What the hardware heap promises: a stack of values per priority, at     *)
(* most one committed operation per clock cycle, and an output port that   *)
(* reports exactly the operation the cycle committed.  Which priority a    *)
(* deque takes from, and which operations are ignored, is left open here.  *)
(***************************************************************************)
EXTENDS Naturals, Sequences

CONSTANTS Priorities, Values, NoOutput

VARIABLES
    stacks,     \* [Priorities -> Seq(Values)], the head is the newest
    out         \* NoOutput, or what the last cycle committed

shVars == <<stacks, out>>

Report(op, p, v) == [type |-> op, priority |-> p, value |-> v]

Empty == [p \in Priorities |-> <<>>]

SHInit ==
    /\ stacks = Empty
    /\ out = NoOutput

SHEnque(p, v) ==
    /\ out' = Report("ENQUE", p, v)
    /\ stacks' = [stacks EXCEPT ![p] = <<v>> \o @]

SHDeque(op, p) ==
    /\ \E v \in Values : out' = Report(op, p, v)
    /\ stacks[p] # <<>> /\ out'.value = Head(stacks[p])
    /\ stacks' = [stacks EXCEPT ![p] = Tail(@)]

SHNothing ==
    /\ out' = NoOutput
    /\ UNCHANGED stacks

SHReset ==
    /\ out' = NoOutput
    /\ stacks' = Empty

SHNext ==
    \/ \E p \in Priorities, v \in Values : SHEnque(p, v)
    \/ \E p \in Priorities, op \in {"DEQUE_MIN", "DEQUE_MAX"} : SHDeque(op, p)
    \/ SHNothing
    \/ SHReset

SHSpec == SHInit /\ [][SHNext]_shVars
=============================================================================
