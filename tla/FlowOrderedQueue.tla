-------------------------- MODULE FlowOrderedQueue --------------------------
(***************************************************************************)
(* What a queue promises whose isFlowOrderMaintained() is true: packets    *)
(* wait in one line per flow, numbered as they come, and a pop takes the   *)
(* first of some line.                                                     *)
(***************************************************************************)
EXTENDS Integers

CONSTANT Flows

VARIABLE lines      \* by flow, the packets that wait: their idx is their number

FOInit == lines = [f \in Flows |-> {}]

FOPush(f) ==
    \E p \in lines'[f] :
        /\ \A q \in lines[f] : q.idx < p.idx
        /\ lines' = [lines EXCEPT ![f] = @ \cup {p}]

FOPop(f) ==
    \E p \in lines[f] :
        /\ \A q \in lines[f] \ {p} : p.idx < q.idx
        /\ lines' = [lines EXCEPT ![f] = @ \ {p}]

FONext == \E f \in Flows : FOPush(f) \/ FOPop(f)

FOSpec == FOInit /\ [][FONext]_lines
=============================================================================
