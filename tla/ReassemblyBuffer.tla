-------------------------- MODULE ReassemblyBuffer --------------------------
(***************************************************************************)
(* What TCP reassembly promises of the packets it is shown, one by one:    *)
(* per flow, the set of bytes held back because a byte before them is      *)
(* missing.  How the code keeps that set (the out-of-order list of         *)
(* TcpReassembly) has no place here.                                       *)
(***************************************************************************)
EXTENDS Integers

CONSTANTS
    Flows,
    MaxSeq,     \* the last sequence number
    Window      \* how far ahead of the next byte a packet may start

VARIABLES
    streams,    \* [known flows -> [next, held]]
    packet,     \* the packet just handled
    costs,      \* was there a job, in the estimate and in the end
    aborted

rbVars == <<streams, packet, costs, aborted>>

FirstMissing(n, got) ==
    CHOOSE b \in n .. MaxSeq + 1 : b \notin got /\ \A c \in n .. b - 1 : c \in got

\* The bytes of a packet; none if it runs over the last sequence number.
Bytes(p) == p.psn .. p.next_psn - 1

Known(p) == p.flow \in DOMAIN streams
Stream(p) == streams[p.flow]

\* A flow starts with the first packet seen of it, and anew with a SYN.
Opens(p) == ~Known(p) \/ p.syn \/ Stream(p).next = 0
HoldsBytes(p) == Known(p) /\ Stream(p).held # {}
AheadOfNext(p) == p.psn > Stream(p).next

Costs(job) == costs' = [estimate |-> job, actual |-> job]

RBInit ==
    /\ streams = <<>>
    /\ packet = <<>>
    /\ costs = [estimate |-> FALSE, actual |-> FALSE]
    /\ aborted = FALSE

RBIgnore(p) ==
    /\ p.kind = "ATTACK" \/ ~p.is_tcp \/ p.psn = p.next_psn
    /\ Costs(p.kind = "ATTACK")
    /\ UNCHANGED <<streams, aborted>>

RBClose(p) ==
    /\ p.is_tcp /\ p.fin
    /\ streams' = [f \in DOMAIN streams \ {p.flow} |-> streams[f]]
    /\ Costs(FALSE)
    /\ UNCHANGED aborted

RBOpen(p) ==
    /\ Opens(p) /\ ~HoldsBytes(p)
    /\ streams' = [f \in DOMAIN streams \cup {p.flow} |->
                    IF f = p.flow THEN [next |-> p.next_psn, held |-> {}] ELSE streams[f]]
    /\ Costs(FALSE)
    /\ UNCHANGED aborted

\* A SYN in the middle of a flow is not new data.
RBRepeatedSyn(p) ==
    /\ Opens(p) /\ HoldsBytes(p)
    /\ IF p.next_psn <= Stream(p).next
       THEN Costs(FALSE) /\ UNCHANGED aborted
       ELSE aborted' = TRUE /\ UNCHANGED costs
    /\ UNCHANGED streams

\* A packet is dropped when it starts beyond the window.  When the window ends
\* beyond the last sequence number, only packets in order are sure to be kept.
RBDrop(p) ==
    /\ ~Opens(p)
    /\ HoldsBytes(p) \/ AheadOfNext(p)
    /\ \/ p.psn > Stream(p).next + Window
       \/ Stream(p).next + Window > MaxSeq
    /\ Costs(FALSE)
    /\ UNCHANGED <<streams, aborted>>

\* Every other byte is kept, and released when nothing before it is missing.
\* There is a job unless the flow was and stays in order, or nothing is new.
RBReceive(p) ==
    /\ ~Opens(p)
    /\ p.psn <= Stream(p).next + Window
    /\ LET s == Stream(p)
           got == {b \in s.held \cup Bytes(p) : b >= s.next}
           n == FirstMissing(s.next, got)
       IN  /\ streams' = [streams EXCEPT ![p.flow] =
                            [next |-> n, held |-> {b \in got : b > n}]]
           /\ Costs((HoldsBytes(p) \/ AheadOfNext(p)) /\ p.next_psn > s.next)
    /\ UNCHANGED aborted

RBData(p) ==
    /\ p.kind = "INNOCENT" /\ p.is_tcp /\ ~p.fin /\ p.psn # p.next_psn
    /\ RBOpen(p) \/ RBRepeatedSyn(p) \/ RBDrop(p) \/ RBReceive(p)

RBNext ==
    /\ packet' # <<>>
    /\ \E p \in {packet'} : RBIgnore(p) \/ RBClose(p) \/ RBData(p)

RBSpec == RBInit /\ [][RBNext]_rbVars
=============================================================================
