-------------------------- MODULE QueueingPolicies --------------------------
(***************************************************************************)
(* The policies a packet queue of the simulator can be generated for, by   *)
(* name, and what each says of the order within a flow.                    *)
(***************************************************************************)

Policies == {"fcfs", "sjf", "wsjf", "fq", "sjf_inorder", "wsjf_inorder"}

\* isFlowOrderMaintained() is true.
FlowOrderPolicies == {"fcfs", "fq", "sjf_inorder", "wsjf_inorder"}

InorderPolicies == {"sjf_inorder", "wsjf_inorder"}
=============================================================================
