-------------------------- MODULE MCTcpReassembly --------------------------
(* A flow of sixteen sequence numbers. *)
EXTENDS TcpReassembly

\* The packet handled last and its job sizes do not matter to the next one.
MCView == <<use_heuristic, flows_, aborted>>
=============================================================================
