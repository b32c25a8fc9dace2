-------------------------- MODULE MCPipelinedHeap --------------------------
(* The pipelined heap with 2-bit bitmaps, thus four priorities.            *)
EXTENDS PipelinedHeap

\* Two priorities of one L2 group and one of the other.
MCThreePriorities == {0, 1, 2}

MCOnePriority == {1}
=============================================================================
