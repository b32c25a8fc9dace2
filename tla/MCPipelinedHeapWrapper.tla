---------------------- MODULE MCPipelinedHeapWrapper ----------------------
(* The wrapped heap with 2-bit bitmaps.                                    *)
EXTENDS PipelinedHeapWrapper

\* Two priorities of different L2 groups.
MCPriorities == {1, 2}
====
