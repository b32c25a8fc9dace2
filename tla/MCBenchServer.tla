--------------------------- MODULE MCBenchServer ---------------------------
(* The server with all four policies.                                      *)
EXTENDS BenchServer

Packet(j, p) == [jsize |-> j, psize |-> p]

\* With scale 2 and arithmetic modulo 16: two weights in bucket 2, and the
\* heaviest of all in bucket 1, as its product wraps.
MCPackets == {Packet(1, 1), Packet(4, 3), Packet(9, 2)}
=============================================================================
