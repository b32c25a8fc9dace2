---------------------------- MODULE MCHffsQueue ----------------------------
(* The queue with 3-bit bitmaps and 11 buckets: three levels (9 < 11), the  *)
(* last bitmaps of the lowest level only partly used.                       *)
EXTENDS HffsQueue

\* With scale 2 and arithmetic modulo 32: buckets 0, 2, 3, 8, 10; 12 (beyond
\* the array) for 6/1; and 2 again for 17/1, whose product wraps.
MCWeights ==
    {[numerator |-> n, denominator |-> 1] : n \in {0, 1, 4, 5, 6, 17}}
        \cup {[numerator |-> 7, denominator |-> 4]}
=============================================================================
