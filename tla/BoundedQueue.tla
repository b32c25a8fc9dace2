---------------------------- MODULE BoundedQueue ----------------------------
(***************************************************************************)
(* What BoundedHeap promises: a set of tagged weights of bounded size; pop *)
(* takes one of the lightest, a push over the bound gives back one of the  *)
(* heaviest, which may be the one pushed.                                  *)
(***************************************************************************)
EXTENDS Integers, FiniteSets

CONSTANTS Tags, Metrics, kMaxQueueSize, None

VARIABLES entries, ret

bqVars == <<entries, ret>>

Entry(tag, metric) == [tag |-> tag, metric |-> metric]

Lightest(S) == {e \in S : \A f \in S : e.metric <= f.metric}
Heaviest(S) == {e \in S : \A f \in S : e.metric >= f.metric}

BQInit == entries = {} /\ ret = None

BQPop ==
    \E e \in Lightest(entries) :
        /\ entries' = entries \ {e}
        /\ ret' = e.tag

BQPopEmpty == entries = {} /\ entries' = {} /\ ret' = None

BQPush(tag, metric) ==
    LET pushed == entries \cup {Entry(tag, metric)}
    IN  IF Cardinality(pushed) <= kMaxQueueSize
        THEN entries' = pushed /\ ret' = None
        ELSE \E e \in Heaviest(pushed) : entries' = pushed \ {e} /\ ret' = e.tag

BQNext ==
    \/ BQPop
    \/ BQPopEmpty
    \/ \E tag \in Tags, metric \in Metrics : BQPush(tag, metric)

BQSpec == BQInit /\ [][BQNext]_bqVars
=============================================================================
