---------------------------- MODULE BucketQueue ----------------------------
(***************************************************************************)
(* What the hierarchical find-first-set queue promises to its callers: an  *)
(* array of FIFO buckets, ordered by bucket index.  The bitmap tree the    *)
(* code keeps beside the buckets (HffsQueue) has no place here.            *)
(***************************************************************************)
EXTENDS Naturals, Sequences

CONSTANTS
    Buckets,    \* the bucket indices, a set of naturals
    Tags,       \* what callers store
    NoTag,      \* the result before the first pop
    Threw       \* the result of a pop of the empty queue

VARIABLES
    buckets,    \* [Buckets -> Seq(Tags)], the head of a sequence is the oldest
    ret         \* the last pop: was it popMin, and the tag it returned

bqVars == <<buckets, ret>>

BQInit ==
    /\ buckets = [b \in Buckets |-> <<>>]
    /\ ret = NoTag

NonEmpty == {b \in Buckets : buckets[b] # <<>>}

BQPush(tag, b) ==
    /\ buckets' = [buckets EXCEPT ![b] = Append(@, tag)]
    /\ UNCHANGED ret

BQPopFrom(isPopMin, b) ==
    /\ ret' = <<isPopMin, Head(buckets[b])>>
    /\ buckets' = [buckets EXCEPT ![b] = Tail(@)]

BQPopMin ==
    \E b \in NonEmpty :
        /\ \A c \in NonEmpty : b <= c
        /\ BQPopFrom(TRUE, b)

BQPopMax ==
    \E b \in NonEmpty :
        /\ \A c \in NonEmpty : c <= b
        /\ BQPopFrom(FALSE, b)

BQThrow ==
    /\ NonEmpty = {}
    /\ ret' = Threw
    /\ UNCHANGED buckets

BQNext ==
    \/ \E tag \in Tags, b \in Buckets : BQPush(tag, b)
    \/ BQPopMin
    \/ BQPopMax
    \/ BQThrow

BQSpec == BQInit /\ [][BQNext]_bqVars
=============================================================================
