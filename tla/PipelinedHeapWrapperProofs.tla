--------------------- MODULE PipelinedHeapWrapperProofs ---------------------
(***************************************************************************)
(* Theorems about the wrapper of the pipelined heap, for every size of it. *)
(***************************************************************************)
EXTENDS PipelinedHeapWrapper, PipelinedHeapProofs

-----------------------------------------------------------------------------
(* The inductive invariant.                                                *)

DequeTypes == {"DEQUE_MIN", "DEQUE_MAX"}

InPipelineOf(type) == NumOps(type) + Holds(HeapOutputs(type))

\* A word has the form that Word gives it, with any priority of the heap.
OutWords == [value : Values, priority : Priorities]

FifosOK ==
    /\ enque_fifo \in Seq(Words)
    /\ deque_primary_fifo \in Seq(OutWords)
    /\ deque_secondary_fifo \in Seq(OutWords)
    /\ deque_secondary_req_state \in {"IDLE", "INIT", "WAIT"}
    /\ held \in [Words -> Int]

\* The wrapper issues only enques that fit.
EnquesSure == \A k \in 0 .. 3 : Enque(k) => aux[k].sure

WInv ==
    /\ IInv
    /\ FifosOK
    /\ EnquesSure
    /\ OneDequeUnderWay
    /\ deque_secondary_req_state = "INIT" => ~ out_deque_secondary_ready
    /\ NothingLost

-----------------------------------------------------------------------------
(* Counting.                                                               *)

LEMMA HoldsFacts ==
    ASSUME NEW c
    PROVE  /\ Holds(c) \in {0, 1} /\ Holds(c) \in Int
           /\ c => Holds(c) = 1
           /\ ~ c => Holds(c) = 0
BY DEF Holds

LEMMA CountFacts ==
    ASSUME NEW S, NEW s \in Seq(S), NEW x
    PROVE  /\ IsFiniteSet({i \in DOMAIN s : s[i] = x})
           /\ Count(s, x) \in Nat /\ Count(s, x) \in Int
<1>1. Len(s) \in Nat /\ DOMAIN s = 1 .. Len(s)
  OBVIOUS
<1>2. IsFiniteSet(1 .. Len(s))
  BY <1>1, FS_Interval
<1>3. {i \in DOMAIN s : s[i] = x} \subseteq 1 .. Len(s)
  BY <1>1
<1> DEFINE A == {i \in DOMAIN s : s[i] = x}
<1> HIDE DEF A
<1>4. IsFiniteSet(A)
  BY <1>2, <1>3, FS_Subset DEF A
<1>5. Cardinality(A) \in Nat
  BY <1>4, FS_CardinalityType
<1> QED BY <1>4, <1>5 DEF A, Count

LEMMA CountEmpty == \A x : Count(<<>>, x) = 0
<1>1. \A x : {i \in DOMAIN <<>> : <<>>[i] = x} = {}
  OBVIOUS
<1>2. Cardinality({}) = 0
  BY FS_EmptySet
<1> QED BY <1>1, <1>2 DEF Count

(* The same elements in other places are as many.                          *)
LEMMA CountMoved ==
    ASSUME NEW S, NEW s \in Seq(S), NEW x, NEW n \in Nat, NEW B \in SUBSET Nat,
           \A j : j \in B <=> j - n \in {i \in DOMAIN s : s[i] = x} /\ j \in Nat
    PROVE  IsFiniteSet(B) /\ Cardinality(B) = Count(s, x)
<1> DEFINE A == {i \in DOMAIN s : s[i] = x}
           f == [i \in A |-> i + n]
<1>1. \A i \in A : i \in Nat /\ i + n \in B
  OBVIOUS
<1>2. f \in [A -> B]
  BY <1>1
<1>3. \A i, j \in A : f[i] = f[j] => i = j
  BY <1>1
<1>4. \A j \in B : \E i \in A : f[i] = j
  <2> TAKE j \in B
  <2>1. j - n \in A /\ j \in Nat
    OBVIOUS
  <2>2. f[j - n] = j
    BY <2>1
  <2> QED BY <2>1, <2>2
<1>5. f \in Bijection(A, B)
  BY <1>2, <1>3, <1>4 DEF Bijection, Injection, Surjection, IsInjective
<1>6. ExistsBijection(A, B)
  BY <1>5 DEF ExistsBijection
<1>7. IsFiniteSet(A)
  BY CountFacts
<1> HIDE DEF A, f
<1>8. IsFiniteSet(B) /\ Cardinality(B) = Cardinality(A)
  BY <1>6, <1>7, FS_Bijection
<1> QED BY <1>8 DEF A, Count

LEMMA CountConcat ==
    ASSUME NEW S, NEW s \in Seq(S), NEW t \in Seq(S), NEW x
    PROVE  /\ s \o t \in Seq(S) /\ Len(s \o t) = Len(s) + Len(t)
           /\ Count(s \o t, x) = Count(s, x) + Count(t, x)
<1> DEFINE n == Len(s)
           A == {i \in DOMAIN s : s[i] = x}
           B == {i \in DOMAIN (s \o t) : i > n /\ (s \o t)[i] = x}
           C == {i \in DOMAIN (s \o t) : (s \o t)[i] = x}
<1>1. n \in Nat /\ Len(t) \in Nat /\ DOMAIN s = 1 .. n /\ DOMAIN t = 1 .. Len(t)
      /\ s \o t \in Seq(S) /\ Len(s \o t) = n + Len(t) /\ DOMAIN (s \o t) = 1 .. (n + Len(t))
  OBVIOUS
<1>2. /\ \A i \in 1 .. n : (s \o t)[i] = s[i]
      /\ \A i \in 1 .. Len(t) : (s \o t)[i + n] = t[i]
  OBVIOUS
<1>3. \A j : j \in B <=> j - n \in {i \in DOMAIN t : t[i] = x} /\ j \in Nat
  <2> TAKE j
  <2>1. ASSUME j \in B PROVE j - n \in {i \in DOMAIN t : t[i] = x} /\ j \in Nat
    <3>1. j \in Nat /\ j - n \in 1 .. Len(t) /\ (s \o t)[j] = x
      BY <1>1, <2>1
    <3>2. (s \o t)[(j - n) + n] = t[j - n] /\ (j - n) + n = j
      BY <1>1, <1>2, <3>1
    <3> QED BY <1>1, <3>1, <3>2
  <2>2. ASSUME j - n \in {i \in DOMAIN t : t[i] = x}, j \in Nat PROVE j \in B
    <3>1. j - n \in 1 .. Len(t) /\ t[j - n] = x
      BY <1>1, <2>2
    <3>2. (s \o t)[(j - n) + n] = t[j - n] /\ (j - n) + n = j
      BY <1>1, <1>2, <2>2, <3>1
    <3>3. j \in 1 .. (n + Len(t)) /\ j > n
      BY <1>1, <2>2, <3>1
    <3> QED BY <1>1, <3>1, <3>2, <3>3
  <2> QED BY <2>1, <2>2
<1>4. IsFiniteSet(B) /\ Cardinality(B) = Count(t, x)
  <2>1. B \in SUBSET Nat
    BY <1>1
  <2> HIDE DEF B, n
  <2> QED BY <1>1, <1>3, <2>1, CountMoved
<1>5. A \cup B = C /\ A \cap B = {}
  BY <1>1, <1>2
<1>6. IsFiniteSet(A)
  BY CountFacts
<1> HIDE DEF A, B, C
<1>7. Cardinality(C) = Cardinality(A) + Cardinality(B)
  <2>1. Cardinality(A \cap B) = 0 /\ Cardinality(A) \in Nat /\ Cardinality(B) \in Nat
    BY <1>4, <1>5, <1>6, FS_EmptySet, FS_CardinalityType
  <2>2. Cardinality(A \cup B) = Cardinality(A) + Cardinality(B) - Cardinality(A \cap B)
    BY <1>4, <1>6, FS_Union
  <2> DEFINE a == Cardinality(A)
             b == Cardinality(B)
  <2>3. Cardinality(A \cup B) = a + b - 0 /\ a \in Nat /\ b \in Nat
    BY <2>1, <2>2
  <2> HIDE DEF a, b
  <2>4. Cardinality(A \cup B) = a + b
    BY <2>3
  <2> QED BY <1>5, <2>4 DEF a, b
<1> QED BY <1>1, <1>4, <1>7 DEF A, C, Count

LEMMA CountOne ==
    ASSUME NEW y, NEW x
    PROVE  Count(<<y>>, x) = Holds(y = x)
<1>1. DOMAIN <<y>> = {1} /\ <<y>>[1] = y
  OBVIOUS
<1>2. CASE y = x
  <2>1. {i \in DOMAIN <<y>> : <<y>>[i] = x} = {1}
    BY <1>1, <1>2
  <2>2. Cardinality({1}) = 1
    BY FS_Singleton
  <2> QED BY <1>2, <2>1, <2>2 DEF Count, Holds
<1>3. CASE y # x
  <2>1. {i \in DOMAIN <<y>> : <<y>>[i] = x} = {}
    BY <1>1, <1>3
  <2>2. Cardinality({}) = 0
    BY FS_EmptySet
  <2> QED BY <1>3, <2>1, <2>2 DEF Count, Holds
<1> QED BY <1>2, <1>3

LEMMA CountPushed ==
    ASSUME NEW S, NEW s \in Seq(S), NEW y \in S, NEW x
    PROVE  Count(Pushed(y, s), x) = Count(s, x) + Holds(y = x)
<1>1. <<y>> \in Seq(S)
  OBVIOUS
<1> DEFINE u == <<y>>
<1>2. Pushed(y, s) = u \o s
  BY DEF Pushed
<1>3. Count(u, x) = Holds(y = x)
  BY CountOne
<1>4. u \in Seq(S)
  BY <1>1
<1> HIDE DEF u
<1>5. Count(u \o s, x) = Count(u, x) + Count(s, x)
  BY <1>4, CountConcat
<1>6. Holds(y = x) \in Int /\ Count(s, x) \in Int
  BY HoldsFacts, CountFacts
<1> QED BY <1>2, <1>3, <1>5, <1>6

LEMMA CountTail ==
    ASSUME NEW S, NEW s \in Seq(S), s # <<>>, NEW x
    PROVE  /\ Tail(s) \in Seq(S) /\ Head(s) \in S
           /\ Count(s, x) = Count(Tail(s), x) + Holds(Head(s) = x)
<1>1. Tail(s) \in Seq(S) /\ Head(s) \in S
  OBVIOUS
<1>2. s = Pushed(Head(s), Tail(s))
  BY DEF Pushed
<1> DEFINE t == Tail(s)
           y == Head(s)
<1>3. t \in Seq(S) /\ y \in S /\ s = Pushed(y, t)
  BY <1>1, <1>2
<1> HIDE DEF t, y
<1>4. Count(Pushed(y, t), x) = Count(t, x) + Holds(y = x)
  BY <1>3, CountPushed
<1> QED BY <1>1, <1>3, <1>4 DEF t, y

Appended(s, w) == s \o <<w>>

\* The FIFO t that s becomes when m words are read and n written, none or one.
FifoStep(s, m, n, w, t) ==
    /\ m = 1 => Len(s) >= 1
    /\ m = 1 /\ n = 0 => t = Tail(s)
    /\ m = 0 /\ n = 0 => t = s
    /\ m = 1 /\ n = 1 => t = Appended(Tail(s), w)
    /\ m = 0 /\ n = 1 => t = Appended(s, w)

LEMMA FifoSteps ==
    ASSUME NEW s, NEW d, NEW rd, NEW wr, NEW w, NEW S, s \in Seq(S),
           rd => Len(s) >= 1
    PROVE  /\ Holds(rd) \in {0, 1} /\ Holds(wr /\ Len(s) < d) \in {0, 1}
           /\ FifoStep(s, Holds(rd), Holds(wr /\ Len(s) < d), w, Fifo(s, d, rd, wr, w))
<1>1. rd => Tail(s) \o <<>> = Tail(s)
  <2> SUFFICES ASSUME rd PROVE Tail(s) \o <<>> = Tail(s)
    OBVIOUS
  <2>1. Tail(s) \in Seq(S)
    OBVIOUS
  <2> QED BY <2>1
<1>2. s \o <<>> = s
  OBVIOUS
<1> DEFINE put == wr /\ Len(s) < d
           f == Fifo(s, d, rd, wr, w)
<1>3. CASE rd /\ put
  <2>1. f = Appended(Tail(s), w)
    BY <1>3 DEF Fifo, Appended
  <2>2. Holds(rd) = 1 /\ Holds(put) = 1
    BY <1>3 DEF Holds
  <2>3. Len(s) >= 1
    BY <1>3
  <2> HIDE DEF f, put
  <2>4. FifoStep(s, 1, 1, w, f)
    BY <2>1, <2>3 DEF FifoStep
  <2> QED BY <2>2, <2>4 DEF f, put
<1>4. CASE rd /\ ~ put
  <2>1. f = Tail(s)
    BY <1>1, <1>4 DEF Fifo
  <2>2. Holds(rd) = 1 /\ Holds(put) = 0
    BY <1>4 DEF Holds
  <2>3. Len(s) >= 1
    BY <1>4
  <2> HIDE DEF f, put
  <2>4. FifoStep(s, 1, 0, w, f)
    BY <2>1, <2>3 DEF FifoStep
  <2> QED BY <2>2, <2>4 DEF f, put
<1>5. CASE ~ rd /\ put
  <2>1. f = Appended(s, w)
    BY <1>5 DEF Fifo, Appended
  <2>2. Holds(rd) = 0 /\ Holds(put) = 1
    BY <1>5 DEF Holds
  <2> HIDE DEF f, put
  <2> QED BY <2>1, <2>2 DEF FifoStep, f, put
<1>6. CASE ~ rd /\ ~ put
  <2>1. f = s
    BY <1>2, <1>6 DEF Fifo
  <2>2. Holds(rd) = 0 /\ Holds(put) = 0
    BY <1>6 DEF Holds
  <2> HIDE DEF f, put
  <2> QED BY <2>1, <2>2 DEF FifoStep, f, put
<1> QED BY <1>3, <1>4, <1>5, <1>6

LEMMA CountAppended ==
    ASSUME NEW S, NEW s \in Seq(S), NEW w \in S, NEW x
    PROVE  /\ Appended(s, w) \in Seq(S) /\ Len(Appended(s, w)) = Len(s) + 1 /\ Len(s) \in Nat
           /\ Count(Appended(s, w), x) = Count(s, x) + Holds(w = x)
<1> DEFINE u == <<w>>
<1>1. u \in Seq(S) /\ Len(u) = 1 /\ Len(s) \in Nat
  OBVIOUS
<1>2. Count(u, x) = Holds(w = x)
  BY CountOne
<1>3. Appended(s, w) = s \o u
  BY DEF Appended
<1> HIDE DEF u
<1>4. u \in Seq(S)
  BY <1>1
<1>5. s \o u \in Seq(S) /\ Count(s \o u, x) = Count(s, x) + Count(u, x)
  BY <1>4, CountConcat
<1>6. Len(s \o u) = Len(s) + Len(u)
  BY <1>4, CountConcat
<1> QED BY <1>1, <1>2, <1>3, <1>5, <1>6

(* What a FIFO holds after an edge.                                        *)
LEMMA FifoCount ==
    ASSUME NEW S, NEW s \in Seq(S), NEW m \in {0, 1}, NEW n \in {0, 1}, NEW w, n = 1 => w \in S,
           NEW t, FifoStep(s, m, n, w, t), NEW x
    PROVE  /\ t \in Seq(S)
           /\ Count(t, x) = Count(s, x) - (IF m = 1 /\ Head(s) = x THEN 1 ELSE 0)
                               + (IF n = 1 /\ w = x THEN 1 ELSE 0)
<1>0. Count(s, x) \in Int
  BY CountFacts
<1>1. Len(s) \in Nat /\ Count(s, x) \in Int
  BY <1>0
<1>2. Holds(w = x) = IF w = x THEN 1 ELSE 0
  BY DEF Holds
<1>3. ASSUME m = 1
      PROVE  /\ Tail(s) \in Seq(S) /\ Len(Tail(s)) = Len(s) - 1 /\ s # <<>>
             /\ Count(Tail(s), x) \in Int
             /\ Count(s, x) = Count(Tail(s), x) + (IF Head(s) = x THEN 1 ELSE 0)
  <2>0. Len(s) >= 1
    BY <1>3 DEF FifoStep
  <2>1. s # <<>>
    BY <2>0
  <2>2. Tail(s) \in Seq(S) /\ Len(Tail(s)) = Len(s) - 1
    BY <2>1
  <2>3. Count(s, x) = Count(Tail(s), x) + Holds(Head(s) = x)
    BY <2>1, CountTail
  <2>4. Holds(Head(s) = x) = IF Head(s) = x THEN 1 ELSE 0
    BY DEF Holds
  <2>5. Count(Tail(s), x) \in Int
    BY <2>2, CountFacts
  <2> QED BY <2>1, <2>2, <2>3, <2>4, <2>5
<1>4. CASE m = 0 /\ n = 0
  <2>1. t = s
    BY <1>4 DEF FifoStep
  <2> QED BY <1>1, <1>4, <2>1
<1>5. CASE m = 1 /\ n = 0
  <2>1. t = Tail(s)
    BY <1>5 DEF FifoStep
  <2> QED BY <1>1, <1>3, <1>5, <2>1
<1>6. CASE m = 0 /\ n = 1
  <2>1. t = Appended(s, w)
    BY <1>6 DEF FifoStep
  <2>2. /\ Appended(s, w) \in Seq(S) /\ Len(Appended(s, w)) = Len(s) + 1
        /\ Count(Appended(s, w), x) = Count(s, x) + Holds(w = x)
    BY <1>6, CountAppended
  <2> QED BY <1>1, <1>2, <1>6, <2>1, <2>2
<1>7. CASE m = 1 /\ n = 1
  <2> DEFINE u == Tail(s)
  <2>1. t = Appended(u, w)
    BY <1>7 DEF FifoStep
  <2>2. u \in Seq(S)
    BY <1>3, <1>7
  <2>3. /\ Appended(u, w) \in Seq(S) /\ Len(Appended(u, w)) = Len(u) + 1
        /\ Count(Appended(u, w), x) = Count(u, x) + Holds(w = x)
    <3> HIDE DEF u
    <3> QED BY <1>7, <2>2, CountAppended
  <2> QED BY <1>1, <1>2, <1>3, <1>7, <2>1, <2>3
<1> QED BY <1>4, <1>5, <1>6, <1>7

LEMMA FifoLen ==
    ASSUME NEW S, NEW s \in Seq(S), NEW m \in {0, 1}, NEW n \in {0, 1}, NEW w, n = 1 => w \in S,
           NEW t, FifoStep(s, m, n, w, t)
    PROVE  Len(s) \in Nat /\ Len(t) = Len(s) - m + n
<1>1. Len(s) \in Nat
  OBVIOUS
<1>2. m = 1 => Tail(s) \in Seq(S) /\ Len(Tail(s)) = Len(s) - 1
  <2> SUFFICES ASSUME m = 1 PROVE Tail(s) \in Seq(S) /\ Len(Tail(s)) = Len(s) - 1
    OBVIOUS
  <2>1. Len(s) >= 1
    BY DEF FifoStep
  <2>2. s # <<>>
    BY <2>1
  <2> QED BY <2>2
<1>3. n = 1 => Len(Appended(s, w)) = Len(s) + 1
  BY CountAppended
<1>4. m = 1 /\ n = 1 => Len(Appended(Tail(s), w)) = Len(s)
  <2> DEFINE u == Tail(s)
  <2> SUFFICES ASSUME m = 1, n = 1 PROVE Len(Appended(u, w)) = Len(s)
    OBVIOUS
  <2>1. u \in Seq(S) /\ Len(u) = Len(s) - 1
    BY <1>2
  <2> HIDE DEF u
  <2>2. Len(Appended(u, w)) = Len(u) + 1
    BY <2>1, CountAppended
  <2> QED BY <1>1, <2>1, <2>2
<1>5. /\ m = 1 /\ n = 0 => t = Tail(s)
      /\ m = 0 /\ n = 0 => t = s
      /\ m = 1 /\ n = 1 => t = Appended(Tail(s), w)
      /\ m = 0 /\ n = 1 => t = Appended(s, w)
  BY DEF FifoStep
<1> QED BY <1>1, <1>2, <1>3, <1>4, <1>5

(* From stage to stage: what is in T has moved on from S, and the first    *)
(* stage may be filled.                                                    *)
LEMMA StageCount ==
    ASSUME NEW S \in SUBSET (0 .. 3), NEW T \in SUBSET (0 .. 3),
           \A j \in 1 .. 3 : j \in T => j - 1 \in S
    PROVE  /\ Cardinality(S) \in Nat /\ Cardinality(T) \in Nat
           /\ Cardinality(T) + Holds(3 \in S) <= Cardinality(S) + Holds(0 \in T)
           /\ (\A j \in 1 .. 3 : j - 1 \in S => j \in T) =>
                 Cardinality(T) + Holds(3 \in S) = Cardinality(S) + Holds(0 \in T)
<1> DEFINE A == S \ {3}
           B == T \ {0}
           f == [j \in B |-> j - 1]
<1>1. IsFiniteSet(S) /\ IsFiniteSet(T)
  <2>1. IsFiniteSet(0 .. 3)
    <3>1. PICK a \in Int, b \in Int : a = 0 /\ b = 3
      OBVIOUS
    <3>2. IsFiniteSet(a .. b)
      BY FS_Interval
    <3> QED BY <3>1, <3>2
  <2> QED BY <2>1, FS_Subset
<1>2. /\ IsFiniteSet(A) /\ Cardinality(A) = IF 3 \in S THEN Cardinality(S) - 1 ELSE Cardinality(S)
      /\ IsFiniteSet(B) /\ Cardinality(B) = IF 0 \in T THEN Cardinality(T) - 1 ELSE Cardinality(T)
      /\ Cardinality(S) \in Nat /\ Cardinality(T) \in Nat
      /\ Cardinality(A) \in Nat /\ Cardinality(B) \in Nat
  <2>1. /\ IsFiniteSet(A) /\ Cardinality(A) = IF 3 \in S THEN Cardinality(S) - 1 ELSE Cardinality(S)
        /\ IsFiniteSet(B) /\ Cardinality(B) = IF 0 \in T THEN Cardinality(T) - 1 ELSE Cardinality(T)
    BY <1>1, FS_RemoveElement
  <2> HIDE DEF A, B
  <2> QED BY <1>1, <2>1, FS_CardinalityType
<1>3. \A j \in B : j \in 1 .. 3 /\ j - 1 \in A
  OBVIOUS
<1>4. f \in Injection(B, A)
  <2>1. f \in [B -> A]
    BY <1>3
  <2>2. ASSUME NEW a \in B, NEW b \in B, f[a] = f[b] PROVE a = b
    BY <2>2
  <2> QED BY <2>1, <2>2 DEF Injection, IsInjective
<1>5. ASSUME \A j \in 1 .. 3 : j - 1 \in S => j \in T
      PROVE  f \in Surjection(B, A)
  <2>1. f \in [B -> A]
    BY <1>3
  <2>2. \A a \in A : a + 1 \in B /\ f[a + 1] = a
    <3> TAKE a \in A
    <3>1. a + 1 \in 1 .. 3 /\ (a + 1) - 1 = a /\ a \in S
      OBVIOUS
    <3>2. a + 1 \in B
      BY <1>5, <3>1
    <3> QED BY <3>1, <3>2
  <2> QED BY <2>1, <2>2 DEF Surjection
<1> DEFINE a == Cardinality(A)
           b == Cardinality(B)
           c == Cardinality(S)
           d == Cardinality(T)
<1>6. b <= a /\ (b = a <=> f \in Surjection(B, A))
  <2> HIDE DEF A, B, f
  <2> QED BY <1>2, <1>4, FS_Injection
<1> HIDE DEF A, B, f, a, b, c, d
<1>7. /\ a = IF 3 \in S THEN c - 1 ELSE c
      /\ b = IF 0 \in T THEN d - 1 ELSE d
      /\ a \in Nat /\ b \in Nat /\ c \in Nat /\ d \in Nat
  BY <1>2 DEF a, b, c, d
<1>8. d + Holds(3 \in S) <= c + Holds(0 \in T)
  BY <1>6, <1>7 DEF Holds
<1>9. ASSUME \A j \in 1 .. 3 : j - 1 \in S => j \in T
      PROVE  d + Holds(3 \in S) = c + Holds(0 \in T)
  <2>1. b = a
    BY <1>5, <1>6, <1>9
  <2> QED BY <1>7, <2>1 DEF Holds
<1> QED BY <1>7, <1>8, <1>9 DEF c, d

-----------------------------------------------------------------------------
(* What the wrapper issues.                                                *)

LEMMA TypesOfDeques ==
    /\ HEAP_OP_DEQUE_PRIMARY_TYPE # HEAP_OP_DEQUE_SECONDARY_TYPE
    /\ DequeTypes = {HEAP_OP_DEQUE_PRIMARY_TYPE, HEAP_OP_DEQUE_SECONDARY_TYPE}
    /\ "ENQUE" \notin DequeTypes
    /\ Ops = {"ENQUE"} \cup DequeTypes
BY PrimaryAssumption DEF HEAP_OP_DEQUE_SECONDARY_TYPE, DequeTypes, Ops

LEMMA WordFacts ==
    /\ \A w \in Words : w.value \in Values /\ w.priority \in InPriorities
    /\ \A w \in Words : w.priority \in Priorities /\ w # Idle
    /\ Words \subseteq OutWords
BY PrioritiesAssumption, NoWordAssumption DEF Words, OutWords, Priorities

LEMMA IssuedEnque ==
    ASSUME FifosOK, enque_fifo_rdreq
    PROVE  /\ HeapInput = EnqueOp(Head(enque_fifo)) /\ HeapInput # Idle
           /\ Head(enque_fifo) \in Words /\ enque_fifo # <<>>
           /\ HeapInput \in Inputs /\ HeapInput.type = "ENQUE"
           /\ Word(HeapInput) = Head(enque_fifo)
           /\ heap_ready /\ size + num_ops_enque < MaxEntries
<1> DEFINE w == Head(enque_fifo)
<1>1. w \in Words /\ enque_fifo # <<>>
  BY DEF FifosOK, enque_fifo_rdreq
<1>2. /\ HeapInput = EnqueOp(w)
      /\ heap_ready /\ size + num_ops_enque < MaxEntries
  BY DEF HeapInput, enque_fifo_rdreq, heap_size_plus_enques
<1> HIDE DEF w
<1>3. /\ w.value \in Values /\ w.priority \in InPriorities /\ w.priority \in Priorities
      /\ w = [value |-> w.value, priority |-> w.priority]
  BY <1>1, WordFacts DEF Words
<1>4. EnqueOp(w) \in OutOp
  BY <1>3 DEF EnqueOp, OutOp, Ops
<1>5. HeapInput # Idle
  BY <1>2, <1>4, IdleAssumption
<1>6. HeapInput \in Inputs /\ HeapInput.type = "ENQUE"
  BY <1>2, <1>3 DEF EnqueOp, Inputs
<1>7. Word(HeapInput) = w
  BY <1>2, <1>3 DEF EnqueOp, Word
<1> QED BY <1>1, <1>2, <1>5, <1>6, <1>7 DEF w

LEMMA IssuedDeque ==
    ASSUME IssueSecondary \/ IssuePrimary
    PROVE  /\ HeapInput \in Inputs /\ ~ enque_fifo_rdreq /\ heap_ready
           /\ HeapInput.type \in DequeTypes
           /\ HeapInput.type = HEAP_OP_DEQUE_SECONDARY_TYPE => IssueSecondary
           /\ HeapInput.type = HEAP_OP_DEQUE_PRIMARY_TYPE => IssuePrimary
<1>1. CASE IssueSecondary
  <2>1. HeapInput = DequeOp(HEAP_OP_DEQUE_SECONDARY_TYPE)
    BY <1>1 DEF HeapInput
  <2>2. ~ enque_fifo_rdreq /\ heap_ready
    BY <1>1 DEF enque_fifo_rdreq, IssueSecondary
  <2> QED BY <1>1, <2>1, <2>2, TypesOfDeques DEF DequeOp, Inputs, DequeTypes
<1>2. CASE ~ IssueSecondary /\ IssuePrimary
  <2>1. HeapInput = DequeOp(HEAP_OP_DEQUE_PRIMARY_TYPE)
    BY <1>2 DEF HeapInput
  <2>2. ~ enque_fifo_rdreq /\ heap_ready
    BY <1>2 DEF enque_fifo_rdreq, IssuePrimary
  <2> QED BY <1>2, <2>1, <2>2, TypesOfDeques DEF DequeOp, Inputs, DequeTypes
<1> QED BY <1>1, <1>2

LEMMA NothingIssued ==
    ASSUME ~ enque_fifo_rdreq, ~ IssueSecondary, ~ IssuePrimary
    PROVE  HeapInput = Idle
BY DEF HeapInput

LEMMA Issued ==
    ASSUME FifosOK
    PROVE  /\ HeapInput \in Inputs \cup {Idle}
           /\ ~ heap_ready => HeapInput = Idle /\ ~ enque_fifo_rdreq
           /\ HeapInput # Idle /\ HeapInput.type = "ENQUE" => enque_fifo_rdreq
           /\ HeapInput # Idle /\ HeapInput.type = HEAP_OP_DEQUE_SECONDARY_TYPE => IssueSecondary
           /\ HeapInput # Idle /\ HeapInput.type = HEAP_OP_DEQUE_PRIMARY_TYPE => IssuePrimary
<1>1. CASE enque_fifo_rdreq
  BY <1>1, IssuedEnque, TypesOfDeques
<1>2. CASE IssueSecondary \/ IssuePrimary
  BY <1>2, IssuedDeque, TypesOfDeques
<1>3. CASE ~ enque_fifo_rdreq /\ ~ IssueSecondary /\ ~ IssuePrimary
  BY <1>3, NothingIssued
<1> QED BY <1>1, <1>2, <1>3

-----------------------------------------------------------------------------
(* What one cycle does to the operations under way.                        *)

(* The operations move on by one stage, deques possibly fail; an enque     *)
(* keeps its word.                                                         *)
LEMMA OpsMove ==
    ASSUME IInv, state = "READY", NEW in \in Inputs \cup {Idle}, Cycle(in)
    PROVE  /\ reg'[0] # Idle <=> in # Idle
           /\ reg'[0] # Idle => reg'[0].type = in.type
           /\ reg'[0] # Idle /\ in.type = "ENQUE" => Word(reg'[0]) = Word(in)
           /\ \A j \in 1 .. 3 : reg'[j] # Idle =>
                 /\ reg[j - 1] # Idle /\ reg'[j].type = reg[j - 1].type
                 /\ reg[j - 1].type = "ENQUE" => Word(reg'[j]) = Word(reg[j - 1])
           /\ reg'[4] # Idle <=> reg[3] # Idle
           /\ reg'[4] # Idle => reg'[4].type = reg[3].type
<1>1. Advance /\ reg' = NextReg(in)
  BY DEF Cycle, Accept
<1>2. /\ reg'[0] # Idle <=> in # Idle
      /\ reg'[0] # Idle => reg'[0].type = in.type
      /\ reg'[0] # Idle /\ in.type = "ENQUE" => Word(reg'[0]) = Word(in)
  BY <1>1, Stage0 DEF Word
<1>3. ASSUME NEW j \in 1 .. 3, reg'[j] # Idle
      PROVE  /\ reg[j - 1] # Idle /\ reg'[j].type = reg[j - 1].type
             /\ reg[j - 1].type = "ENQUE" => Word(reg'[j]) = Word(reg[j - 1])
  <2>1. CASE j = 1
    BY <1>1, <1>3, <2>1, Stage1 DEF Busy, Word
  <2>2. CASE j = 2
    <3>1. /\ reg[1] # Idle /\ reg'[2].type = reg[1].type
          /\ reg'[2].value = reg[1].value /\ reg'[2].priority = pb_rdaddress
      BY <1>1, <1>3, <2>2, Stage2 DEF Busy
    <3>2. reg[1].type = "ENQUE" => pb_rdaddress = reg[1].priority
      BY DEF pb_rdaddress, IsEnque
    <3> QED BY <2>2, <3>1, <3>2 DEF Word
  <2>3. CASE j = 3
    BY <1>1, <1>3, <2>3, Stage3 DEF Busy, Word
  <2> QED BY <2>1, <2>2, <2>3
<1>4. /\ reg'[4] # Idle <=> reg[3] # Idle
      /\ reg'[4] # Idle => reg'[4].type = reg[3].type
  BY <1>1, Stage4 DEF Busy
<1> QED BY <1>2, <1>3, <1>4

(* An operation of a kind is in the pipeline no longer than once, and a    *)
(* new one only if it was issued.                                          *)
LEMMA CycleDeques ==
    ASSUME IInv, state = "READY", NEW in \in Inputs \cup {Idle}, Cycle(in), NEW type
    PROVE  /\ NumOps(type) \in Nat /\ NumOps(type)' \in Nat
           /\ InPipelineOf(type)' <= NumOps(type) + Holds(in # Idle /\ in.type = type)
           /\ HeapOutputs(type)' => NumOps(type) >= 1
<1> DEFINE S == {k \in 0 .. 3 : reg[k] # Idle /\ reg[k].type = type}
           T == {k \in 0 .. 3 : reg'[k] # Idle /\ reg'[k].type = type}
<1>1. NumOps(type) = Cardinality(S) /\ NumOps(type)' = Cardinality(T)
  BY DEF NumOps
<1>2. \A j \in 1 .. 3 : j \in T => j - 1 \in S
  BY OpsMove
<1>3. 0 \in T <=> in # Idle /\ in.type = type
  BY OpsMove
<1>4. 3 \in S <=> HeapOutputs(type)'
  BY OpsMove DEF HeapOutputs
<1>5. S \in SUBSET (0 .. 3) /\ T \in SUBSET (0 .. 3)
  OBVIOUS
<1> HIDE DEF S, T
<1>6. /\ Cardinality(S) \in Nat /\ Cardinality(T) \in Nat
      /\ Cardinality(T) + Holds(3 \in S) <= Cardinality(S) + Holds(0 \in T)
  BY <1>2, <1>5, StageCount
<1>7. Holds(3 \in S) = Holds(HeapOutputs(type)') /\ Holds(0 \in T) = Holds(in # Idle /\ in.type = type)
  BY <1>3, <1>4 DEF Holds
<1>8. Holds(HeapOutputs(type)') = Holds(HeapOutputs(type))'
  BY DEF Holds
<1>9. InPipelineOf(type)' = Cardinality(T) + Holds(HeapOutputs(type)')
  BY <1>1, <1>8 DEF InPipelineOf
<1>10. 3 \in S => Cardinality(S) >= 1
  <2>1. IsFiniteSet(S)
    <3>1. PICK a \in Int, b \in Int : a = 0 /\ b = 3
      OBVIOUS
    <3>2. IsFiniteSet(a .. b)
      BY FS_Interval
    <3> QED BY <1>5, <3>1, <3>2, FS_Subset
  <2>2. 3 \in S => Cardinality(S) # 0
    BY <2>1, FS_EmptySet
  <2> QED BY <1>6, <2>2
<1> QED BY <1>1, <1>4, <1>6, <1>7, <1>9, <1>10

\* The enque that commits at this edge.
CommitsEnqueOf(w) == Enque(3) /\ Word(reg[3]) = w

(* No enque is dropped on its way.                                         *)
LEMMA CycleEnques ==
    ASSUME IInv, state = "READY", EnquesSure, NEW in \in Inputs \cup {Idle}, Cycle(in), NEW w
    PROVE  /\ EnquesOf(w) \in Nat /\ EnquesOf(w)' \in Nat
           /\ EnquesOf(w)' + Holds(CommitsEnqueOf(w))
                 = EnquesOf(w) + Holds((in # Idle /\ in.type = "ENQUE") /\ Word(in) = w)
<1> DEFINE S == {k \in 0 .. 3 : reg[k] # Idle /\ IsEnque(reg[k]) /\ Word(reg[k]) = w}
           T == {k \in 0 .. 3 : reg'[k] # Idle /\ IsEnque(reg'[k]) /\ Word(reg'[k]) = w}
<1>1. EnquesOf(w) = Cardinality(S) /\ EnquesOf(w)' = Cardinality(T)
  BY DEF EnquesOf, IsEnque, Word
<1>2. \A j \in 1 .. 3 : j \in T => j - 1 \in S
  BY OpsMove DEF IsEnque
<1>3. \A j \in 1 .. 3 : j - 1 \in S => j \in T
  <2> SUFFICES ASSUME NEW j \in 1 .. 3, j - 1 \in S PROVE j \in T
    OBVIOUS
  <2>1. j - 1 \in 0 .. 2 /\ (j - 1) + 1 = j /\ j - 1 \in 0 .. 3
    OBVIOUS
  <2>2. reg[j - 1] # Idle /\ reg[j - 1].type = "ENQUE" /\ Word(reg[j - 1]) = w
    BY DEF IsEnque
  <2>3. aux[j - 1].sure
    BY <2>1, <2>2 DEF EnquesSure, Enque, Busy, IsEnque
  <2>4. Advance /\ Accept(in)
    BY DEF Cycle
  <2> DEFINE i == j - 1
  <2>5. i \in 0 .. 2 /\ aux[i].sure /\ i + 1 = j
    BY <2>1, <2>3
  <2> HIDE DEF i
  <2>6. reg'[i + 1] # Idle
    BY <2>4, <2>5, SureAdvances
  <2>7. reg'[j] # Idle
    BY <2>5, <2>6
  <2> QED BY <2>2, <2>7, OpsMove DEF IsEnque
<1>4. 0 \in T <=> (in # Idle /\ in.type = "ENQUE") /\ Word(in) = w
  BY OpsMove DEF IsEnque
<1>5. 3 \in S <=> CommitsEnqueOf(w)
  BY DEF CommitsEnqueOf, Enque, Busy
<1>6. S \in SUBSET (0 .. 3) /\ T \in SUBSET (0 .. 3)
  OBVIOUS
<1> HIDE DEF S, T
<1>7. /\ Cardinality(S) \in Nat /\ Cardinality(T) \in Nat
      /\ Cardinality(T) + Holds(3 \in S) = Cardinality(S) + Holds(0 \in T)
  BY <1>2, <1>3, <1>6, StageCount
<1>8. /\ Holds(3 \in S) = Holds(CommitsEnqueOf(w))
      /\ Holds(0 \in T) = Holds((in # Idle /\ in.type = "ENQUE") /\ Word(in) = w)
  BY <1>4, <1>5 DEF Holds
<1> QED BY <1>1, <1>7, <1>8

(* A commit moves one word into a stack or to the output port.             *)
LEMMA CycleHeap ==
    ASSUME IInv, state = "READY", NEW in, Cycle(in), NEW w \in OutWords
    PROVE  /\ InHeap(w) \in Nat /\ InHeap(w)' \in Nat
           /\ InHeap(w)' + Answer(w)' = InHeap(w) + Holds(CommitsEnqueOf(w))
<1>0. PICK q, v, u : q = AtPriority /\ v = he_value_q4 /\ u = reg[3].value
  OBVIOUS
<1> DEFINE p == w.priority
           x == w.value
           s == Stack(p)
           t == Stack(p)'
<1>1. p \in Priorities /\ x \in Values /\ w = [value |-> x, priority |-> p]
  BY DEF OutWords
<1>2. Advance /\ reg' = NextReg(in) /\ Committing /\ Accept(in)
  BY DEF Cycle, Advance, Accept, Committing
<1>3. InHeap(w) = Count(s, x) /\ InHeap(w)' = Count(t, x)
  BY DEF InHeap, Count
<1>4. s \in Seq(Values)
  BY <1>1, ReadyStacks
<1>5. /\ reg'[4] # Idle <=> Busy(3)
      /\ Busy(3) => reg'[4] = [type |-> reg[3].type, priority |-> q, value |-> v]
  BY <1>0, <1>2, Stage4
<1>6. Answer(w)' = Holds(Busy(3) /\ ~ Enque(3) /\ v = x /\ q = p)
  <2>1. (reg'[4] # Idle /\ ~ IsEnque(reg'[4]) /\ Word(reg'[4]) = w)
            <=> (Busy(3) /\ ~ Enque(3) /\ v = x /\ q = p)
    BY <1>1, <1>5 DEF Enque, Word, IsEnque
  <2> HIDE DEF p, x
  <2> QED BY <2>1 DEF Answer, Holds, IsEnque, Word
<1>7. CommitsEnqueOf(w) <=> Enque(3) /\ u = x /\ q = p
  BY <1>0, <1>1 DEF CommitsEnqueOf, Word, AtPriority
<1>8. CASE Enque(3)
  <2>1. /\ q \in Priorities /\ u \in Values
        /\ Stack(q)' = Pushed(u, Stack(q))
        /\ \A r \in Priorities \ {q} : Stack(r)' = Stack(r)
    BY <1>0, <1>2, <1>8, EnqueStacks
  <2>2. Answer(w)' = 0
    BY <1>6, <1>8 DEF Holds
  <2>3. Holds(CommitsEnqueOf(w)) = Holds(u = x /\ q = p)
    BY <1>7, <1>8 DEF Holds
  <2>4. t \in Seq(Values) /\ Count(t, x) = Count(s, x) + Holds(u = x /\ q = p)
    <3>1. CASE p = q
      <4>1. u \in Values /\ t = Pushed(u, s)
        BY <2>1, <3>1
      <4>2. Pushed(u, s) \in Seq(Values)
        <5> HIDE DEF s
        <5> QED BY <1>4, <4>1 DEF Pushed
      <4>3. Holds(u = x /\ q = p) = Holds(u = x)
        BY <3>1 DEF Holds
      <4> HIDE DEF s, t
      <4>4. Count(Pushed(u, s), x) = Count(s, x) + Holds(u = x)
        BY <1>4, <4>1, CountPushed
      <4> QED BY <4>1, <4>2, <4>3, <4>4
    <3>2. CASE p # q
      <4>1. t = s
        BY <1>1, <2>1, <3>2
      <4>2. Holds(u = x /\ q = p) = 0
        BY <3>2 DEF Holds
      <4> HIDE DEF s, t, p, x
      <4>3. Count(s, x) \in Int
        BY <1>4, CountFacts
      <4> QED BY <1>4, <4>1, <4>2, <4>3
    <3> QED BY <3>1, <3>2
  <2> HIDE DEF s, t, x
  <2>5. Count(s, x) \in Nat /\ Count(t, x) \in Nat
    BY <1>4, <2>4, CountFacts
  <2> QED BY <1>3, <2>2, <2>3, <2>4, <2>5
<1>9. CASE Busy(3) /\ ~ Enque(3)
  <2>1. /\ q \in Priorities /\ v \in Values
        /\ Stack(q) # <<>> /\ Head(Stack(q)) = v
        /\ Stack(q)' = Tail(Stack(q))
        /\ \A r \in Priorities \ {q} : Stack(r)' = Stack(r)
    BY <1>0, <1>2, <1>9, DequeStacks
  <2>2. Holds(CommitsEnqueOf(w)) = 0
    BY <1>7, <1>9 DEF Holds
  <2>3. Answer(w)' = Holds(v = x /\ q = p)
    BY <1>6, <1>9 DEF Holds
  <2>4. t \in Seq(Values) /\ Count(s, x) = Count(t, x) + Holds(v = x /\ q = p)
    <3>1. CASE p = q
      <4>1. s # <<>> /\ Head(s) = v /\ t = Tail(s)
        BY <2>1, <3>1
      <4>2. Holds(v = x /\ q = p) = Holds(v = x)
        BY <3>1 DEF Holds
      <4> HIDE DEF s, t, x
      <4>3. /\ Tail(s) \in Seq(Values)
            /\ Count(s, x) = Count(Tail(s), x) + Holds(Head(s) = x)
        BY <1>4, <4>1, CountTail
      <4> QED BY <4>1, <4>2, <4>3
    <3>2. CASE p # q
      <4>1. t = s
        BY <1>1, <2>1, <3>2
      <4>2. Holds(v = x /\ q = p) = 0
        BY <3>2 DEF Holds
      <4> HIDE DEF s, t, p, x
      <4>3. Count(s, x) \in Int
        BY <1>4, CountFacts
      <4> QED BY <1>4, <4>1, <4>2, <4>3
    <3> QED BY <3>1, <3>2
  <2> HIDE DEF s, t, x
  <2>5. Count(s, x) \in Nat /\ Count(t, x) \in Nat
    BY <1>4, <2>4, CountFacts
  <2> QED BY <1>3, <2>2, <2>3, <2>4, <2>5
<1>10. CASE ~ Busy(3)
  <2>1. t = s
    BY <1>2, <1>10, NoStacks
  <2>2. Answer(w)' = 0 /\ Holds(CommitsEnqueOf(w)) = 0
    BY <1>6, <1>7, <1>10 DEF Holds, Enque
  <2> HIDE DEF s, t, x
  <2>3. Count(s, x) \in Nat
    BY <1>4, CountFacts
  <2> QED BY <1>3, <2>1, <2>2, <2>3
<1>11. Busy(3) \/ ~ Busy(3)
  OBVIOUS
<1> QED BY <1>8, <1>9, <1>10, <1>11

-----------------------------------------------------------------------------
(* The FIFOs and the request FSM at an edge, whatever the heap does.       *)

Primary == HEAP_OP_DEQUE_PRIMARY_TYPE
Secondary == HEAP_OP_DEQUE_SECONDARY_TYPE

\* What the environment does at an edge.
Edge(in_word, req_en, primary_rdreq, secondary_rdreq) ==
    /\ in_word \in Words \cup {Idle}
    /\ req_en \in {FALSE, in_deque_secondary_req_ready}
    /\ primary_rdreq \in Reads(out_deque_primary_ready)
    /\ secondary_rdreq \in Reads(out_deque_secondary_ready)
    /\ Fifos(in_word, primary_rdreq, secondary_rdreq)
    /\ deque_secondary_req_state' = NextReqState(req_en)

LEMMA NumOpsType ==
    ASSUME NEW type
    PROVE  NumOps(type) \in Nat
<1> DEFINE S == {k \in 0 .. 3 : reg[k] # Idle /\ reg[k].type = type}
<1>1. PICK a \in Int, b \in Int : a = 0 /\ b = 3
  OBVIOUS
<1>2. IsFiniteSet(a .. b)
  BY FS_Interval
<1>3. S \in SUBSET (a .. b)
  BY <1>1
<1> HIDE DEF S
<1>4. Cardinality(S) \in Nat
  BY <1>2, <1>3, FS_Subset, FS_CardinalityType
<1> QED BY <1>4 DEF NumOps, S

LEMMA UnderWay ==
    /\ OneDequeUnderWay <=>
          /\ InPipelineOf(Primary) + Len(deque_primary_fifo) <= 1
          /\ InPipelineOf(Secondary) + Len(deque_secondary_fifo) <= 1
          /\ InPipelineOf(Secondary) > 0 => deque_secondary_req_state = "INIT"
          /\ deque_secondary_req_state = "WAIT" => out_deque_secondary_ready
    /\ OneDequeUnderWay' <=>
          /\ InPipelineOf(Primary)' + Len(deque_primary_fifo') <= 1
          /\ InPipelineOf(Secondary)' + Len(deque_secondary_fifo') <= 1
          /\ InPipelineOf(Secondary)' > 0 => deque_secondary_req_state' = "INIT"
          /\ deque_secondary_req_state' = "WAIT" => out_deque_secondary_ready'
BY DEF OneDequeUnderWay, InPipelineOf, Primary, Secondary

(* An out-FIFO that is written has been empty.                             *)
LEMMA RoomForAnswer ==
    ASSUME WInv
    PROVE  /\ deque_primary_fifo_wrreq => Len(deque_primary_fifo) < DEQUE_FIFO_DEPTH
           /\ deque_secondary_fifo_wrreq => Len(deque_secondary_fifo) < DEQUE_FIFO_DEPTH
<1>1. Len(deque_primary_fifo) \in Nat /\ Len(deque_secondary_fifo) \in Nat
  BY DEF WInv, FifosOK
<1>2. NumOps(Primary) \in Nat /\ NumOps(Secondary) \in Nat
  BY NumOpsType
<1>3. /\ deque_primary_fifo_wrreq => InPipelineOf(Primary) >= 1
      /\ deque_secondary_fifo_wrreq => InPipelineOf(Secondary) >= 1
  BY <1>2 DEF InPipelineOf, Holds, deque_primary_fifo_wrreq, deque_secondary_fifo_wrreq,
              Primary, Secondary
<1>4. InPipelineOf(Primary) \in Nat /\ InPipelineOf(Secondary) \in Nat
  BY <1>2 DEF InPipelineOf, Holds
<1>5. /\ deque_primary_fifo_wrreq => Len(deque_primary_fifo) = 0
      /\ deque_secondary_fifo_wrreq => Len(deque_secondary_fifo) = 0
  BY <1>1, <1>3, <1>4, UnderWay DEF WInv
<1> QED BY <1>5, DepthAssumption

(* What leaves the pipeline is an enque that has ended in a stack, or goes *)
(* to one of the out-FIFOs.                                                *)
LEMMA AnswerGoes ==
    ASSUME IInv, NEW w
    PROVE  /\ deque_primary_fifo_wrreq \/ deque_secondary_fifo_wrreq => Word(reg[4]) \in OutWords
           /\ Answer(w) = Holds(deque_primary_fifo_wrreq /\ Word(reg[4]) = w)
                             + Holds(deque_secondary_fifo_wrreq /\ Word(reg[4]) = w)
<1>1. reg[4] # Idle => /\ reg[4].type \in Ops /\ reg[4].value \in Values
                       /\ reg[4].priority \in Priorities
  BY DEF IInv, TypeOK, OutOp
<1>2. deque_primary_fifo_wrreq <=> reg[4] # Idle /\ reg[4].type = HEAP_OP_DEQUE_PRIMARY_TYPE
  BY DEF deque_primary_fifo_wrreq, HeapOutputs
<1>3. deque_secondary_fifo_wrreq <=> reg[4] # Idle /\ reg[4].type = HEAP_OP_DEQUE_SECONDARY_TYPE
  BY DEF deque_secondary_fifo_wrreq, HeapOutputs
<1>4. reg[4] # Idle /\ ~ IsEnque(reg[4]) <=> deque_primary_fifo_wrreq \/ deque_secondary_fifo_wrreq
  BY <1>1, <1>2, <1>3, TypesOfDeques DEF IsEnque
<1>5. ~ (deque_primary_fifo_wrreq /\ deque_secondary_fifo_wrreq)
  BY <1>2, <1>3, TypesOfDeques
<1> QED BY <1>1, <1>2, <1>3, <1>4, <1>5 DEF Answer, Holds, OutWords, Word

LEMMA EdgeFifos ==
    ASSUME WInv, NEW in_word, NEW req_en, NEW primary_rdreq, NEW secondary_rdreq,
           Edge(in_word, req_en, primary_rdreq, secondary_rdreq), NEW w
    PROVE  /\ enque_fifo' \in Seq(Words)
           /\ deque_primary_fifo' \in Seq(OutWords)
           /\ deque_secondary_fifo' \in Seq(OutWords)
           /\ w \in Words =>
                 Count(enque_fifo', w)
                    = Count(enque_fifo, w) - Holds(enque_fifo_rdreq /\ Head(enque_fifo) = w)
                         + Holds(in_word = w /\ in_enque_ready)
           /\ Count(deque_primary_fifo', w)
                 = Count(deque_primary_fifo, w)
                      - Holds(primary_rdreq /\ Head(deque_primary_fifo) = w)
                      + Holds(deque_primary_fifo_wrreq /\ Word(reg[4]) = w)
           /\ Count(deque_secondary_fifo', w)
                 = Count(deque_secondary_fifo, w)
                      - Holds(secondary_rdreq /\ Head(deque_secondary_fifo) = w)
                      + Holds(deque_secondary_fifo_wrreq /\ Word(reg[4]) = w)
           /\ Len(deque_primary_fifo')
                 = Len(deque_primary_fifo) - Holds(primary_rdreq) + Holds(HeapOutputs(Primary))
           /\ Len(deque_secondary_fifo')
                 = Len(deque_secondary_fifo) - Holds(secondary_rdreq)
                      + Holds(HeapOutputs(Secondary))
<1>0. FifosOK /\ IInv
  BY DEF WInv
<1>2. PICK u, m1, m2, m3, n1, n2, n3 :
          /\ u = Word(reg[4])
          /\ m1 = Holds(enque_fifo_rdreq)
          /\ n1 = Holds((in_word # Idle /\ in_enque_ready) /\ Len(enque_fifo) < ENQUE_FIFO_DEPTH)
          /\ m2 = Holds(primary_rdreq)
          /\ n2 = Holds(deque_primary_fifo_wrreq /\ Len(deque_primary_fifo) < DEQUE_FIFO_DEPTH)
          /\ m3 = Holds(secondary_rdreq)
          /\ n3 = Holds(deque_secondary_fifo_wrreq /\ Len(deque_secondary_fifo) < DEQUE_FIFO_DEPTH)
  OBVIOUS
<1>3. /\ primary_rdreq => deque_primary_fifo # <<>>
      /\ secondary_rdreq => deque_secondary_fifo # <<>>
      /\ enque_fifo_rdreq => enque_fifo # <<>>
  BY DEF Edge, Reads, out_deque_primary_ready, out_deque_secondary_ready, enque_fifo_rdreq
<1>4. /\ enque_fifo \in Seq(Words) /\ deque_primary_fifo \in Seq(OutWords)
      /\ deque_secondary_fifo \in Seq(OutWords)
  BY <1>0 DEF FifosOK
<1>17. /\ primary_rdreq => Len(deque_primary_fifo) >= 1
       /\ secondary_rdreq => Len(deque_secondary_fifo) >= 1
       /\ enque_fifo_rdreq => Len(enque_fifo) >= 1
  BY <1>3, <1>4
<1>5. /\ m1 \in {0, 1} /\ n1 \in {0, 1}
      /\ FifoStep(enque_fifo, m1, n1, in_word, enque_fifo')
  BY <1>2, <1>4, <1>17, FifoSteps DEF Edge, Fifos
<1>6. /\ m2 \in {0, 1} /\ n2 \in {0, 1}
      /\ FifoStep(deque_primary_fifo, m2, n2, u, deque_primary_fifo')
  BY <1>2, <1>4, <1>17, FifoSteps DEF Edge, Fifos
<1>7. /\ m3 \in {0, 1} /\ n3 \in {0, 1}
      /\ FifoStep(deque_secondary_fifo, m3, n3, u, deque_secondary_fifo')
  BY <1>2, <1>4, <1>17, FifoSteps DEF Edge, Fifos
<1>8. /\ n1 = 1 => in_word \in Words
      /\ n2 = 1 => u \in OutWords
      /\ n3 = 1 => u \in OutWords
  BY <1>0, <1>2, AnswerGoes DEF Edge, Holds
<1>9. /\ enque_fifo' \in Seq(Words)
      /\ Count(enque_fifo', w)
            = Count(enque_fifo, w) - (IF m1 = 1 /\ Head(enque_fifo) = w THEN 1 ELSE 0)
                 + (IF n1 = 1 /\ in_word = w THEN 1 ELSE 0)
  BY <1>4, <1>5, <1>8, FifoCount
<1>10. /\ deque_primary_fifo' \in Seq(OutWords)
       /\ Count(deque_primary_fifo', w)
             = Count(deque_primary_fifo, w)
                  - (IF m2 = 1 /\ Head(deque_primary_fifo) = w THEN 1 ELSE 0)
                  + (IF n2 = 1 /\ u = w THEN 1 ELSE 0)
  BY <1>4, <1>6, <1>8, FifoCount
<1>20. Len(deque_primary_fifo') = Len(deque_primary_fifo) - m2 + n2
  BY <1>4, <1>6, <1>8, FifoLen
<1>11. /\ deque_secondary_fifo' \in Seq(OutWords)
       /\ Count(deque_secondary_fifo', w)
             = Count(deque_secondary_fifo, w)
                  - (IF m3 = 1 /\ Head(deque_secondary_fifo) = w THEN 1 ELSE 0)
                  + (IF n3 = 1 /\ u = w THEN 1 ELSE 0)
  BY <1>4, <1>7, <1>8, FifoCount
<1>21. Len(deque_secondary_fifo') = Len(deque_secondary_fifo) - m3 + n3
  BY <1>4, <1>7, <1>8, FifoLen
<1>12. /\ deque_primary_fifo_wrreq => Len(deque_primary_fifo) < DEQUE_FIFO_DEPTH
       /\ deque_secondary_fifo_wrreq => Len(deque_secondary_fifo) < DEQUE_FIFO_DEPTH
  BY RoomForAnswer
<1>13. /\ (IF m1 = 1 /\ Head(enque_fifo) = w THEN 1 ELSE 0)
             = Holds(enque_fifo_rdreq /\ Head(enque_fifo) = w)
       /\ w \in Words => (IF n1 = 1 /\ in_word = w THEN 1 ELSE 0) = Holds(in_word = w /\ in_enque_ready)
  BY <1>2, WordFacts DEF Holds, in_enque_ready
<1>14. /\ (IF m2 = 1 /\ Head(deque_primary_fifo) = w THEN 1 ELSE 0)
             = Holds(primary_rdreq /\ Head(deque_primary_fifo) = w)
       /\ (IF n2 = 1 /\ u = w THEN 1 ELSE 0)
             = Holds(deque_primary_fifo_wrreq /\ Word(reg[4]) = w)
       /\ n2 = Holds(HeapOutputs(Primary))
  BY <1>2, <1>12 DEF Holds, deque_primary_fifo_wrreq, Primary
<1>15. /\ (IF m3 = 1 /\ Head(deque_secondary_fifo) = w THEN 1 ELSE 0)
             = Holds(secondary_rdreq /\ Head(deque_secondary_fifo) = w)
       /\ (IF n3 = 1 /\ u = w THEN 1 ELSE 0)
             = Holds(deque_secondary_fifo_wrreq /\ Word(reg[4]) = w)
       /\ n3 = Holds(HeapOutputs(Secondary))
  BY <1>2, <1>12 DEF Holds, deque_secondary_fifo_wrreq, Secondary
<1>16. /\ Len(deque_primary_fifo')
             = Len(deque_primary_fifo) - Holds(primary_rdreq) + Holds(HeapOutputs(Primary))
       /\ Len(deque_secondary_fifo')
             = Len(deque_secondary_fifo) - Holds(secondary_rdreq) + Holds(HeapOutputs(Secondary))
  BY <1>2, <1>20, <1>21, <1>14, <1>15
<1> QED BY <1>9, <1>10, <1>11, <1>13, <1>14, <1>15, <1>16

LEMMA EdgeFifosType ==
    ASSUME WInv, NEW in_word, NEW req_en, NEW primary_rdreq, NEW secondary_rdreq,
           Edge(in_word, req_en, primary_rdreq, secondary_rdreq)
    PROVE  /\ enque_fifo' \in Seq(Words) /\ deque_primary_fifo' \in Seq(OutWords)
           /\ deque_secondary_fifo' \in Seq(OutWords)
           /\ Len(deque_primary_fifo')
                 = Len(deque_primary_fifo) - Holds(primary_rdreq) + Holds(HeapOutputs(Primary))
           /\ Len(deque_secondary_fifo')
                 = Len(deque_secondary_fifo) - Holds(secondary_rdreq)
                      + Holds(HeapOutputs(Secondary))
<1>1. PICK w : w = Idle
  OBVIOUS
<1>2. /\ enque_fifo' \in Seq(Words) /\ deque_primary_fifo' \in Seq(OutWords)
      /\ deque_secondary_fifo' \in Seq(OutWords)
      /\ Len(deque_primary_fifo')
            = Len(deque_primary_fifo) - Holds(primary_rdreq) + Holds(HeapOutputs(Primary))
      /\ Len(deque_secondary_fifo')
            = Len(deque_secondary_fifo) - Holds(secondary_rdreq) + Holds(HeapOutputs(Secondary))
      /\ Count(deque_primary_fifo', w)
            = Count(deque_primary_fifo, w) - Holds(primary_rdreq /\ Head(deque_primary_fifo) = w)
                 + Holds(deque_primary_fifo_wrreq /\ Word(reg[4]) = w)
  BY EdgeFifos
<1> QED BY <1>2

(* Deques never pile up: a new one is issued only when none of its kind is *)
(* in the pipeline or waits in the out-FIFO, and the FSM waits in INIT for *)
(* as long as one may be under way.                                        *)
LEMMA EdgeDeques ==
    ASSUME WInv, NEW in_word, NEW req_en, NEW primary_rdreq, NEW secondary_rdreq,
           Edge(in_word, req_en, primary_rdreq, secondary_rdreq),
           InPipelineOf(Primary)' \in Nat, InPipelineOf(Secondary)' \in Nat,
           InPipelineOf(Primary)' <= NumOps(Primary) + Holds(IssuePrimary),
           InPipelineOf(Secondary)' <= NumOps(Secondary) + Holds(IssueSecondary)
    PROVE  /\ OneDequeUnderWay'
           /\ deque_secondary_req_state' = "INIT" => ~ out_deque_secondary_ready'
           /\ deque_secondary_req_state' \in {"IDLE", "INIT", "WAIT"}
<1>1. PICK n, o, l, i, n2, l2, r :
          /\ n = NumOps(Secondary) /\ o = Holds(HeapOutputs(Secondary))
          /\ l = Len(deque_secondary_fifo) /\ i = Holds(IssueSecondary)
          /\ n2 = InPipelineOf(Secondary)' /\ l2 = Len(deque_secondary_fifo')
          /\ r = Holds(secondary_rdreq)
  OBVIOUS
<1>2. PICK m, p, k, j, m2, k2, q :
          /\ m = NumOps(Primary) /\ p = Holds(HeapOutputs(Primary))
          /\ k = Len(deque_primary_fifo) /\ j = Holds(IssuePrimary)
          /\ m2 = InPipelineOf(Primary)' /\ k2 = Len(deque_primary_fifo')
          /\ q = Holds(primary_rdreq)
  OBVIOUS
<1>3. /\ enque_fifo' \in Seq(Words) /\ deque_primary_fifo' \in Seq(OutWords)
      /\ deque_secondary_fifo' \in Seq(OutWords)
      /\ k2 = k - q + p /\ l2 = l - r + o
  BY <1>1, <1>2, EdgeFifosType
<1>4. /\ n \in Nat /\ m \in Nat /\ o \in {0, 1} /\ p \in {0, 1} /\ i \in {0, 1} /\ j \in {0, 1}
      /\ q \in {0, 1} /\ r \in {0, 1}
      /\ n2 \in Nat /\ m2 \in Nat /\ n2 <= n + i /\ m2 <= m + j
  BY <1>1, <1>2, NumOpsType, HoldsFacts
<1>5. l \in Nat /\ k \in Nat
  BY <1>1, <1>2 DEF WInv, FifosOK
<1>6. /\ m + p + k <= 1 /\ n + o + l <= 1
      /\ n + o > 0 => deque_secondary_req_state = "INIT"
      /\ deque_secondary_req_state = "WAIT" => out_deque_secondary_ready
  BY <1>1, <1>2, UnderWay DEF WInv, InPipelineOf
<1>7. /\ out_deque_secondary_ready <=> l # 0
      /\ out_deque_primary_ready <=> k # 0
      /\ out_deque_secondary_ready' <=> l2 # 0
  <2>1. deque_secondary_fifo \in Seq(OutWords) /\ deque_primary_fifo \in Seq(OutWords)
    BY DEF WInv, FifosOK
  <2>2. deque_secondary_fifo = <<>> <=> l = 0
    BY <1>1, <2>1
  <2>3. deque_primary_fifo = <<>> <=> k = 0
    BY <1>2, <2>1
  <2>4. deque_secondary_fifo' = <<>> <=> l2 = 0
    <3>1. PICK v : v = deque_secondary_fifo'
      OBVIOUS
    <3>2. v \in Seq(OutWords) /\ l2 = Len(v)
      BY <1>1, <1>3, <3>1
    <3>3. v = <<>> <=> l2 = 0
      BY <3>2
    <3> QED BY <3>1, <3>3
  <2> QED BY <2>2, <2>3, <2>4 DEF out_deque_primary_ready, out_deque_secondary_ready
<1>8. deque_secondary_req_state = "INIT" => l = 0
  BY <1>7 DEF WInv
<1>9. /\ i = 1 => n = 0 /\ o = 0 /\ deque_secondary_req_state = "INIT"
      /\ o = 1 <=> deque_secondary_fifo_wrreq
  BY <1>1 DEF IssueSecondary, Secondary, deque_secondary_fifo_wrreq, Holds
<1>10. j = 1 => m = 0 /\ p = 0 /\ k = 0
  <2>1. j = 1 => m = 0 /\ p = 0 /\ ~ out_deque_primary_ready
    BY <1>2 DEF IssuePrimary, Primary, deque_primary_fifo_wrreq, Holds
  <2> QED BY <1>7, <2>1
<1>11. r = 1 => l # 0
  <2>1. secondary_rdreq => out_deque_secondary_ready
    BY DEF Edge, Reads
  <2>2. r = 1 => secondary_rdreq
    BY <1>1 DEF Holds
  <2> QED BY <1>7, <2>1, <2>2
<1>12. m2 + k2 <= 1
  BY <1>3, <1>4, <1>5, <1>6, <1>10
<1>13. n2 + l2 <= 1
  BY <1>3, <1>4, <1>5, <1>6, <1>8, <1>9
<1>14. req_en \in {FALSE, in_deque_secondary_req_ready} /\ deque_secondary_req_state' = NextReqState(req_en)
       /\ deque_secondary_req_state \in {"IDLE", "INIT", "WAIT"}
  BY DEF Edge, WInv, FifosOK
<1>15. CASE deque_secondary_req_state = "IDLE"
  <2>1. deque_secondary_req_state' \in {"IDLE", "INIT"}
    BY <1>14, <1>15 DEF NextReqState
  <2>2. deque_secondary_req_state' = "INIT" => l = 0
    BY <1>7, <1>14, <1>15 DEF NextReqState, in_deque_secondary_req_ready
  <2>3. n = 0 /\ o = 0 /\ i = 0
    BY <1>4, <1>6, <1>9, <1>15
  <2>4. n2 = 0 /\ (deque_secondary_req_state' = "INIT" => l2 = 0)
    BY <1>3, <1>4, <1>5, <1>11, <2>2, <2>3
  <2>5. InPipelineOf(Primary)' + Len(deque_primary_fifo') <= 1
    BY <1>2, <1>12
  <2>6. InPipelineOf(Secondary)' + Len(deque_secondary_fifo') <= 1 /\ ~ (InPipelineOf(Secondary)' > 0)
    BY <1>1, <1>13, <2>4
  <2> QED BY <1>7, <2>1, <2>4, <2>5, <2>6, UnderWay
<1>16. CASE deque_secondary_req_state = "INIT"
  <2>1. deque_secondary_req_state' = IF deque_secondary_fifo_wrreq THEN "WAIT" ELSE "INIT"
    BY <1>14, <1>16 DEF NextReqState
  <2>2. l = 0 /\ r = 0 /\ l2 = o
    BY <1>3, <1>4, <1>8, <1>11, <1>16
  <2>3. o = 1 => n2 = 0
    BY <1>4, <1>5, <1>6, <1>9
  <2>4. InPipelineOf(Primary)' + Len(deque_primary_fifo') <= 1
    BY <1>2, <1>12
  <2>5. InPipelineOf(Secondary)' + Len(deque_secondary_fifo') <= 1
    BY <1>1, <1>13
  <2>6. deque_secondary_req_state' = "WAIT" => o = 1 /\ l2 = 1 /\ ~ (InPipelineOf(Secondary)' > 0)
    BY <1>1, <1>9, <2>1, <2>2, <2>3
  <2>7. deque_secondary_req_state' = "INIT" => l2 = 0
    BY <1>4, <1>9, <2>1, <2>2
  <2>8. deque_secondary_req_state' \in {"INIT", "WAIT"}
    BY <2>1
  <2> QED BY <1>7, <2>4, <2>5, <2>6, <2>7, <2>8, UnderWay
<1>17. CASE deque_secondary_req_state = "WAIT"
  <2>1. deque_secondary_req_state' = "IDLE"
    BY <1>6, <1>14, <1>17 DEF NextReqState
  <2>2. n = 0 /\ o = 0 /\ i = 0
    BY <1>4, <1>6, <1>9, <1>17
  <2>3. n2 = 0
    BY <1>4, <2>2
  <2>4. InPipelineOf(Primary)' + Len(deque_primary_fifo') <= 1
    BY <1>2, <1>12
  <2>5. InPipelineOf(Secondary)' + Len(deque_secondary_fifo') <= 1 /\ ~ (InPipelineOf(Secondary)' > 0)
    BY <1>1, <1>13, <2>3
  <2> QED BY <2>1, <2>4, <2>5, UnderWay
<1> QED BY <1>14, <1>15, <1>16, <1>17

-----------------------------------------------------------------------------
(* The heap at an edge.                                                    *)

LEMMA QuietPipeline ==
    /\ NoOps => /\ \A type : NumOps(type) = 0 /\ InPipelineOf(type) = 0
                /\ \A w : EnquesOf(w) = 0 /\ Answer(w) = 0
    /\ NoOps' => /\ \A type : InPipelineOf(type)' = 0
                 /\ \A w : EnquesOf(w)' = 0 /\ Answer(w)' = 0
<1>1. Cardinality({}) = 0
  BY FS_EmptySet
<1>2. ASSUME NoOps
      PROVE  /\ \A type : NumOps(type) = 0 /\ InPipelineOf(type) = 0
             /\ \A w : EnquesOf(w) = 0 /\ Answer(w) = 0
  <2>1. \A k \in 0 .. 4 : reg[k] = Idle
    BY <1>2 DEF NoOps, Busy
  <2>2. \A type : {k \in 0 .. 3 : reg[k] # Idle /\ reg[k].type = type} = {}
    BY <2>1
  <2>3. \A w : {k \in 0 .. 3 : reg[k] # Idle /\ IsEnque(reg[k]) /\ Word(reg[k]) = w} = {}
    BY <2>1
  <2>4. \A type : NumOps(type) = 0
    BY <1>1, <2>2 DEF NumOps
  <2>5. \A w : EnquesOf(w) = 0
    BY <1>1, <2>3 DEF EnquesOf
  <2>6. reg[4] = Idle
    BY <2>1
  <2> QED BY <2>4, <2>5, <2>6 DEF InPipelineOf, Answer, HeapOutputs, Holds
<1>3. ASSUME NoOps'
      PROVE  /\ \A type : InPipelineOf(type)' = 0
             /\ \A w : EnquesOf(w)' = 0 /\ Answer(w)' = 0
  <2>1. \A k \in 0 .. 4 : reg'[k] = Idle
    BY <1>3 DEF NoOps, Busy
  <2>2. \A type : {k \in 0 .. 3 : reg'[k] # Idle /\ reg'[k].type = type} = {}
    BY <2>1
  <2>3. \A w : {k \in 0 .. 3 : reg'[k] # Idle /\ reg'[k].type = "ENQUE"
                               /\ [value |-> reg'[k].value, priority |-> reg'[k].priority] = w} = {}
    BY <2>1
  <2>4. \A type : NumOps(type)' = 0
    BY <1>1, <2>2 DEF NumOps
  <2>5. \A w : EnquesOf(w)' = 0
    BY <1>1, <2>3 DEF EnquesOf, IsEnque, Word
  <2>6. reg'[4] = Idle
    BY <2>1
  <2> QED BY <2>4, <2>5, <2>6 DEF InPipelineOf, Answer, HeapOutputs, Holds
<1> QED BY <1>2, <1>3

\* The words of w that have been issued and have not left the output port.
Issues(w) == EnquesOf(w) + (IF heap_ready THEN InHeap(w) ELSE 0)

(* An edge with rst low neither loses a word nor makes one.                *)
LEMMA HeapEdge ==
    ASSUME WInv, Cycle(HeapInput) \/ InitCycle
    PROVE  /\ IInv' /\ EnquesSure'
           /\ InPipelineOf(Primary)' \in Nat /\ InPipelineOf(Secondary)' \in Nat
           /\ InPipelineOf(Primary)' <= NumOps(Primary) + Holds(IssuePrimary)
           /\ InPipelineOf(Secondary)' <= NumOps(Secondary) + Holds(IssueSecondary)
           /\ \A w \in Words :
                 /\ Issues(w) \in Nat /\ Issues(w)' \in Nat
                 /\ Issues(w)' + Answer(w)'
                       = Issues(w) + Holds(enque_fifo_rdreq /\ Head(enque_fifo) = w)
<1>0. IInv /\ FifosOK /\ EnquesSure
  BY DEF WInv
<1>1. PICK in : in = HeapInput
  OBVIOUS
<1>2. in \in Inputs \cup {Idle}
  BY <1>0, <1>1, Issued
<1>3. heap_ready <=> state = "READY"
  BY DEF heap_ready
<1>4. heap_ready' <=> state' = "READY"
  BY DEF heap_ready
<1>5. NumOps(Primary) \in Nat /\ NumOps(Secondary) \in Nat
  BY NumOpsType
<1>6. Holds(IssuePrimary) \in {0, 1} /\ Holds(IssueSecondary) \in {0, 1}
  BY HoldsFacts
<1>7. ASSUME NoOps, NoOps', ~ heap_ready, heap_ready' => \A w \in Words : InHeap(w)' = 0, IInv'
      PROVE  /\ IInv' /\ EnquesSure'
             /\ InPipelineOf(Primary)' \in Nat /\ InPipelineOf(Secondary)' \in Nat
             /\ InPipelineOf(Primary)' <= NumOps(Primary) + Holds(IssuePrimary)
             /\ InPipelineOf(Secondary)' <= NumOps(Secondary) + Holds(IssueSecondary)
             /\ \A w \in Words :
                   /\ Issues(w) \in Nat /\ Issues(w)' \in Nat
                   /\ Issues(w)' + Answer(w)'
                         = Issues(w) + Holds(enque_fifo_rdreq /\ Head(enque_fifo) = w)
  <2>1. EnquesSure'
    BY <1>7 DEF EnquesSure, NoOps, Enque
  <2>2. InPipelineOf(Primary)' = 0 /\ InPipelineOf(Secondary)' = 0
    BY <1>7, QuietPipeline
  <2>3. \A w \in Words : EnquesOf(w) = 0 /\ EnquesOf(w)' = 0 /\ Answer(w)' = 0
    BY <1>7, QuietPipeline
  <2>4. \A w \in Words : Issues(w) = 0 /\ Issues(w)' = 0
    BY <1>7, <2>3 DEF Issues
  <2>5. ~ enque_fifo_rdreq
    BY <1>7 DEF enque_fifo_rdreq
  <2>6. \A w : Holds(enque_fifo_rdreq /\ Head(enque_fifo) = w) = 0
    BY <2>5 DEF Holds
  <2> QED BY <1>5, <1>6, <1>7, <2>1, <2>2, <2>3, <2>4, <2>6
<1>8. CASE Cycle(HeapInput) /\ state = "IDLE"
  <2>1. Advance /\ Accept(in)
    BY <1>1, <1>8 DEF Cycle
  <2>2. IInv' /\ state' = "IDLE"
    BY <1>0, <1>8, <2>1, IdleCycle
  <2>3. NoOps
    BY <1>0, <1>8 DEF IInv
  <2>4. NoOps'
    BY <2>2 DEF IInv
  <2> QED BY <1>3, <1>4, <1>7, <1>8, <2>2, <2>3, <2>4
<1>9. CASE InitCycle
  <2>1. /\ IInv' /\ state = "INIT"
        /\ state' = "READY" => \A p \in Priorities : Bucket(p)' = <<>>
    BY <1>0, <1>9, InitStep
  <2>2. NoOps
    BY <1>0, <2>1 DEF IInv, Initialising
  <2>3. reg' = reg
    BY <1>9 DEF InitCycle
  <2>4. NoOps'
    BY <2>2, <2>3 DEF NoOps, Busy
  <2>5. ASSUME state' = "READY", NEW w \in Words
        PROVE  InHeap(w)' = 0
    <3>1. Bucket(w.priority)' = <<>>
      BY <2>1, <2>5, WordFacts
    <3>2. {i \in DOMAIN (Stack(w.priority)') : Stack(w.priority)'[i] = w.value} = {}
      BY <3>1 DEF Stack
    <3>3. InHeap(w)' = Cardinality({i \in DOMAIN (Stack(w.priority)') : Stack(w.priority)'[i] = w.value})
      BY DEF InHeap, Count
    <3>4. Cardinality({}) = 0
      BY FS_EmptySet
    <3> QED BY <3>2, <3>3, <3>4
  <2> QED BY <1>3, <1>4, <1>7, <2>1, <2>2, <2>4, <2>5
<1>10. CASE Cycle(HeapInput) /\ state = "READY"
  <2>1. Cycle(in) /\ Advance /\ Accept(in) /\ state = "READY"
    BY <1>1, <1>10 DEF Cycle
  <2>2. IInv'
    BY <1>0, <1>2, <2>1, ReadyCycle
  <2>3. heap_ready /\ heap_ready'
    BY <1>3, <1>4, <2>1 DEF Advance
  <2>4. EnquesSure'
    <3> SUFFICES ASSUME NEW k \in 0 .. 3, reg'[k] # Idle, reg'[k].type = "ENQUE"
                 PROVE  aux'[k].sure
      BY DEF EnquesSure, Enque, Busy, IsEnque
    <3>1. aux' = NextAux(in)
      BY <2>1 DEF Accept
    <3>2. CASE k = 0
      <4>1. in # Idle /\ in.type = "ENQUE"
        BY <1>0, <1>2, <2>1, <3>2, OpsMove
      <4>2. enque_fifo_rdreq
        BY <1>0, <1>1, <4>1, Issued
      <4>3. size + num_ops_enque < MaxEntries
        BY <1>0, <4>2, IssuedEnque
      <4> QED BY <1>0, <3>1, <3>2, <4>1, <4>3, NextAuxFacts DEF IsEnque
    <3>3. CASE k \in 1 .. 3
      <4>1. reg[k - 1] # Idle /\ reg[k - 1].type = "ENQUE" /\ k - 1 \in 0 .. 3
        BY <1>0, <1>2, <2>1, <3>3, OpsMove
      <4>2. aux[k - 1].sure
        BY <1>0, <4>1 DEF EnquesSure, Enque, Busy, IsEnque
      <4> QED BY <1>0, <3>1, <3>3, <4>2, NextAuxFacts
    <3> QED BY <3>2, <3>3
  <2>5. ASSUME NEW type \in {Primary, Secondary}
        PROVE  /\ InPipelineOf(type)' \in Nat
               /\ InPipelineOf(type)' <= NumOps(type) + Holds(in # Idle /\ in.type = type)
    <3>1. /\ NumOps(type)' \in Nat
          /\ InPipelineOf(type)' <= NumOps(type) + Holds(in # Idle /\ in.type = type)
      BY <1>0, <1>2, <2>1, CycleDeques
    <3>2. InPipelineOf(type)' \in Nat
      BY <3>1 DEF InPipelineOf, Holds
    <3> QED BY <3>1, <3>2
  <2>6. Holds(in # Idle /\ in.type = Primary) <= Holds(IssuePrimary)
    BY <1>0, <1>1, Issued DEF Holds, Primary
  <2>7. Holds(in # Idle /\ in.type = Secondary) <= Holds(IssueSecondary)
    BY <1>0, <1>1, Issued DEF Holds, Secondary
  <2>8. /\ InPipelineOf(Primary)' <= NumOps(Primary) + Holds(IssuePrimary)
        /\ InPipelineOf(Secondary)' <= NumOps(Secondary) + Holds(IssueSecondary)
        /\ InPipelineOf(Primary)' \in Nat /\ InPipelineOf(Secondary)' \in Nat
    <3>1. PICK a, b, c, d, e, f, g, h :
              /\ a = InPipelineOf(Primary)' /\ b = NumOps(Primary) /\ c = Holds(IssuePrimary)
              /\ d = Holds(in # Idle /\ in.type = Primary)
              /\ e = InPipelineOf(Secondary)' /\ f = NumOps(Secondary) /\ g = Holds(IssueSecondary)
              /\ h = Holds(in # Idle /\ in.type = Secondary)
      OBVIOUS
    <3>2. a \in Nat /\ e \in Nat /\ a <= b + d /\ e <= f + h
      BY <2>5, <3>1
    <3>3. d <= c /\ h <= g /\ d \in {0, 1} /\ h \in {0, 1}
      BY <2>6, <2>7, <3>1, HoldsFacts
    <3>4. b \in Nat /\ f \in Nat /\ c \in {0, 1} /\ g \in {0, 1}
      BY <1>5, <1>6, <3>1
    <3>5. a <= b + c /\ e <= f + g
      BY <3>2, <3>3, <3>4
    <3> QED BY <3>1, <3>2, <3>5
  <2>9. ASSUME NEW w \in Words
        PROVE  /\ Issues(w) \in Nat /\ Issues(w)' \in Nat
               /\ Issues(w)' + Answer(w)'
                     = Issues(w) + Holds(enque_fifo_rdreq /\ Head(enque_fifo) = w)
    <3>1. /\ EnquesOf(w) \in Nat /\ EnquesOf(w)' \in Nat
          /\ EnquesOf(w)' + Holds(CommitsEnqueOf(w))
                = EnquesOf(w) + Holds((in # Idle /\ in.type = "ENQUE") /\ Word(in) = w)
      BY <1>0, <1>2, <2>1, CycleEnques
    <3>2. /\ InHeap(w) \in Nat /\ InHeap(w)' \in Nat
          /\ InHeap(w)' + Answer(w)' = InHeap(w) + Holds(CommitsEnqueOf(w))
      <4>1. w \in OutWords
        BY WordFacts
      <4> QED BY <1>0, <2>1, <4>1, CycleHeap
    <3>3. Holds((in # Idle /\ in.type = "ENQUE") /\ Word(in) = w)
             = Holds(enque_fifo_rdreq /\ Head(enque_fifo) = w)
      <4>1. in # Idle /\ in.type = "ENQUE" <=> enque_fifo_rdreq
        BY <1>0, <1>1, Issued, IssuedEnque
      <4>2. enque_fifo_rdreq => Word(in) = Head(enque_fifo)
        BY <1>0, <1>1, IssuedEnque
      <4> QED BY <4>1, <4>2 DEF Holds
    <3>4. Issues(w) = EnquesOf(w) + InHeap(w) /\ Issues(w)' = EnquesOf(w)' + InHeap(w)'
      BY <2>3 DEF Issues
    <3>5. Answer(w)' \in {0, 1}
      BY DEF Answer, Holds
    <3>6. Holds(CommitsEnqueOf(w)) \in {0, 1}
      BY HoldsFacts
    <3>7. PICK a, b, c, d, e, f, g :
              /\ a = EnquesOf(w) /\ b = EnquesOf(w)' /\ c = InHeap(w) /\ d = InHeap(w)'
              /\ e = Answer(w)' /\ f = Holds(CommitsEnqueOf(w))
              /\ g = Holds(enque_fifo_rdreq /\ Head(enque_fifo) = w)
      OBVIOUS
    <3>8. /\ a \in Nat /\ b \in Nat /\ c \in Nat /\ d \in Nat /\ e \in {0, 1} /\ f \in {0, 1}
          /\ b + f = a + g /\ d + e = c + f
      BY <3>1, <3>2, <3>3, <3>5, <3>6, <3>7
    <3>9. g \in {0, 1}
      BY <3>7, HoldsFacts
    <3>10. (b + d) + e = (a + c) + g /\ a + c \in Nat /\ b + d \in Nat
      BY <3>8, <3>9
    <3> QED BY <3>4, <3>7, <3>10
  <2> QED BY <2>2, <2>4, <2>8, <2>9
<1>11. Cycle(HeapInput) => state \in {"IDLE", "READY"}
  BY DEF Cycle, Advance
<1> QED BY <1>8, <1>9, <1>10, <1>11

(* The parts of InPipeline.                                                *)
LEMMA IssueCounts ==
    ASSUME IInv, NEW w \in Words
    PROVE  /\ EnquesOf(w) \in Nat /\ Issues(w) \in Nat
           /\ heap_ready => InHeap(w) \in Nat
<1>1. EnquesOf(w) \in Nat
  <2> DEFINE S == {k \in 0 .. 3 : reg[k] # Idle /\ IsEnque(reg[k]) /\ Word(reg[k]) = w}
  <2>1. PICK a \in Int, b \in Int : a = 0 /\ b = 3
    OBVIOUS
  <2>2. IsFiniteSet(a .. b)
    BY FS_Interval
  <2>3. S \in SUBSET (a .. b)
    BY <2>1
  <2> HIDE DEF S
  <2>4. Cardinality(S) \in Nat
    BY <2>2, <2>3, FS_Subset, FS_CardinalityType
  <2> QED BY <2>4 DEF EnquesOf, S
<1>2. heap_ready => InHeap(w) \in Nat
  <2> SUFFICES ASSUME heap_ready PROVE InHeap(w) \in Nat
    OBVIOUS
  <2>1. Stack(w.priority) \in Seq(Values)
    BY WordFacts, ReadyStacks DEF heap_ready
  <2> QED BY <2>1, CountFacts DEF InHeap
<1> QED BY <1>1, <1>2 DEF Issues

LEMMA InPipelineParts ==
    IInv => \A w \in Words :
        /\ InPipeline(w) + (IF heap_ready THEN InHeap(w) ELSE 0) = Issues(w) + Answer(w)
        /\ InPipeline(w) \in Int /\ (IF heap_ready THEN InHeap(w) ELSE 0) \in Int
<1> SUFFICES ASSUME IInv, NEW w \in Words
             PROVE  /\ InPipeline(w) + (IF heap_ready THEN InHeap(w) ELSE 0) = Issues(w) + Answer(w)
                    /\ InPipeline(w) \in Int /\ (IF heap_ready THEN InHeap(w) ELSE 0) \in Int
  OBVIOUS
<1>1. EnquesOf(w) \in Nat /\ (heap_ready => InHeap(w) \in Nat)
  BY IssueCounts
<1>2. Answer(w) \in Int
  BY DEF Answer, Holds
<1>3. (IF heap_ready THEN InHeap(w) ELSE 0) \in Int
  BY <1>1
<1> QED BY <1>1, <1>2, <1>3 DEF InPipeline, Issues

LEMMA InPipelinePartsNext ==
    IInv' => \A w \in Words :
        /\ InPipeline(w)' + (IF heap_ready' THEN InHeap(w)' ELSE 0) = Issues(w)' + Answer(w)'
        /\ InPipeline(w)' \in Int /\ (IF heap_ready' THEN InHeap(w)' ELSE 0) \in Int
<1>1. (IInv => \A w \in Words :
          /\ InPipeline(w) + (IF heap_ready THEN InHeap(w) ELSE 0) = Issues(w) + Answer(w)
          /\ InPipeline(w) \in Int /\ (IF heap_ready THEN InHeap(w) ELSE 0) \in Int)'
  BY InPipelineParts, PTL
<1> QED BY <1>1

-----------------------------------------------------------------------------
(* The invariant is inductive.                                             *)

LEMMA WrapperInitStep == WrapperInit => WInv
<1> SUFFICES ASSUME WrapperInit PROVE WInv
  OBVIOUS
<1>1. IInv
  BY HeapInit DEF WrapperInit
<1>2. NoOps /\ ~ heap_ready
  BY DEF WrapperInit, Init, NoOps, Busy, heap_ready
<1>3. /\ enque_fifo = <<>> /\ deque_primary_fifo = <<>> /\ deque_secondary_fifo = <<>>
      /\ deque_secondary_req_state = "IDLE" /\ held = [w \in Words |-> 0]
  BY DEF WrapperInit
<1>4. FifosOK
  BY <1>3 DEF FifosOK
<1>5. EnquesSure
  BY <1>2 DEF EnquesSure, NoOps, Enque
<1>6. OneDequeUnderWay
  <2>1. InPipelineOf(Primary) = 0 /\ InPipelineOf(Secondary) = 0
    BY <1>2, QuietPipeline
  <2>2. Len(deque_primary_fifo) = 0 /\ Len(deque_secondary_fifo) = 0
    BY <1>3
  <2> QED BY <1>3, <2>1, <2>2, UnderWay
<1>7. NothingLost
  <2> SUFFICES ASSUME NEW w \in Words
               PROVE  held[w] = Count(enque_fifo, w) + Count(deque_primary_fifo, w)
                                  + Count(deque_secondary_fifo, w) + InPipeline(w)
                                  + (IF heap_ready THEN InHeap(w) ELSE 0)
    BY DEF NothingLost
  <2>1. EnquesOf(w) = 0 /\ Answer(w) = 0
    BY <1>2, QuietPipeline
  <2>2. InPipeline(w) = 0
    BY <2>1 DEF InPipeline
  <2>3. Count(enque_fifo, w) = 0 /\ Count(deque_primary_fifo, w) = 0 /\ Count(deque_secondary_fifo, w) = 0
    BY <1>3, CountEmpty
  <2> QED BY <1>2, <1>3, <2>2, <2>3
<1> QED BY <1>1, <1>3, <1>4, <1>5, <1>6, <1>7 DEF WInv

LEMMA GivenType ==
    ASSUME NEW w, NEW in_word, NEW primary_rdreq, NEW secondary_rdreq
    PROVE  Given(w, in_word, primary_rdreq, secondary_rdreq) \in Int
<1>1. \A c : Holds(c) \in Int
  BY DEF Holds
<1> QED BY <1>1 DEF Given

(* What an edge takes from and gives to the environment and the heap, it   *)
(* takes from and adds to the FIFOs.                                       *)
LEMMA EdgeCounts ==
    ASSUME WInv, NEW in_word, NEW req_en, NEW primary_rdreq, NEW secondary_rdreq,
           Edge(in_word, req_en, primary_rdreq, secondary_rdreq), NEW w \in Words,
           Issues(w) \in Nat
    PROVE  /\ Count(enque_fifo', w) \in Int /\ Count(deque_primary_fifo', w) \in Int
           /\ Count(deque_secondary_fifo', w) \in Int
           /\ held[w] \in Int
           /\ held[w] + Given(w, in_word, primary_rdreq, secondary_rdreq)
                 = Count(enque_fifo', w) + Count(deque_primary_fifo', w)
                      + Count(deque_secondary_fifo', w) + Issues(w)
                      + Holds(enque_fifo_rdreq /\ Head(enque_fifo) = w)
<1>1. /\ enque_fifo \in Seq(Words) /\ deque_primary_fifo \in Seq(OutWords)
      /\ deque_secondary_fifo \in Seq(OutWords) /\ held \in [Words -> Int] /\ IInv
  BY DEF WInv, FifosOK
<1>2. /\ enque_fifo' \in Seq(Words) /\ deque_primary_fifo' \in Seq(OutWords)
      /\ deque_secondary_fifo' \in Seq(OutWords)
  BY EdgeFifosType
<1>3. held[w] = Count(enque_fifo, w) + Count(deque_primary_fifo, w)
                  + Count(deque_secondary_fifo, w) + InPipeline(w)
                  + (IF heap_ready THEN InHeap(w) ELSE 0)
  BY DEF WInv, NothingLost
<1>4. PICK e, p, s, e2, p2, s2, i, a, r, f, g, h, x, y :
          /\ e = Count(enque_fifo, w) /\ p = Count(deque_primary_fifo, w)
          /\ s = Count(deque_secondary_fifo, w)
          /\ e2 = Count(enque_fifo', w) /\ p2 = Count(deque_primary_fifo', w)
          /\ s2 = Count(deque_secondary_fifo', w)
          /\ i = Issues(w) /\ a = Answer(w)
          /\ r = Holds(enque_fifo_rdreq /\ Head(enque_fifo) = w)
          /\ f = Holds(in_word = w /\ in_enque_ready)
          /\ g = Holds(primary_rdreq /\ Head(deque_primary_fifo) = w)
          /\ h = Holds(secondary_rdreq /\ Head(deque_secondary_fifo) = w)
          /\ x = Holds(deque_primary_fifo_wrreq /\ Word(reg[4]) = w)
          /\ y = Holds(deque_secondary_fifo_wrreq /\ Word(reg[4]) = w)
  OBVIOUS
<1>5. e \in Int /\ p \in Int /\ s \in Int /\ e2 \in Int /\ p2 \in Int /\ s2 \in Int
  BY <1>1, <1>2, <1>4, CountFacts
<1>6. r \in Int /\ f \in Int /\ g \in Int /\ h \in Int /\ x \in Int /\ y \in Int /\ i \in Int
  BY <1>4, HoldsFacts
<1>7. e2 = e - r + f /\ p2 = p - g + x /\ s2 = s - h + y
  BY <1>4, EdgeFifos
<1>8. a = x + y
  BY <1>1, <1>4, AnswerGoes
<1>9. Given(w, in_word, primary_rdreq, secondary_rdreq) = f - g - h
  BY <1>4 DEF Given
<1>10. held[w] = e + p + s + i + a
  <2>1. InPipeline(w) + (IF heap_ready THEN InHeap(w) ELSE 0) = Issues(w) + Answer(w)
        /\ InPipeline(w) \in Int /\ (IF heap_ready THEN InHeap(w) ELSE 0) \in Int
    BY <1>1, InPipelineParts
  <2>2. PICK b, c : b = InPipeline(w) /\ c = IF heap_ready THEN InHeap(w) ELSE 0
    OBVIOUS
  <2>3. b \in Int /\ c \in Int /\ b + c = i + a /\ held[w] = e + p + s + b + c
    BY <1>3, <1>4, <2>1, <2>2
  <2> QED BY <1>5, <1>6, <1>8, <2>3
<1>11. held[w] \in Int /\ held[w] + (f - g - h) = e2 + p2 + s2 + i + r
  BY <1>5, <1>6, <1>7, <1>8, <1>10
<1> QED BY <1>4, <1>5, <1>9, <1>11

LEMMA TickStep == WInv /\ Tick => WInv'
<1> SUFFICES ASSUME WInv, Tick PROVE WInv'
  OBVIOUS
<1>1. PICK in_word, req_en, primary_rdreq, secondary_rdreq :
          /\ Edge(in_word, req_en, primary_rdreq, secondary_rdreq)
          /\ held' = [w \in Words |->
                held[w] + Given(w, in_word, primary_rdreq, secondary_rdreq)]
  <2>1. PICK in_word \in Words \cup {Idle}, req_en \in {FALSE, in_deque_secondary_req_ready},
             primary_rdreq \in Reads(out_deque_primary_ready),
             secondary_rdreq \in Reads(out_deque_secondary_ready) :
           /\ Fifos(in_word, primary_rdreq, secondary_rdreq)
           /\ deque_secondary_req_state' = NextReqState(req_en)
           /\ held' = [w \in Words |->
                 held[w] + Given(w, in_word, primary_rdreq, secondary_rdreq)]
    BY DEF Tick
  <2>2. Edge(in_word, req_en, primary_rdreq, secondary_rdreq)
    BY <2>1 DEF Edge
  <2> QED BY <2>1, <2>2
<1>2. Cycle(HeapInput) \/ InitCycle
  BY DEF Tick
<1>3. /\ IInv' /\ EnquesSure'
      /\ InPipelineOf(Primary)' \in Nat /\ InPipelineOf(Secondary)' \in Nat
      /\ InPipelineOf(Primary)' <= NumOps(Primary) + Holds(IssuePrimary)
      /\ InPipelineOf(Secondary)' <= NumOps(Secondary) + Holds(IssueSecondary)
      /\ \A w \in Words :
            /\ Issues(w) \in Nat /\ Issues(w)' \in Nat
            /\ Issues(w)' + Answer(w)' = Issues(w) + Holds(enque_fifo_rdreq /\ Head(enque_fifo) = w)
  BY <1>2, HeapEdge
<1>4. /\ enque_fifo' \in Seq(Words) /\ deque_primary_fifo' \in Seq(OutWords)
      /\ deque_secondary_fifo' \in Seq(OutWords)
  BY <1>1, EdgeFifosType
<1>5. /\ OneDequeUnderWay'
      /\ deque_secondary_req_state' = "INIT" => ~ out_deque_secondary_ready'
      /\ deque_secondary_req_state' \in {"IDLE", "INIT", "WAIT"}
  BY <1>1, <1>3, EdgeDeques
<1>6. held' \in [Words -> Int]
  <2>1. \A w \in Words : held[w] \in Int
    BY DEF WInv, FifosOK
  <2> QED BY <1>1, <2>1, GivenType
<1>7. NothingLost'
  <2> SUFFICES ASSUME NEW w \in Words
               PROVE  held'[w] = Count(enque_fifo', w) + Count(deque_primary_fifo', w)
                                   + Count(deque_secondary_fifo', w) + InPipeline(w)'
                                   + (IF heap_ready' THEN InHeap(w)' ELSE 0)
    BY DEF NothingLost
  <2>1. PICK e, p, s, b, c, i, a, r :
            /\ e = Count(enque_fifo', w) /\ p = Count(deque_primary_fifo', w)
            /\ s = Count(deque_secondary_fifo', w)
            /\ b = InPipeline(w)' /\ c = (IF heap_ready' THEN InHeap(w)' ELSE 0)
            /\ i = Issues(w)' /\ a = Answer(w)'
            /\ r = Issues(w) + Holds(enque_fifo_rdreq /\ Head(enque_fifo) = w)
    OBVIOUS
  <2>2. Holds(enque_fifo_rdreq /\ Head(enque_fifo) = w) \in Int /\ Issues(w) \in Int
    BY <1>3, HoldsFacts
  <2>3. /\ e \in Int /\ p \in Int /\ s \in Int
        /\ held'[w] = e + p + s + r
    BY <1>1, <1>3, <2>1, <2>2, EdgeCounts
  <2>4. b \in Int /\ c \in Int /\ b + c = i + a
    BY <1>3, <2>1, InPipelinePartsNext
  <2>5. i + a = r
    BY <1>3, <2>1
  <2>6. held'[w] = e + p + s + b + c
    BY <2>3, <2>4, <2>5
  <2> QED BY <2>1, <2>6
<1>8. FifosOK'
  BY <1>4, <1>5, <1>6 DEF FifosOK
<1> QED BY <1>3, <1>5, <1>7, <1>8 DEF WInv

LEMMA ResetTickStep == WInv /\ ResetTick => WInv'
<1> SUFFICES ASSUME WInv, ResetTick PROVE WInv'
  OBVIOUS
<1>1. PICK in_word, req_en, primary_rdreq, secondary_rdreq :
          /\ Edge(in_word, req_en, primary_rdreq, secondary_rdreq)
          /\ held' = [w \in Words |->
                held[w] + Given(w, in_word, primary_rdreq, secondary_rdreq) - Discarded(w)]
  <2>1. PICK in_word \in Words \cup {Idle}, req_en \in {FALSE, in_deque_secondary_req_ready},
             primary_rdreq \in Reads(out_deque_primary_ready),
             secondary_rdreq \in Reads(out_deque_secondary_ready) :
           /\ Fifos(in_word, primary_rdreq, secondary_rdreq)
           /\ deque_secondary_req_state' = NextReqState(req_en)
           /\ held' = [w \in Words |->
                 held[w] + Given(w, in_word, primary_rdreq, secondary_rdreq) - Discarded(w)]
    BY DEF ResetTick
  <2>2. Edge(in_word, req_en, primary_rdreq, secondary_rdreq)
    BY <2>1 DEF Edge
  <2> QED BY <2>1, <2>2
<1>2. IInv /\ Reset
  BY DEF WInv, ResetTick
<1>3. IInv' /\ state' = "INIT"
  BY <1>2, ResetStep
<1>4. NoOps' /\ ~ heap_ready'
  BY <1>3 DEF IInv, Initialising, heap_ready
<1>5. EnquesSure'
  BY <1>4 DEF EnquesSure, NoOps, Enque
<1>6. /\ OneDequeUnderWay'
      /\ deque_secondary_req_state' = "INIT" => ~ out_deque_secondary_ready'
      /\ deque_secondary_req_state' \in {"IDLE", "INIT", "WAIT"}
  <2>1. InPipelineOf(Primary)' = 0 /\ InPipelineOf(Secondary)' = 0
    BY <1>4, QuietPipeline
  <2>2. NumOps(Primary) \in Nat /\ NumOps(Secondary) \in Nat
    BY NumOpsType
  <2>3. Holds(IssuePrimary) \in {0, 1} /\ Holds(IssueSecondary) \in {0, 1}
    BY HoldsFacts
  <2>4. /\ InPipelineOf(Primary)' \in Nat /\ InPipelineOf(Secondary)' \in Nat
        /\ InPipelineOf(Primary)' <= NumOps(Primary) + Holds(IssuePrimary)
        /\ InPipelineOf(Secondary)' <= NumOps(Secondary) + Holds(IssueSecondary)
    BY <2>1, <2>2, <2>3
  <2> QED BY <1>1, <2>4, EdgeDeques
<1>7. /\ enque_fifo' \in Seq(Words) /\ deque_primary_fifo' \in Seq(OutWords)
      /\ deque_secondary_fifo' \in Seq(OutWords)
  BY <1>1, EdgeFifosType
<1>8. ASSUME NEW w \in Words
      PROVE  Issues(w) \in Nat /\ Holds(enque_fifo_rdreq /\ Head(enque_fifo) = w) \in Int
             /\ Discarded(w) = Issues(w) + Holds(enque_fifo_rdreq /\ Head(enque_fifo) = w)
  <2>1. Issues(w) \in Nat
    BY <1>2, IssueCounts
  <2> QED BY <2>1, HoldsFacts DEF Discarded, Issues
<1>9. held' \in [Words -> Int]
  <2>1. \A w \in Words : held[w] \in Int
    BY DEF WInv, FifosOK
  <2>2. \A w \in Words : Discarded(w) \in Int
    BY <1>8
  <2> QED BY <1>1, <2>1, <2>2, GivenType
<1>10. NothingLost'
  <2> SUFFICES ASSUME NEW w \in Words
               PROVE  held'[w] = Count(enque_fifo', w) + Count(deque_primary_fifo', w)
                                   + Count(deque_secondary_fifo', w) + InPipeline(w)'
                                   + (IF heap_ready' THEN InHeap(w)' ELSE 0)
    BY DEF NothingLost
  <2>1. EnquesOf(w)' = 0 /\ Answer(w)' = 0
    BY <1>4, QuietPipeline
  <2>2. InPipeline(w)' = 0
    BY <2>1 DEF InPipeline
  <2>3. PICK e, p, s, n, g, i, r :
            /\ e = Count(enque_fifo', w) /\ p = Count(deque_primary_fifo', w)
            /\ s = Count(deque_secondary_fifo', w)
            /\ n = held[w] /\ g = Given(w, in_word, primary_rdreq, secondary_rdreq)
            /\ i = Issues(w) /\ r = Holds(enque_fifo_rdreq /\ Head(enque_fifo) = w)
    OBVIOUS
  <2>4. /\ e \in Int /\ p \in Int /\ s \in Int /\ n \in Int
        /\ n + g = e + p + s + i + r
    BY <1>1, <1>8, <2>3, EdgeCounts
  <2>5. held'[w] = n + g - (i + r)
    BY <1>1, <1>8, <2>3
  <2>6. g \in Int /\ i \in Int /\ r \in Int
    BY <1>8, <2>3, GivenType
  <2>7. held'[w] = e + p + s + 0 + 0
    BY <2>4, <2>5, <2>6
  <2> QED BY <1>4, <2>2, <2>3, <2>7
<1>11. FifosOK'
  BY <1>6, <1>7, <1>9 DEF FifosOK
<1> QED BY <1>3, <1>5, <1>6, <1>10, <1>11 DEF WInv

LEMMA WrapperStep == WInv /\ [WrapperNext]_<<vars, wrapperVars>> => WInv'
<1>1. WInv /\ UNCHANGED <<vars, wrapperVars>> => WInv'
  <2> SUFFICES ASSUME WInv, UNCHANGED <<vars, wrapperVars>> PROVE WInv'
    OBVIOUS
  <2>1. IInv'
    BY HeapStep DEF WInv
  <2>2. /\ reg' = reg /\ aux' = aux /\ he' = he /\ pb' = pb /\ state' = state /\ held' = held
        /\ enque_fifo' = enque_fifo /\ deque_primary_fifo' = deque_primary_fifo
        /\ deque_secondary_fifo' = deque_secondary_fifo
        /\ deque_secondary_req_state' = deque_secondary_req_state
    BY DEF vars, regs, wrapperVars, fifos
  <2>3. FifosOK' /\ EnquesSure'
    BY <2>2 DEF WInv, FifosOK, EnquesSure, Enque, Busy, IsEnque
  <2>4. OneDequeUnderWay'
    <3>1. NumOps(Primary)' = NumOps(Primary) /\ NumOps(Secondary)' = NumOps(Secondary)
      BY <2>2 DEF NumOps, Primary, Secondary, HEAP_OP_DEQUE_SECONDARY_TYPE
    <3>2. /\ InPipelineOf(Primary)' = InPipelineOf(Primary)
          /\ InPipelineOf(Secondary)' = InPipelineOf(Secondary)
      BY <2>2, <3>1 DEF InPipelineOf, HeapOutputs, Holds, Primary, Secondary,
                        HEAP_OP_DEQUE_SECONDARY_TYPE
    <3>3. out_deque_secondary_ready' <=> out_deque_secondary_ready
      BY <2>2 DEF out_deque_secondary_ready
    <3> QED BY <2>2, <3>2, <3>3, UnderWay DEF WInv
  <2>5. deque_secondary_req_state' = "INIT" => ~ out_deque_secondary_ready'
    BY <2>2 DEF WInv, out_deque_secondary_ready
  <2>6. NothingLost'
    <3> SUFFICES ASSUME NEW w \in Words
                 PROVE  held'[w] = Count(enque_fifo', w) + Count(deque_primary_fifo', w)
                                     + Count(deque_secondary_fifo', w) + InPipeline(w)'
                                     + (IF heap_ready' THEN InHeap(w)' ELSE 0)
      BY DEF NothingLost
    <3>1. held[w] = Count(enque_fifo, w) + Count(deque_primary_fifo, w)
                      + Count(deque_secondary_fifo, w) + InPipeline(w)
                      + (IF heap_ready THEN InHeap(w) ELSE 0)
      BY DEF WInv, NothingLost
    <3>2. InPipeline(w)' = InPipeline(w)
      BY <2>2 DEF InPipeline, EnquesOf, Answer, IsEnque, Word, Holds
    <3>3. Stack(w.priority)' = Stack(w.priority)
      BY <2>2, BucketNext DEF Stack, NextOf
    <3>4. InHeap(w)' = InHeap(w)
      BY <3>3 DEF InHeap, Count
    <3>5. heap_ready' <=> heap_ready
      BY <2>2 DEF heap_ready
    <3> QED BY <2>2, <3>1, <3>2, <3>4, <3>5
  <2> QED BY <2>1, <2>3, <2>4, <2>5, <2>6 DEF WInv
<1> QED BY <1>1, TickStep, ResetTickStep DEF WrapperNext

LEMMA WrapperInvariant == WrapperSpec => []WInv
<1> QED BY WrapperInitStep, WrapperStep, PTL DEF WrapperSpec

(* The wrapper gives the heap no input that Next does not allow.           *)
LEMMA WrapperDrivesHeap ==
    ASSUME WInv, [WrapperNext]_<<vars, wrapperVars>>
    PROVE  [Next]_vars
<1>1. CASE Tick
  <2>1. CASE Cycle(HeapInput)
    <3>1. PICK in : in = HeapInput
      OBVIOUS
    <3>2. in \in Inputs \cup {Idle}
      BY <3>1, Issued DEF WInv
    <3>3. Advance /\ Accept(in)
      BY <2>1, <3>1 DEF Cycle
    <3> QED BY <3>2, <3>3 DEF Next
  <2>2. CASE InitCycle
    BY <2>2 DEF Next
  <2> QED BY <1>1, <2>1, <2>2 DEF Tick
<1>2. CASE ResetTick
  BY <1>2 DEF ResetTick, Next
<1>3. CASE UNCHANGED <<vars, wrapperVars>>
  BY <1>3
<1> QED BY <1>1, <1>2, <1>3 DEF WrapperNext

-----------------------------------------------------------------------------
(* Theorems.                                                               *)

(* No word is lost or made up: what was accepted, and neither handed out   *)
(* nor discarded with the heap's contents by rst, is in a FIFO, in the     *)
(* pipeline or in the heap, though deques are dropped and issued again and *)
(* rst may come at any edge; an enque is not checked after it was issued.  *)
THEOREM NoWordIsLost == WrapperSpec => []NothingLost
<1>1. WInv => NothingLost
  BY DEF WInv
<1> QED BY <1>1, WrapperInvariant, PTL

(* At most one deque of each kind is under way, the answer that waits in   *)
(* the out-FIFO included, and a request is answered once, resets or not.   *)
THEOREM DequesOneByOne == WrapperSpec => []OneDequeUnderWay
<1>1. WInv => OneDequeUnderWay
  BY DEF WInv
<1> QED BY <1>1, WrapperInvariant, PTL

(* The heap driven by the wrapper implements an array of stacks.           *)
THEOREM WrappedHeapRefinesStacks == WrapperSpec => RefinesStackHeap
<1>1. WrapperInit => Stacks!SHInit
  BY DEF WrapperInit, Init, Stacks!SHInit, Stacks!Empty
<1>2. WInv /\ [WrapperNext]_<<vars, wrapperVars>> => [Stacks!SHNext]_(Stacks!shVars)
  BY WrapperDrivesHeap, StackSteps DEF WInv
<1> QED BY <1>1, <1>2, WrapperInvariant, PTL DEF WrapperSpec, RefinesStackHeap, Stacks!SHSpec

=============================================================================
