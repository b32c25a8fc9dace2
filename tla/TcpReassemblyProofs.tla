------------------------ MODULE TcpReassemblyProofs ------------------------
(***************************************************************************)
(* What TCP reassembly keeps, for every number of flows, width of sequence *)
(* numbers, window and size of packets: the out-of-order list stays sorted *)
(* and ahead of the stream, and it is the set of bytes ReassemblyBuffer    *)
(* promises.                                                               *)
(***************************************************************************)
EXTENDS TcpReassembly, NatRecursion, SequenceTheorems

-----------------------------------------------------------------------------
(* Sequence numbers and packets.                                           *)

LEMMA ModulusFacts ==
    /\ 2 ^ SeqBits \in Nat
    /\ kReassemblyWindowSizeInBytes \in Nat /\ kReassemblyWindowSizeInBytes > 0
    /\ MaxPayload \in Nat /\ MaxPayload > 0
    /\ kReassemblyWindowSizeInBytes + 2 * MaxPayload < 2 ^ SeqBits
<1>1. 2 ^ SeqBits \in Int
  BY SeqAssumption
<1> DEFINE M == 2 ^ SeqBits
<1>2. M \in Int
  BY <1>1
<1> HIDE DEF M
<1>3. kReassemblyWindowSizeInBytes + 2 * MaxPayload < M
  BY WindowAssumption DEF M
<1>4. M \in Nat
  BY <1>2, <1>3, WindowAssumption
<1> QED BY <1>3, <1>4, WindowAssumption DEF M

LEMMA SeqsFacts == \A n : n \in Seqs <=> n \in Nat /\ n < 2 ^ SeqBits
<1> DEFINE M == 2 ^ SeqBits
<1>1. M \in Nat
  BY ModulusFacts
<1>2. Seqs = 0 .. M - 1
  BY DEF Seqs
<1> HIDE DEF M
<1>3. \A n : n \in Seqs <=> n \in Nat /\ n < M
  BY <1>1, <1>2
<1> QED BY <1>3 DEF M

(* A sum either fits or wraps once.                                        *)
LEMMA WrapFacts ==
    ASSUME NEW a \in Seqs, NEW n \in Nat, n < 2 ^ SeqBits
    PROVE  /\ (a + n) % 2 ^ SeqBits \in Seqs
           /\ (a + n) % 2 ^ SeqBits =
                IF a + n < 2 ^ SeqBits THEN a + n ELSE a + n - 2 ^ SeqBits
<1> DEFINE M == 2 ^ SeqBits
<1>1. M \in Nat /\ a \in Nat /\ a < M /\ n < M
  BY ModulusFacts, SeqsFacts
<1> HIDE DEF M
<1>2. M > 0 /\ a + n \in Nat /\ a + n < 2 * M
  BY <1>1
<1>3. a + n < M => (a + n) % M = a + n
  BY <1>1, <1>2
<1>4. a + n >= M => (a + n) % M = a + n - M
  BY <1>1, <1>2
<1>5. (a + n) % M \in 0 .. M - 1
  BY <1>1, <1>2
<1>6. (a + n) % M = IF a + n < M THEN a + n ELSE a + n - M
  BY <1>1, <1>3, <1>4
<1>7. (a + n) % M \in Nat /\ (a + n) % M < M
  BY <1>1, <1>5
<1> QED BY <1>6, <1>7, SeqsFacts DEF M

(* The bytes of a packet are in order unless it wraps, and then it ends    *)
(* just above zero.                                                        *)
LEMMA PacketFacts ==
    ASSUME NEW p \in Packets
    PROVE  /\ p.flow \in Flows /\ p.psn \in Seqs /\ p.next_psn \in Seqs
           /\ p.kind \in {"INNOCENT", "ATTACK"} /\ p # <<>>
           /\ p.kind = "ATTACK" => ~ p.is_tcp
           /\ p.fin => p.psn = p.next_psn
           /\ \/ p.psn <= p.next_psn
              \/ p.next_psn < MaxPayload /\ p.psn + MaxPayload >= 2 ^ SeqBits
<1> DEFINE M == 2 ^ SeqBits
           Fins == {[Header(f, FALSE, 0, 0) EXCEPT !.fin = TRUE] : f \in Flows}
           Others == {[Header(f, FALSE, 0, 0) EXCEPT !.is_tcp = FALSE] : f \in Flows}
           Attacks == {[Header(f, FALSE, 0, 0) EXCEPT !.is_tcp = FALSE, !.kind = "ATTACK"] : f \in Flows}
<1>1. M \in Nat /\ MaxPayload \in Nat /\ MaxPayload < M /\ M > 0
  BY ModulusFacts
<1>2. 0 \in Seqs
  BY <1>1, SeqsFacts
<1>3. p \in DataPackets \/ p \in Fins \/ p \in Others \/ p \in Attacks
  BY DEF Packets
<1> HIDE DEF M
<1>4. CASE p \in DataPackets
  <2>1. PICK f \in Flows, syn \in BOOLEAN, psn \in Seqs, n \in 0 .. MaxPayload :
          p = Header(f, syn, psn, n)
    BY <1>4 DEF DataPackets
  <2> DEFINE e == NextSequenceNumber(psn, n)
  <2>2. n \in Nat /\ n < M /\ psn \in Nat /\ psn < M /\ n <= MaxPayload
    BY <1>1, SeqsFacts DEF M
  <2>3. e \in Seqs /\ e = IF psn + n < M THEN psn + n ELSE psn + n - M
    BY <2>2, WrapFacts DEF NextSequenceNumber, M
  <2>4. p = [kind |-> "INNOCENT", flow |-> f, is_tcp |-> TRUE, syn |-> syn, fin |-> FALSE,
             psn |-> psn, next_psn |-> e]
    BY <2>1 DEF Header
  <2> HIDE DEF e
  <2>5. psn <= e \/ (e < MaxPayload /\ psn + MaxPayload >= M)
    BY <1>1, <2>2, <2>3
  <2> QED BY <2>3, <2>4, <2>5 DEF M
<1>5. ASSUME NEW f \in Flows, NEW tcp \in BOOLEAN, NEW fin \in BOOLEAN, NEW kind \in {"INNOCENT", "ATTACK"},
             kind = "ATTACK" => ~ tcp,
             p = [kind |-> kind, flow |-> f, is_tcp |-> tcp, syn |-> FALSE, fin |-> fin,
                  psn |-> 0, next_psn |-> NextSequenceNumber(0, 0)]
      PROVE  /\ p.flow \in Flows /\ p.psn \in Seqs /\ p.next_psn \in Seqs
             /\ p.kind \in {"INNOCENT", "ATTACK"} /\ p # <<>>
             /\ p.kind = "ATTACK" => ~ p.is_tcp
             /\ p.psn = p.next_psn /\ p.psn <= p.next_psn
  <2>1. 0 + 0 < M
    BY <1>1
  <2>2. NextSequenceNumber(0, 0) = 0
    BY <1>1, <1>2, <2>1, WrapFacts DEF NextSequenceNumber, M
  <2> QED BY <1>2, <1>5, <2>2
<1>6. CASE p \in Fins
  <2>1. PICK f \in Flows : p = [Header(f, FALSE, 0, 0) EXCEPT !.fin = TRUE]
    BY <1>6
  <2>2. p = [kind |-> "INNOCENT", flow |-> f, is_tcp |-> TRUE, syn |-> FALSE, fin |-> TRUE,
             psn |-> 0, next_psn |-> NextSequenceNumber(0, 0)]
    BY <2>1 DEF Header
  <2> QED BY <1>5, <2>2
<1>7. CASE p \in Others
  <2>1. PICK f \in Flows : p = [Header(f, FALSE, 0, 0) EXCEPT !.is_tcp = FALSE]
    BY <1>7
  <2>2. p = [kind |-> "INNOCENT", flow |-> f, is_tcp |-> FALSE, syn |-> FALSE, fin |-> FALSE,
             psn |-> 0, next_psn |-> NextSequenceNumber(0, 0)]
    BY <2>1 DEF Header
  <2> QED BY <1>5, <2>2
<1>8. CASE p \in Attacks
  <2>1. PICK f \in Flows : p = [Header(f, FALSE, 0, 0) EXCEPT !.is_tcp = FALSE, !.kind = "ATTACK"]
    BY <1>8
  <2>2. p = [kind |-> "ATTACK", flow |-> f, is_tcp |-> FALSE, syn |-> FALSE, fin |-> FALSE,
             psn |-> 0, next_psn |-> NextSequenceNumber(0, 0)]
    BY <2>1 DEF Header
  <2> QED BY <1>5, <2>2
<1> HIDE DEF Fins, Others, Attacks
<1> QED BY <1>3, <1>4, <1>6, <1>7, <1>8 DEF M
-----------------------------------------------------------------------------
(* Sequences.                                                              *)

(* What is left after the first n elements.                                *)
LEMMA DropFacts ==
    ASSUME NEW S, NEW list \in Seq(S), NEW n \in 0 .. Len(list)
    PROVE  /\ SubSeq(list, n + 1, Len(list)) \in Seq(S)
           /\ Len(SubSeq(list, n + 1, Len(list))) = Len(list) - n
           /\ \A i \in 1 .. Len(list) - n : SubSeq(list, n + 1, Len(list))[i] = list[n + i]
<1> DEFINE m == n + 1
           l == Len(list)
           r == SubSeq(list, m, l)
<1>1. l \in Nat /\ n \in Nat /\ n <= l
  BY LenProperties
<1>2. m \in Int /\ l \in Int /\ (IF m <= l THEN l - m + 1 ELSE 0) = l - n /\ l - m + 1 = l - n
  BY <1>1
<1>3. \A i \in m .. l : list[i] \in S
  BY <1>1, ElementOfSeq
<1>4. \A i \in 1 .. l - n : m + i - 1 = n + i
  BY <1>1
<1> HIDE DEF m, l
<1>5. /\ r \in Seq(S) /\ Len(r) = (IF m <= l THEN l - m + 1 ELSE 0)
      /\ \A i \in 1 .. l - m + 1 : r[i] = list[m + i - 1]
  BY <1>2, <1>3, SubSeqProperties
<1> HIDE DEF r
<1>6. /\ r \in Seq(S) /\ Len(r) = l - n
      /\ \A i \in 1 .. l - n : r[i] = list[n + i]
  BY <1>2, <1>4, <1>5
<1> QED BY <1>6 DEF m, l, r

LEMMA TakeFacts ==
    ASSUME NEW S, NEW list \in Seq(S), NEW n \in 0 .. Len(list)
    PROVE  /\ SubSeq(list, 1, n) \in Seq(S)
           /\ Len(SubSeq(list, 1, n)) = n
           /\ \A i \in 1 .. n : SubSeq(list, 1, n)[i] = list[i]
<1>1. Len(list) \in Nat /\ n \in Nat /\ n <= Len(list)
  BY LenProperties
<1>2. 1 \in Int /\ n \in Int /\ (IF 1 <= n THEN n - 1 + 1 ELSE 0) = n /\ n - 1 + 1 = n
  BY <1>1
<1>3. \A i \in 1 .. n : list[i] \in S /\ 1 + i - 1 = i
  BY <1>1, ElementOfSeq
<1> DEFINE r == SubSeq(list, 1, n)
<1>4. /\ r \in Seq(S) /\ Len(r) = (IF 1 <= n THEN n - 1 + 1 ELSE 0)
      /\ \A i \in 1 .. n - 1 + 1 : r[i] = list[1 + i - 1]
  BY <1>2, <1>3, SubSeqProperties
<1> HIDE DEF r
<1>5. r \in Seq(S) /\ Len(r) = n /\ \A i \in 1 .. n : r[i] = list[i]
  BY <1>2, <1>3, <1>4
<1> QED BY <1>5 DEF r

(* A stretch of a list replaced by another.                                *)
Splice(list, kept, mid, pos) ==
    SubSeq(list, 1, kept) \o mid \o SubSeq(list, pos, Len(list))

\* What r is then, node by node.
IsSplice(r, list, kept, mid, pos) ==
    /\ r \in Seq(Nodes)
    /\ Len(r) = kept + Len(mid) + (Len(list) - (pos - 1))
    /\ \A i \in 1 .. kept : r[i] = list[i]
    /\ \A i \in 1 .. Len(mid) : r[kept + i] = mid[i]
    /\ \A i \in pos .. Len(list) : r[kept + Len(mid) + (i - (pos - 1))] = list[i]

LEMMA SpliceFacts ==
    ASSUME NEW list \in Seq(Nodes), NEW kept \in Nat, NEW pos \in Nat,
           kept < pos, pos <= Len(list) + 1, NEW mid \in Seq(Nodes)
    PROVE  IsSplice(Splice(list, kept, mid, pos), list, kept, mid, pos)
<1> DEFINE a == SubSeq(list, 1, kept)
           c == SubSeq(list, pos, Len(list))
           ab == a \o mid
           r == Splice(list, kept, mid, pos)
           l == Len(list)
           m == Len(mid)
<1>1. l \in Nat /\ m \in Nat
  BY LenProperties
<1>2. a \in Seq(Nodes) /\ Len(a) = kept /\ \A i \in 1 .. kept : a[i] = list[i]
  <2>1. kept \in 0 .. Len(list)
    BY <1>1
  <2> QED BY <2>1, TakeFacts
<1>3. /\ c \in Seq(Nodes) /\ Len(c) = l - (pos - 1)
      /\ \A i \in 1 .. l - (pos - 1) : c[i] = list[(pos - 1) + i]
  <2>1. pos - 1 \in 0 .. Len(list) /\ (pos - 1) + 1 = pos
    BY <1>1
  <2> QED BY <2>1, DropFacts
<1>0. m = Len(mid)
  OBVIOUS
<1> HIDE DEF a, c, l, m
<1>4. /\ ab \in Seq(Nodes) /\ Len(ab) = kept + m
      /\ \A i \in 1 .. kept + m : ab[i] = IF i <= kept THEN a[i] ELSE mid[i - kept]
  BY <1>0, <1>2, ConcatProperties
<1>10. r = ab \o c
  BY DEF Splice, ab, a, c, l, r
<1> HIDE DEF ab, r
<1>5. /\ r \in Seq(Nodes) /\ Len(r) = (kept + m) + (l - (pos - 1))
      /\ \A i \in 1 .. (kept + m) + (l - (pos - 1)) :
            r[i] = IF i <= kept + m THEN ab[i] ELSE c[i - (kept + m)]
  <2> DEFINE x == kept + m
             y == l - (pos - 1)
  <2>1. Len(ab) = x /\ Len(c) = y
    BY <1>3, <1>4
  <2> HIDE DEF x, y
  <2>2. /\ r \in Seq(Nodes) /\ Len(r) = x + y
        /\ \A i \in 1 .. x + y : r[i] = IF i <= x THEN ab[i] ELSE c[i - x]
    <3>1. /\ ab \o c \in Seq(Nodes) /\ Len(ab \o c) = x + y
          /\ \A i \in 1 .. x + y : (ab \o c)[i] = IF i <= x THEN ab[i] ELSE c[i - x]
      BY <1>3, <1>4, <2>1, ConcatProperties
    <3> QED BY <1>10, <3>1
  <2> QED BY <2>2 DEF x, y
<1>6. l - (pos - 1) \in Nat
  BY <1>3, LenProperties
<1>7. ASSUME NEW i \in 1 .. kept PROVE r[i] = list[i]
  <2>1. i \in 1 .. kept + m /\ i \in 1 .. (kept + m) + (l - (pos - 1)) /\ i <= kept + m /\ i <= kept
    BY <1>1, <1>6
  <2> QED BY <1>2, <1>4, <1>5, <2>1
<1>8. ASSUME NEW i \in 1 .. m PROVE r[kept + i] = mid[i]
  <2>1. /\ kept + i \in 1 .. kept + m /\ kept + i \in 1 .. (kept + m) + (l - (pos - 1))
        /\ kept + i <= kept + m /\ ~ (kept + i <= kept) /\ (kept + i) - kept = i
    BY <1>1, <1>6
  <2> QED BY <1>4, <1>5, <2>1
<1>9. ASSUME NEW i \in pos .. l PROVE r[kept + m + (i - (pos - 1))] = list[i]
  <2> DEFINE j == i - (pos - 1)
             x == kept + m + j
  <2>1. /\ j \in 1 .. l - (pos - 1) /\ (pos - 1) + j = i
        /\ x \in 1 .. (kept + m) + (l - (pos - 1)) /\ ~ (x <= kept + m) /\ x - (kept + m) = j
    BY <1>1, <1>6
  <2> HIDE DEF j, x
  <2>2. r[x] = list[i]
    BY <1>3, <1>5, <2>1
  <2> QED BY <2>2 DEF x, j
<1> QED BY <1>1, <1>5, <1>7, <1>8, <1>9 DEF IsSplice, l, m, r

-----------------------------------------------------------------------------
(* Sorted lists of nodes.                                                  *)

Sorted(list) ==
    \A i \in 1 .. Len(list) :
        /\ list[i].first < list[i].second
        /\ i > 1 => list[i].first >= list[i - 1].second

(* The first node does not continue the stream.                            *)
Ahead(list, next) == list # <<>> => list[1].first > next

LEMMA NodeFacts ==
    ASSUME NEW list \in Seq(Nodes)
    PROVE  /\ Len(list) \in Nat /\ DOMAIN list = 1 .. Len(list)
           /\ \A i \in 1 .. Len(list) :
                /\ list[i] \in Nodes
                /\ list[i].first \in Seqs /\ list[i].second \in Seqs
                /\ list[i].first \in Nat /\ list[i].second \in Nat
<1>1. Len(list) \in Nat /\ DOMAIN list = 1 .. Len(list)
  BY LenProperties
<1>2. ASSUME NEW i \in 1 .. Len(list)
      PROVE  list[i] \in Nodes /\ list[i].first \in Seqs /\ list[i].second \in Seqs
  <2>1. list[i] \in Nodes
    BY <1>1, ElementOfSeq
  <2> QED BY <2>1 DEF Nodes
<1> QED BY <1>1, <1>2, SeqsFacts

(* Any earlier node ends before any later one begins.                      *)
LEMMA SortedOrder ==
    ASSUME NEW list \in Seq(Nodes), Sorted(list)
    PROVE  \A i, j \in 1 .. Len(list) : i < j => list[i].second <= list[j].first
<1> DEFINE S == {n \in Nat : n \in 1 .. Len(list) =>
                    \A i \in 1 .. Len(list) : i < n => list[i].second <= list[n].first}
<1>1. 0 \in S
  OBVIOUS
<1>2. ASSUME NEW n \in Nat, n \in S PROVE n + 1 \in S
  <2> SUFFICES ASSUME n + 1 \in 1 .. Len(list), NEW i \in 1 .. Len(list), i < n + 1
               PROVE  list[i].second <= list[n + 1].first
    OBVIOUS
  <2>1. Len(list) \in Nat /\ n \in 1 .. Len(list) /\ n + 1 > 1 /\ (n + 1) - 1 = n
    BY NodeFacts
  <2>2. list[n + 1].first >= list[n].second
    BY <2>1 DEF Sorted
  <2>3. CASE i = n
    BY <2>1, <2>2, <2>3, NodeFacts
  <2>4. CASE i < n
    <3>1. list[i].second <= list[n].first /\ list[n].first < list[n].second
      BY <1>2, <2>1, <2>4 DEF Sorted
    <3> QED BY <2>1, <2>2, <3>1, NodeFacts
  <2> QED BY <2>1, <2>3, <2>4
<1>3. Nat \subseteq S
  <2> HIDE DEF S
  <2> QED BY <1>1, <1>2, SetInduction
<1> QED BY <1>3

LEMMA HeldFacts ==
    ASSUME NEW list \in Seq(Nodes)
    PROVE  \A b : b \in Held(list) <=>
                b \in Nat /\ \E i \in 1 .. Len(list) : list[i].first <= b /\ b < list[i].second
<1>1. ASSUME NEW i \in 1 .. Len(list), NEW b
      PROVE  b \in list[i].first .. list[i].second - 1
                <=> b \in Nat /\ list[i].first <= b /\ b < list[i].second
  <2>1. list[i].first \in Nat /\ list[i].second \in Nat
    BY NodeFacts
  <2> QED BY <2>1
<1>2. DOMAIN list = 1 .. Len(list)
  BY NodeFacts
<1>3. \A b : b \in Held(list) <=>
          \E i \in 1 .. Len(list) : b \in list[i].first .. list[i].second - 1
  BY <1>2 DEF Held
<1> QED BY <1>1, <1>3
-----------------------------------------------------------------------------
(* Where a packet goes.                                                    *)

(* A flow whose list is in order.                                          *)
FlowOK(s) ==
    /\ s \in [next_psn_ : Seqs, ooo_list_ : Seq(Nodes)]
    /\ Sorted(s.ooo_list_)
    /\ Ahead(s.ooo_list_, s.next_psn_)

(* A packet that brings bytes after the next one.                          *)
BringsData(s, p) ==
    /\ p.psn \in Seqs /\ p.next_psn \in Seqs
    /\ p.psn < p.next_psn
    /\ s.next_psn_ < p.next_psn

LEMMA PositionFacts ==
    ASSUME NEW list \in Seq(Nodes), NEW p, p.next_psn \in Seqs
    PROVE  /\ Position(list, p) \in Nat /\ 0 < Position(list, p) /\ Position(list, p) <= Len(list) + 1
           /\ Position(list, p) <= Len(list) => p.next_psn <= list[Position(list, p)].second
           /\ \A i \in 1 .. Len(list) : i < Position(list, p) => list[i].second < p.next_psn
<1> DEFINE C == {i \in 1 .. Len(list) : p.next_psn <= list[i].second} \cup {Len(list) + 1}
           pos == Position(list, p)
<1>1. Len(list) \in Nat /\ \A i \in 1 .. Len(list) : list[i].second \in Nat
  BY NodeFacts
<1>2. C \subseteq Nat /\ C # {}
  BY <1>1
<1>3. pos = Min(C)
  BY DEF Position
<1>4. pos \in C /\ \A x \in C : pos <= x
  <2> HIDE DEF C, pos
  <2> QED BY <1>2, <1>3, MinFacts
<1> HIDE DEF pos
<1>5. /\ pos \in Nat /\ 0 < pos /\ pos <= Len(list) + 1
      /\ pos <= Len(list) => p.next_psn <= list[pos].second
  BY <1>1, <1>4
<1>6. ASSUME NEW i \in 1 .. Len(list), i < pos PROVE list[i].second < p.next_psn
  <2>1. i \notin C
    BY <1>4, <1>5, <1>6
  <2>2. p.next_psn \in Nat
    BY SeqsFacts
  <2> QED BY <1>1, <2>1, <2>2
<1> QED BY <1>5, <1>6 DEF pos

LEMMA FirstFacts ==
    ASSUME NEW s, FlowOK(s), NEW p, BringsData(s, p)
    PROVE  /\ First(s, p) \in Seqs /\ First(s, p) \in Nat
           /\ First(s, p) >= s.next_psn_ /\ First(s, p) >= p.psn /\ First(s, p) < p.next_psn
           /\ First(s, p) = s.next_psn_ \/ First(s, p) = p.psn
<1>1. s.next_psn_ \in Nat /\ p.psn \in Nat /\ p.next_psn \in Nat
  BY SeqsFacts DEF FlowOK, BringsData
<1> QED BY <1>1 DEF First, Larger, FlowOK, BringsData

LEMMA KeptFacts ==
    ASSUME NEW s, FlowOK(s), NEW p, BringsData(s, p)
    PROVE  LET list == s.ooo_list_
               pos == Position(list, p)
           IN  /\ Kept(s, p) \in Nat /\ Kept(s, p) < pos
               /\ Kept(s, p) > 0 => list[Kept(s, p)].first < First(s, p)
               /\ \A i \in 1 .. Len(list) :
                    Kept(s, p) < i /\ i < pos => First(s, p) <= list[i].first
<1> DEFINE list == s.ooo_list_
           pos == Position(list, p)
           C == {k \in 1 .. pos - 1 : list[k].first < First(s, p)} \cup {0}
           kept == Kept(s, p)
<1>1. list \in Seq(Nodes)
  BY DEF FlowOK
<1>2. /\ Len(list) \in Nat /\ \A i \in 1 .. Len(list) : list[i].first \in Nat
      /\ First(s, p) \in Nat
  BY <1>1, NodeFacts, FirstFacts
<1>3. pos \in Nat /\ 0 < pos /\ pos <= Len(list) + 1
  BY <1>1, PositionFacts DEF BringsData
<1>4. kept = Max(C)
  BY DEF Kept
<1> HIDE DEF pos
<1>5. C \subseteq Nat /\ C # {} /\ IsFiniteSet(C)
  <2>1. pos - 1 \in Nat
    BY <1>3
  <2>2. IsFiniteSet(0 .. pos - 1)
    BY <2>1, FS_Interval
  <2>3. C \subseteq 0 .. pos - 1
    BY <2>1
  <2>4. C \subseteq Nat /\ C # {}
    BY <2>1
  <2> HIDE DEF C
  <2> QED BY <2>2, <2>3, <2>4, FS_Subset
<1>6. kept \in C /\ \A x \in C : x <= kept
  <2> HIDE DEF C, kept
  <2> QED BY <1>4, <1>5, MaxFacts
<1> HIDE DEF kept
<1>7. kept \in Nat /\ kept < pos /\ (kept > 0 => list[kept].first < First(s, p))
  BY <1>3, <1>6
<1>8. ASSUME NEW i \in 1 .. Len(list), kept < i, i < pos PROVE First(s, p) <= list[i].first
  <2>1. i \notin C /\ i \in 1 .. pos - 1
    BY <1>2, <1>3, <1>6, <1>7, <1>8
  <2> QED BY <1>2, <2>1
<1> QED BY <1>7, <1>8 DEF kept, pos

(* The new range lies between its neighbours and within the packet, and    *)
(* what the packet brings besides it the neighbours have.                  *)
LEMMA NewBytesFacts ==
    ASSUME NEW s, FlowOK(s), NEW p, BringsData(s, p)
    PROVE  LET list == s.ooo_list_
               pos == Position(list, p)
               kept == Kept(s, p)
               r == NewBytes(s, p)
           IN  /\ r \in Nodes /\ r.first \in Nat /\ r.second \in Nat
               /\ First(s, p) <= r.first /\ r.second <= p.next_psn
               /\ kept = 0 => r.first = First(s, p)
               /\ kept > 0 => list[kept].second <= r.first
               /\ pos <= Len(list) => r.second <= list[pos].first
               /\ \A b \in Nat : First(s, p) <= b /\ b < r.first =>
                    kept > 0 /\ list[kept].first <= b /\ b < list[kept].second
               /\ \A b \in Nat : r.second <= b /\ b < p.next_psn =>
                    pos <= Len(list) /\ list[pos].first <= b /\ b < list[pos].second
<1> DEFINE list == s.ooo_list_
           pos == Position(list, p)
           kept == Kept(s, p)
           r == NewBytes(s, p)
           f == First(s, p)
<1>1. /\ list \in Seq(Nodes) /\ Len(list) \in Nat
      /\ \A i \in 1 .. Len(list) :
            /\ list[i].first \in Seqs /\ list[i].second \in Seqs
            /\ list[i].first \in Nat /\ list[i].second \in Nat
  BY NodeFacts DEF FlowOK
<1>2. /\ pos \in Nat /\ 0 < pos /\ pos <= Len(list) + 1
      /\ pos <= Len(list) => p.next_psn <= list[pos].second
  BY <1>1, PositionFacts DEF BringsData
<1>3. kept \in Nat /\ kept < pos /\ (kept > 0 => list[kept].first < f)
  BY KeptFacts
<1>4. f \in Seqs /\ f \in Nat /\ p.next_psn \in Seqs /\ p.next_psn \in Nat
  BY FirstFacts, SeqsFacts DEF BringsData
<1>5. r = [first |-> IF kept = 0 THEN f ELSE Larger(f, list[kept].second),
           second |-> IF pos > Len(list) THEN p.next_psn ELSE Smaller(p.next_psn, list[pos].first)]
  BY DEF NewBytes
<1> HIDE DEF list, pos, kept, r, f
<1>6. CASE kept = 0
  <2>1. r.first = f
    BY <1>5, <1>6
  <2> QED
    <3>1. r.first \in Seqs /\ r.first \in Nat /\ f <= r.first
      BY <1>4, <2>1
    <3>2. \A b \in Nat : f <= b => ~ (b < r.first)
      BY <1>4, <2>1
    <3>3. CASE pos > Len(list)
      <4>1. r.second = p.next_psn /\ ~ (pos <= Len(list))
        BY <1>1, <1>2, <1>5, <3>3
      <4> QED BY <1>4, <1>5, <1>6, <2>1, <3>1, <3>2, <4>1 DEF list, pos, kept, r, f, Nodes
    <3>4. CASE pos <= Len(list)
      <4>1. r.second = Smaller(p.next_psn, list[pos].first) /\ pos \in 1 .. Len(list)
        BY <1>1, <1>2, <1>5, <3>4
      <4>2. /\ r.second \in Seqs /\ r.second \in Nat
            /\ r.second <= p.next_psn /\ r.second <= list[pos].first
            /\ r.second < p.next_psn => r.second = list[pos].first
        BY <1>1, <1>4, <4>1 DEF Smaller
      <4>3. \A b \in Nat : r.second <= b /\ b < p.next_psn =>
                list[pos].first <= b /\ b < list[pos].second
        BY <1>1, <1>2, <1>4, <3>4, <4>1, <4>2
      <4> QED BY <1>4, <1>5, <1>6, <2>1, <3>1, <3>2, <3>4, <4>2, <4>3 DEF list, pos, kept, r, f, Nodes
    <3> QED BY <1>1, <1>2, <3>3, <3>4
<1>7. CASE kept > 0
  <2>1. kept \in 1 .. Len(list) /\ ~ (kept = 0)
    BY <1>1, <1>2, <1>3, <1>7
  <2>2. r.first = Larger(f, list[kept].second)
    BY <1>5, <2>1
  <2>3. /\ r.first \in Seqs /\ r.first \in Nat /\ f <= r.first
        /\ list[kept].second <= r.first
        /\ f < r.first => r.first = list[kept].second
    BY <1>1, <1>4, <2>1, <2>2 DEF Larger
  <2>4. \A b \in Nat : f <= b /\ b < r.first => list[kept].first <= b /\ b < list[kept].second
    BY <1>1, <1>3, <1>4, <1>7, <2>1, <2>3
  <2>5. CASE pos > Len(list)
    <3>1. r.second = p.next_psn /\ ~ (pos <= Len(list))
      BY <1>1, <1>2, <1>5, <2>5
    <3> QED BY <1>4, <1>5, <1>7, <2>1, <2>3, <2>4, <3>1 DEF list, pos, kept, r, f, Nodes
  <2>6. CASE pos <= Len(list)
    <3>1. r.second = Smaller(p.next_psn, list[pos].first) /\ pos \in 1 .. Len(list)
      BY <1>1, <1>2, <1>5, <2>6
    <3>2. /\ r.second \in Seqs /\ r.second \in Nat
          /\ r.second <= p.next_psn /\ r.second <= list[pos].first
          /\ r.second < p.next_psn => r.second = list[pos].first
      BY <1>1, <1>4, <3>1 DEF Smaller
    <3>3. \A b \in Nat : r.second <= b /\ b < p.next_psn =>
              list[pos].first <= b /\ b < list[pos].second
      BY <1>1, <1>2, <1>4, <2>6, <3>1, <3>2
    <3> QED BY <1>4, <1>5, <1>7, <2>1, <2>3, <2>4, <2>6, <3>2, <3>3 DEF list, pos, kept, r, f, Nodes
  <2> QED BY <1>1, <1>2, <2>5, <2>6
<1> QED BY <1>3, <1>6, <1>7

(* The list with a packet inserted, node by node.                          *)
LEMMA InsertedNodes ==
    ASSUME NEW s, FlowOK(s), NEW p, BringsData(s, p)
    PROVE  LET list == s.ooo_list_
               pos == Position(list, p)
               kept == Kept(s, p)
               r == NewBytes(s, p)
               new == Inserted(s, p, r)
               m == IF IsEmpty(r) THEN 0 ELSE 1
           IN  /\ new \in Seq(Nodes) /\ Len(new) = kept + m + (Len(list) - (pos - 1))
               /\ \A i \in 1 .. kept : new[i] = list[i]
               /\ m = 1 => new[kept + 1] = r /\ r.first < r.second
               /\ m = 0 => r.second <= r.first
               /\ \A i \in pos .. Len(list) : new[kept + m + (i - (pos - 1))] = list[i]
<1> DEFINE list == s.ooo_list_
           pos == Position(list, p)
           kept == Kept(s, p)
           r == NewBytes(s, p)
           new == Inserted(s, p, r)
           m == IF IsEmpty(r) THEN 0 ELSE 1
           mid == IF IsEmpty(r) THEN <<>> ELSE <<r>>
<1>1. /\ list \in Seq(Nodes) /\ pos \in Nat /\ pos <= Len(list) + 1
      /\ kept \in Nat /\ kept < pos
  BY PositionFacts, KeptFacts DEF FlowOK, BringsData
<1>2. r \in Nodes /\ r.first \in Nat /\ r.second \in Nat
  BY NewBytesFacts
<1>3. new = Splice(list, kept, mid, pos)
  BY DEF Inserted, Splice
<1>4. (m = 1 => r.first < r.second) /\ (m = 0 => r.second <= r.first)
  BY <1>2 DEF IsEmpty
<1> HIDE DEF list, pos, kept, r, new
<1>5. /\ mid \in Seq(Nodes) /\ Len(mid) = m
      /\ m = 1 => 1 \in 1 .. Len(mid) /\ mid[1] = r
  BY <1>2
<1> HIDE DEF mid, m
<1>6. /\ new \in Seq(Nodes)
      /\ Len(new) = kept + m + (Len(list) - (pos - 1))
      /\ \A i \in 1 .. kept : new[i] = list[i]
      /\ \A i \in 1 .. Len(mid) : new[kept + i] = mid[i]
      /\ \A i \in pos .. Len(list) : new[kept + m + (i - (pos - 1))] = list[i]
  <2>1. IsSplice(new, list, kept, mid, pos)
    BY <1>1, <1>3, <1>5, SpliceFacts
  <2> QED BY <1>5, <2>1 DEF IsSplice
<1>7. m = 1 => new[kept + 1] = r
  BY <1>5, <1>6
<1> QED BY <1>4, <1>6, <1>7 DEF list, pos, kept, r, new, m

(* Inserting a packet keeps the list in order, and adds to the bytes held  *)
(* those of the packet from the next one on.                               *)
LEMMA InsertedFacts ==
    ASSUME NEW s, FlowOK(s), NEW p, BringsData(s, p)
    PROVE  LET new == Inserted(s, p, NewBytes(s, p))
           IN  /\ new \in Seq(Nodes)
               /\ Sorted(new)
               /\ new # <<>> => new[1].first >= s.next_psn_
               /\ IsEmpty(NewBytes(s, p)) => Ahead(new, s.next_psn_)
               /\ \A b \in Nat : b \in Held(new) <=>
                    b \in Held(s.ooo_list_) \/ (First(s, p) <= b /\ b < p.next_psn)
<1> DEFINE list == s.ooo_list_
           pos == Position(list, p)
           kept == Kept(s, p)
           r == NewBytes(s, p)
           new == Inserted(s, p, r)
           m == IF IsEmpty(r) THEN 0 ELSE 1
           l == Len(list)
           f == First(s, p)
           N == s.next_psn_
           E == p.next_psn
<1>0. m = 0 \/ m = 1
  OBVIOUS
<1>1. /\ list \in Seq(Nodes) /\ Sorted(list) /\ l \in Nat /\ N \in Nat /\ E \in Nat
      /\ \A i \in 1 .. l :
            list[i].first \in Nat /\ list[i].second \in Nat /\ list[i].first < list[i].second
      /\ \A i \in 1 .. l : i > 1 => list[i].first >= list[i - 1].second
      /\ l > 0 => list[1].first > N
  BY NodeFacts, SeqsFacts DEF FlowOK, BringsData, Sorted, Ahead
<1>2. \A i, j \in 1 .. l : i < j => list[i].second <= list[j].first
  BY <1>1, SortedOrder
<1>3. /\ pos \in Nat /\ 0 < pos /\ pos <= l + 1
      /\ \A i \in 1 .. l : i < pos => list[i].second < E
  BY <1>1, PositionFacts DEF BringsData
<1>4. /\ kept \in Nat /\ kept < pos
      /\ \A i \in 1 .. l : kept < i /\ i < pos => f <= list[i].first
  BY KeptFacts
<1>5. f \in Nat /\ f >= N /\ f < E
  BY FirstFacts
<1>6. /\ r.first \in Nat /\ r.second \in Nat
      /\ f <= r.first /\ r.second <= E
      /\ kept = 0 => r.first = f
      /\ kept > 0 => list[kept].second <= r.first
      /\ pos <= l => r.second <= list[pos].first
      /\ \A b \in Nat : f <= b /\ b < r.first =>
            kept > 0 /\ list[kept].first <= b /\ b < list[kept].second
      /\ \A b \in Nat : r.second <= b /\ b < E =>
            pos <= l /\ list[pos].first <= b /\ b < list[pos].second
  BY NewBytesFacts
<1>7. /\ new \in Seq(Nodes) /\ Len(new) = kept + m + (l - (pos - 1))
      /\ \A i \in 1 .. kept : new[i] = list[i]
      /\ m = 1 => new[kept + 1] = r /\ r.first < r.second
      /\ m = 0 => r.second <= r.first
      /\ \A i \in pos .. l : new[kept + m + (i - (pos - 1))] = list[i]
  BY InsertedNodes
<1>8. (m = 0 <=> IsEmpty(r)) /\ Len(new) \in Nat /\ (new # <<>> => Len(new) > 0)
  BY <1>7, EmptySeq, LenProperties
<1>9. \A b : b \in Held(new) <=>
          b \in Nat /\ \E i \in 1 .. Len(new) : new[i].first <= b /\ b < new[i].second
  BY <1>7, HeldFacts
<1>10. \A b : b \in Held(list) <=>
          b \in Nat /\ \E i \in 1 .. l : list[i].first <= b /\ b < list[i].second
  BY <1>1, HeldFacts
<1> HIDE DEF list, pos, kept, r, new, m, l, f, N, E
<1>22. /\ l \in Nat /\ m \in Nat /\ pos \in Nat /\ kept \in Nat
       /\ 0 < pos /\ pos <= l + 1 /\ kept < pos
       /\ Len(new) = kept + m + (l - (pos - 1))
  BY <1>0, <1>1, <1>3, <1>4, <1>7
<1>11. ASSUME NEW i \in 1 .. Len(new)
       PROVE  \/ i \in 1 .. kept /\ i \in 1 .. l /\ new[i] = list[i]
              \/ i = kept + 1 /\ m = 1 /\ new[i] = r /\ r.first < r.second
              \/ \E j \in pos .. l : i = kept + m + (j - (pos - 1)) /\ new[i] = list[j]
  <2>1. CASE i <= kept
    <3>1. i \in 1 .. kept /\ i \in 1 .. l
      BY <1>22, <2>1
    <3> QED BY <1>7, <3>1
  <2>2. CASE i = kept + 1 /\ m = 1
    BY <1>7, <2>2
  <2>3. CASE i > kept + m
    <3> DEFINE j == i - (kept + m) + (pos - 1)
    <3>1. j \in pos .. l /\ i = kept + m + (j - (pos - 1))
      BY <1>22, <2>3
    <3> HIDE DEF j
    <3> QED BY <1>7, <3>1
  <2> QED BY <1>0, <1>4, <2>1, <2>2, <2>3
<1>12. ASSUME NEW i \in 1 .. Len(new)
       PROVE  /\ new[i].first < new[i].second
              /\ i > 1 => new[i].first >= new[i - 1].second
  <2>1. CASE i \in 1 .. kept /\ i \in 1 .. l /\ new[i] = list[i]
    <3>1. i > 1 => new[i - 1] = list[i - 1]
      BY <1>4, <1>7, <2>1
    <3> QED BY <1>1, <2>1, <3>1
  <2>2. CASE i = kept + 1 /\ m = 1 /\ new[i] = r /\ r.first < r.second
    <3>1. i > 1 => i - 1 = kept /\ kept > 0 /\ kept \in 1 .. kept
      BY <1>4, <2>2
    <3> QED BY <1>6, <1>7, <2>2, <3>1
  <2>3. ASSUME NEW j \in pos .. l, i = kept + m + (j - (pos - 1)), new[i] = list[j]
        PROVE  new[i].first < new[i].second /\ (i > 1 => new[i].first >= new[i - 1].second)
    <3>1. j \in 1 .. l /\ j \in Nat
      BY <1>1, <1>3
    <3>2. CASE j > pos
      <4>1. j - 1 \in pos .. l /\ i - 1 = kept + m + ((j - 1) - (pos - 1)) /\ j > 1
        BY <1>22, <2>3, <3>1, <3>2
      <4>2. new[i - 1] = list[j - 1]
        BY <1>7, <4>1
      <4> QED BY <1>1, <2>3, <3>1, <4>1, <4>2
    <3>3. CASE j = pos /\ m = 1
      <4>1. i - 1 = kept + 1 /\ pos <= l
        BY <1>1, <1>3, <1>4, <2>3, <3>3
      <4>2. new[i - 1].second <= list[j].first
        BY <1>6, <1>7, <3>3, <4>1
      <4> QED BY <1>1, <1>6, <1>7, <2>3, <3>1, <3>3, <4>1, <4>2
    <3>4. CASE j = pos /\ m = 0
      <4>1. i - 1 = kept
        BY <1>1, <1>3, <1>4, <2>3, <3>4
      <4>2. i > 1 => kept \in 1 .. kept /\ kept \in 1 .. l /\ kept < j
        BY <1>1, <1>3, <1>4, <3>1, <3>4, <4>1
      <4>3. i > 1 => new[i - 1].second <= list[j].first
        BY <1>2, <1>7, <3>1, <4>1, <4>2
      <4> QED BY <1>1, <1>7, <2>3, <3>1, <4>1, <4>2, <4>3
    <3> QED BY <1>0, <1>1, <1>3, <3>2, <3>3, <3>4
  <2> QED BY <1>11, <2>1, <2>2, <2>3
<1>13. ASSUME Len(new) > 0
       PROVE  new[1].first >= N /\ (m = 0 => new[1].first > N)
  <2>1. 1 \in 1 .. Len(new)
    BY <1>8, <1>13
  <2>2. CASE 1 \in 1 .. kept /\ 1 \in 1 .. l /\ new[1] = list[1]
    BY <1>1, <2>2
  <2>3. CASE 1 = kept + 1 /\ m = 1 /\ new[1] = r
    BY <1>4, <1>5, <1>6, <2>3
  <2>4. ASSUME NEW j \in pos .. l, new[1] = list[j]
        PROVE  new[1].first > N
    <3>1. j \in 1 .. l /\ 1 \in 1 .. l /\ (j = 1 \/ 1 < j)
      BY <1>1, <1>3
    <3>2. list[1].first <= list[j].first
      BY <1>1, <1>2, <3>1
    <3> QED BY <1>1, <2>4, <3>1, <3>2
  <2>5. new[1].first > N => new[1].first >= N
    <3>1. new[1].first \in Nat
      BY <1>7, <2>1, NodeFacts
    <3> QED BY <1>1, <3>1
  <2> QED BY <1>11, <2>1, <2>2, <2>3, <2>4, <2>5
<1>14. ASSUME NEW b \in Nat, b \in Held(new)
       PROVE  b \in Held(list) \/ (f <= b /\ b < E)
  <2>1. PICK i \in 1 .. Len(new) : new[i].first <= b /\ b < new[i].second
    BY <1>9, <1>14
  <2>2. CASE new[i] = r
    BY <1>1, <1>5, <1>6, <2>1, <2>2
  <2>3. ASSUME NEW j \in 1 .. l, new[i] = list[j] PROVE b \in Held(list)
    BY <1>10, <2>1, <2>3
  <2>4. \A j \in pos .. l : j \in 1 .. l
    BY <1>1, <1>3
  <2> QED BY <1>11, <2>2, <2>3, <2>4
<1>15. ASSUME NEW j \in 1 .. l, j <= kept \/ j >= pos, NEW b \in Nat,
              list[j].first <= b, b < list[j].second
       PROVE  b \in Held(new)
  <2>1. CASE j <= kept
    <3>1. j \in 1 .. Len(new) /\ new[j] = list[j]
      BY <1>0, <1>1, <1>3, <1>4, <1>7, <2>1
    <3> QED BY <1>9, <1>15, <3>1
  <2>2. CASE j >= pos
    <3> DEFINE i == kept + m + (j - (pos - 1))
    <3>1. j \in pos .. l /\ i \in 1 .. Len(new)
      BY <1>0, <1>1, <1>3, <1>4, <1>7, <2>2
    <3>2. new[i] = list[j]
      BY <1>7, <3>1
    <3> HIDE DEF i
    <3> QED BY <1>9, <1>15, <3>1, <3>2
  <2> QED BY <1>15, <2>1, <2>2
<1>16. ASSUME NEW b \in Nat, f <= b, b < E PROVE b \in Held(new)
  <2>1. CASE b < r.first
    <3>1. kept > 0 /\ list[kept].first <= b /\ b < list[kept].second
      BY <1>6, <1>16, <2>1
    <3>2. kept \in 1 .. l /\ kept <= kept
      BY <1>1, <1>3, <1>4, <3>1
    <3> QED BY <1>15, <3>1, <3>2
  <2>2. CASE r.second <= b
    <3>1. pos <= l /\ list[pos].first <= b /\ b < list[pos].second
      BY <1>6, <1>16, <2>2
    <3>2. pos \in 1 .. l /\ pos >= pos
      BY <1>1, <1>3, <3>1
    <3> QED BY <1>15, <3>1, <3>2
  <2>3. CASE r.first <= b /\ b < r.second
    <3>1. m = 1
      BY <1>0, <1>6, <1>7, <2>3
    <3>2. kept + 1 \in 1 .. Len(new) /\ new[kept + 1] = r
      BY <1>1, <1>3, <1>4, <1>7, <3>1
    <3> QED BY <1>9, <2>3, <3>2
  <2> QED BY <1>6, <2>1, <2>2, <2>3
<1>17. ASSUME NEW b \in Nat, b \in Held(list) PROVE b \in Held(new)
  <2>1. PICK j \in 1 .. l : list[j].first <= b /\ b < list[j].second
    BY <1>10, <1>17
  <2>2. CASE j <= kept \/ j >= pos
    BY <1>15, <2>1, <2>2
  <2>3. CASE kept < j /\ j < pos
    <3>1. f <= list[j].first /\ list[j].second < E
      BY <1>3, <1>4, <2>3
    <3>2. f <= b /\ b < E
      BY <1>1, <1>5, <2>1, <3>1
    <3> QED BY <1>16, <3>2
  <2> QED BY <1>3, <1>4, <2>2, <2>3
<1>18. Sorted(new)
  BY <1>12 DEF Sorted
<1>19. /\ new # <<>> => new[1].first >= N
       /\ IsEmpty(r) => Ahead(new, N)
  BY <1>8, <1>13 DEF Ahead
<1>20. new \in Seq(Nodes)
  BY <1>7
<1>21. \A b \in Nat : b \in Held(new) <=> b \in Held(list) \/ (f <= b /\ b < E)
  BY <1>14, <1>16, <1>17
<1> QED BY <1>18, <1>19, <1>20, <1>21 DEF list, r, new, f, N, E

-----------------------------------------------------------------------------
(* What is released.                                                       *)

NextAfter(list, next) ==
    IF NumReleased(list, next) = 0 THEN next ELSE list[NumReleased(list, next)].second

Rest(list, next) == SubSeq(list, NumReleased(list, next) + 1, Len(list))

(* The released nodes follow one another without a gap, and no node after  *)
(* them continues the stream.                                              *)
LEMMA NumReleasedFacts ==
    ASSUME NEW list \in Seq(Nodes), NEW next \in Seqs,
           Sorted(list), list # <<>> => list[1].first >= next
    PROVE  /\ NumReleased(list, next) \in 0 .. Len(list)
           /\ \A i \in 1 .. NumReleased(list, next) :
                list[i].first = IF i = 1 THEN next ELSE list[i - 1].second
           /\ NextAfter(list, next) \in Seqs
           /\ NumReleased(list, next) < Len(list) =>
                list[NumReleased(list, next) + 1].first > NextAfter(list, next)
           /\ Ahead(list, next) => NumReleased(list, next) = 0
<1> DEFINE n == NumReleased(list, next)
           l == Len(list)
           C == {k \in 0 .. l :
                    \A i \in 1 .. k :
                        list[i].first = IF i = 1 THEN next ELSE list[i - 1].second}
<1>1. /\ l \in Nat /\ next \in Nat /\ (l > 0 => list[1].first >= next)
      /\ \A i \in 1 .. l :
            list[i].first \in Nat /\ list[i].second \in Nat /\ list[i].second \in Seqs
  BY NodeFacts, SeqsFacts, EmptySeq
<1>2. n = Max(C)
  BY DEF NumReleased
<1>3. n \in C /\ \A k \in C : k <= n
  <2>1. C \subseteq 0 .. l /\ 0 \in C
    BY <1>1
  <2> HIDE DEF C, n, l
  <2>2. C \subseteq Nat /\ C # {}
    BY <1>1, <2>1
  <2>3. IsFiniteSet(0 .. l)
    BY <1>1, FS_Interval
  <2>4. IsFiniteSet(C)
    BY <2>1, <2>3, FS_Subset
  <2> QED BY <1>2, <2>2, <2>4, MaxFacts
<1>4. /\ n \in 0 .. l /\ n \in Nat
      /\ \A i \in 1 .. n : list[i].first = IF i = 1 THEN next ELSE list[i - 1].second
  BY <1>1, <1>3
<1>5. NextAfter(list, next) \in Seqs /\ NextAfter(list, next) \in Nat
  <2>1. CASE n = 0
    BY <1>1, <2>1 DEF NextAfter
  <2>2. CASE n # 0
    <3>1. n \in 1 .. l
      BY <1>1, <1>4, <2>2
    <3> QED BY <1>1, <2>2, <3>1 DEF NextAfter
  <2> QED BY <2>1, <2>2
<1>6. ASSUME n < l PROVE list[n + 1].first > NextAfter(list, next)
  <2>1. n + 1 \in 0 .. l /\ n + 1 \in 1 .. l /\ ~ (n + 1 <= n) /\ (n + 1) - 1 = n
    BY <1>1, <1>4, <1>6
  <2>2. n + 1 \notin C
    BY <1>3, <2>1
  <2>3. PICK i \in 1 .. n + 1 :
          list[i].first # IF i = 1 THEN next ELSE list[i - 1].second
    BY <2>1, <2>2
  <2> HIDE DEF C, n, l
  <2>4. i = n + 1
    BY <1>4, <2>3
  <2>5. list[n + 1].first # NextAfter(list, next)
    <3>1. CASE n = 0
      BY <2>3, <2>4, <3>1 DEF NextAfter, n
    <3>2. CASE n # 0
      <4>1. i # 1 /\ i - 1 = n
        BY <1>4, <2>4, <3>2
      <4> QED BY <2>3, <2>4, <3>2, <4>1 DEF NextAfter, n
    <3> QED BY <3>1, <3>2
  <2>6. list[n + 1].first >= NextAfter(list, next)
    <3>1. CASE n = 0
      <4>1. NextAfter(list, next) = next
        BY <3>1 DEF NextAfter, n
      <4> QED BY <1>1, <1>6, <3>1, <4>1
    <3>2. CASE n # 0
      <4>1. NextAfter(list, next) = list[n].second
        BY <3>2 DEF NextAfter, n
      <4> QED BY <1>4, <2>1, <3>2, <4>1 DEF Sorted, l
    <3> QED BY <3>1, <3>2
  <2> QED BY <1>1, <1>5, <2>1, <2>5, <2>6
<1>7. ASSUME Ahead(list, next) PROVE n = 0
  <2> SUFFICES ASSUME n # 0 PROVE FALSE
    OBVIOUS
  <2>1. 1 \in 1 .. n /\ l > 0 /\ 1 \in 1 .. l
    BY <1>1, <1>4
  <2>2. list # <<>>
    BY <2>1, EmptySeq
  <2> QED BY <1>1, <1>4, <1>7, <2>1, <2>2 DEF Ahead
<1> QED BY <1>4, <1>5, <1>6, <1>7

(* The stream goes on up to the first byte not held, and the bytes after   *)
(* it stay.                                                                *)
LEMMA ReleasedFacts ==
    ASSUME NEW list \in Seq(Nodes), NEW next \in Seqs,
           Sorted(list), list # <<>> => list[1].first >= next
    PROVE  /\ Rest(list, next) \in Seq(Nodes)
           /\ Sorted(Rest(list, next))
           /\ Ahead(Rest(list, next), NextAfter(list, next))
           /\ NextAfter(list, next) >= next
           /\ NextAfter(list, next) \notin Held(list)
           /\ \A b \in Nat : next <= b /\ b < NextAfter(list, next) => b \in Held(list)
           /\ \A b \in Nat : b \in Held(Rest(list, next)) <=>
                b \in Held(list) /\ b > NextAfter(list, next)
<1> DEFINE n == NumReleased(list, next)
           l == Len(list)
           e == NextAfter(list, next)
           rest == Rest(list, next)
<1>1. /\ l \in Nat /\ next \in Nat
      /\ \A i \in 1 .. l :
            list[i].first \in Nat /\ list[i].second \in Nat /\ list[i].first < list[i].second
      /\ \A i \in 1 .. l : i > 1 => list[i].first >= list[i - 1].second
  BY NodeFacts, SeqsFacts DEF Sorted
<1>2. \A i, j \in 1 .. l : i < j => list[i].second <= list[j].first
  BY SortedOrder
<1>3. /\ n \in 0 .. l /\ n \in Nat
      /\ \A i \in 1 .. n : list[i].first = IF i = 1 THEN next ELSE list[i - 1].second
      /\ e \in Nat
      /\ n < l => list[n + 1].first > e
  BY NumReleasedFacts, SeqsFacts, <1>1
<1>4. e = IF n = 0 THEN next ELSE list[n].second
  BY DEF NextAfter
<1>5. /\ rest \in Seq(Nodes) /\ Len(rest) = l - n
      /\ \A i \in 1 .. l - n : rest[i] = list[n + i]
  BY <1>3, DropFacts DEF Rest
<1>6. \A b : b \in Held(list) <=>
          b \in Nat /\ \E i \in 1 .. l : list[i].first <= b /\ b < list[i].second
  BY HeldFacts
<1>7. \A b : b \in Held(rest) <=>
          b \in Nat /\ \E i \in 1 .. Len(rest) : rest[i].first <= b /\ b < rest[i].second
  BY <1>5, HeldFacts
<1> HIDE DEF n, l, e, rest
<1>8. ASSUME NEW i \in 1 .. n PROVE i \in 1 .. l /\ list[i].second <= e
  <2>1. n \in 1 .. l /\ i \in 1 .. l /\ n # 0 /\ (i = n \/ i < n)
    BY <1>1, <1>3
  <2>2. e = list[n].second
    BY <1>4, <2>1
  <2>3. i < n => list[i].second <= list[n].first
    BY <1>2, <2>1
  <2> QED BY <1>1, <2>1, <2>2, <2>3
<1>9. ASSUME NEW i \in 1 .. l, i > n PROVE list[i].first > e
  <2>1. n + 1 \in 1 .. l /\ n < l /\ (i = n + 1 \/ n + 1 < i)
    BY <1>1, <1>3, <1>9
  <2>2. list[n + 1].first > e
    BY <1>3, <2>1
  <2>3. n + 1 < i => list[n + 1].second <= list[i].first
    BY <1>2, <2>1
  <2> QED BY <1>1, <1>3, <2>1, <2>2, <2>3
<1>10. Sorted(rest)
  <2>1. ASSUME NEW i \in 1 .. Len(rest)
        PROVE  rest[i].first < rest[i].second /\ (i > 1 => rest[i].first >= rest[i - 1].second)
    <3>1. i \in 1 .. l - n /\ n + i \in 1 .. l /\ rest[i] = list[n + i]
      BY <1>1, <1>3, <1>5
    <3>2. ASSUME i > 1 PROVE rest[i].first >= rest[i - 1].second
      <4>1. i - 1 \in 1 .. l - n /\ n + (i - 1) = (n + i) - 1 /\ n + i > 1
        BY <1>1, <1>3, <3>1, <3>2
      <4>2. rest[i - 1] = list[(n + i) - 1]
        BY <1>5, <4>1
      <4> QED BY <1>1, <3>1, <4>1, <4>2
    <3> QED BY <1>1, <3>1, <3>2
  <2> QED BY <2>1 DEF Sorted
<1>11. Ahead(rest, e)
  <2> SUFFICES ASSUME rest # <<>> PROVE rest[1].first > e
    BY DEF Ahead
  <2>1. Len(rest) # 0 /\ Len(rest) \in Nat
    BY <1>5, EmptySeq, LenProperties
  <2>2. 1 \in 1 .. l - n /\ n + 1 \in 1 .. l /\ n + 1 > n
    BY <1>1, <1>3, <1>5, <2>1
  <2> QED BY <1>5, <1>9, <2>2
<1>12. ASSUME NEW b \in Nat, next <= b, b < e PROVE b \in Held(list)
  <2> DEFINE S == {k \in Nat : k \in 1 .. n => (b < list[k].second => b \in Held(list))}
  <2>1. 0 \in S
    OBVIOUS
  <2>2. ASSUME NEW k \in Nat, k \in S PROVE k + 1 \in S
    <3> SUFFICES ASSUME k + 1 \in 1 .. n, b < list[k + 1].second PROVE b \in Held(list)
      OBVIOUS
    <3>1. k + 1 \in 1 .. l /\ (k + 1) - 1 = k /\ k < n
      BY <1>3, <1>8
    <3>2. CASE list[k + 1].first <= b
      BY <1>6, <3>1, <3>2
    <3>3. CASE b < list[k + 1].first
      <4>1. k # 0 /\ list[k + 1].first = list[k].second
        BY <1>1, <1>3, <1>12, <3>1, <3>3
      <4>2. k \in 1 .. n
        BY <1>3, <3>1, <4>1
      <4> QED BY <2>2, <3>3, <4>1, <4>2
    <3> QED BY <1>1, <3>1, <3>2, <3>3
  <2>3. Nat \subseteq S
    <3> HIDE DEF S
    <3> QED BY <2>1, <2>2, SetInduction
  <2>4. n # 0 /\ n \in 1 .. n /\ b < list[n].second
    BY <1>1, <1>3, <1>4, <1>12
  <2> QED BY <1>3, <2>3, <2>4
<1>13. e \notin Held(list)
  <2>1. ASSUME NEW i \in 1 .. l, list[i].first <= e, e < list[i].second PROVE FALSE
    <3>1. CASE i <= n
      <4>1. i \in 1 .. n
        BY <1>3, <3>1
      <4> QED BY <1>1, <1>3, <1>8, <2>1, <4>1
    <3>2. CASE i > n
      BY <1>1, <1>3, <1>9, <2>1, <3>2
    <3> QED BY <1>3, <3>1, <3>2
  <2> QED BY <1>6, <2>1
<1>14. e >= next
  <2>1. CASE n = 0
    BY <1>1, <1>4, <2>1
  <2>2. CASE n # 0
    <3>1. 1 \in 1 .. n /\ 1 \in 1 .. l
      BY <1>1, <1>3, <2>2
    <3> QED BY <1>1, <1>3, <1>8, <3>1
  <2> QED BY <2>1, <2>2
<1>15. ASSUME NEW b \in Nat, b \in Held(rest) PROVE b \in Held(list) /\ b > e
  <2>1. PICK i \in 1 .. Len(rest) : rest[i].first <= b /\ b < rest[i].second
    BY <1>7, <1>15
  <2> DEFINE k == n + i
  <2>2. i \in 1 .. l - n /\ k \in 1 .. l /\ k > n
    BY <1>1, <1>3, <1>5
  <2>3. rest[i] = list[k]
    BY <1>5, <2>2
  <2> HIDE DEF k
  <2>4. list[k].first > e
    BY <1>9, <2>2
  <2>5. b \in Held(list)
    BY <1>6, <2>1, <2>2, <2>3
  <2>6. b > e
    BY <1>1, <1>3, <2>1, <2>2, <2>3, <2>4
  <2> QED BY <2>5, <2>6
<1>16. ASSUME NEW b \in Nat, b \in Held(list), b > e PROVE b \in Held(rest)
  <2>1. PICK i \in 1 .. l : list[i].first <= b /\ b < list[i].second
    BY <1>6, <1>16
  <2>2. i > n
    <3>1. i \in 1 .. n => list[i].second <= e
      BY <1>8
    <3> QED BY <1>1, <1>3, <1>16, <2>1, <3>1
  <2> DEFINE j == i - n
  <2>3. j \in 1 .. l - n /\ n + j = i
    BY <1>1, <1>3, <2>2
  <2> HIDE DEF j
  <2>4. rest[j] = list[i]
    BY <1>5, <2>3
  <2> QED BY <1>5, <1>7, <2>1, <2>3, <2>4
<1>17. rest \in Seq(Nodes)
  BY <1>5
<1>18. \A b \in Nat : b \in Held(rest) <=> b \in Held(list) /\ b > e
  BY <1>15, <1>16
<1> QED BY <1>10, <1>11, <1>12, <1>13, <1>14, <1>17, <1>18 DEF e, rest

-----------------------------------------------------------------------------
(* The invariant: every flow known is in order.                            *)

FlowsOK == DOMAIN flows_ \subseteq Flows /\ \A f \in DOMAIN flows_ : FlowOK(flows_[f])

IInv == TypeOK /\ FlowsOK

JobSizes == Nat \cup {kInvalidJobSize}

LEMMA NewFlowOK == FlowOK(NewFlow)
<1>1. 0 \in Seqs
  BY ModulusFacts, SeqsFacts
<1>2. <<>> \in Seq(Nodes) /\ Len(<<>>) = 0
  OBVIOUS
<1>3. NewFlow \in [next_psn_ : Seqs, ooo_list_ : Seq(Nodes)] /\ NewFlow.ooo_list_ = <<>>
  BY <1>1, <1>2 DEF NewFlow
<1>4. Sorted(<<>>) /\ Ahead(<<>>, NewFlow.next_psn_)
  BY <1>2 DEF Sorted, Ahead
<1> QED BY <1>3, <1>4 DEF FlowOK

LEMMA KnownFlowOK ==
    ASSUME FlowsOK, NEW f
    PROVE  /\ FlowOK(Flow(f))
           /\ f \in DOMAIN flows_ => Flow(f) = flows_[f]
           /\ f \notin DOMAIN flows_ => Flow(f).next_psn_ = 0 /\ Flow(f).ooo_list_ = <<>>
BY NewFlowOK DEF FlowsOK, Flow, NewFlow

LEMMA SetFlowFacts ==
    ASSUME FlowsOK, NEW f \in Flows, NEW s, FlowOK(s), SetFlow(f, s)
    PROVE  FlowsOK'
<1>1. flows_' = [g \in DOMAIN flows_ \cup {f} |-> IF g = f THEN s ELSE flows_[g]]
  BY DEF SetFlow
<1>2. DOMAIN flows_' = DOMAIN flows_ \cup {f}
  BY <1>1
<1>3. ASSUME NEW g \in DOMAIN flows_' PROVE FlowOK(flows_'[g])
  <2>1. flows_'[g] = IF g = f THEN s ELSE flows_[g]
    BY <1>1, <1>2
  <2> QED BY <1>2, <2>1 DEF FlowsOK
<1>4. DOMAIN flows_' \subseteq Flows
  BY <1>2 DEF FlowsOK
<1> QED BY <1>3, <1>4 DEF FlowsOK

LEMMA JobSizeFacts ==
    ASSUME NEW t \in JobSizes
    PROVE  /\ toJobSizeInNs(t) \in JobSizes
           /\ toJobSizeInNs(t) = kInvalidJobSize <=> t = kInvalidJobSize
<1>1. \A a, b \in Nat : a * b \in Nat
  OBVIOUS
<1>2. t # kInvalidJobSize => t * kServiceTimeScaling \in Nat
  BY <1>1, ScalingAssumption DEF JobSizes
<1>3. kInvalidJobSize \notin Nat
  BY DEF kInvalidJobSize
<1> QED BY <1>2, <1>3 DEF toJobSizeInNs, JobSizes

LEMMA ServiceTimeFacts ==
    ASSUME NEW n \in Nat
    PROVE  toServiceTime(n) \in JobSizes /\ toServiceTime(n) # kInvalidJobSize
BY DEF toServiceTime, JobSizes, kCostBase, kCostPerTraversal, kInvalidJobSize

LEMMA AnswerFacts ==
    ASSUME NEW estimate \in JobSizes, NEW t \in JobSizes, Answer(estimate, t)
    PROVE  /\ {job_size_estimate', job_size_actual'} \subseteq JobSizes
           /\ job_size_actual' # kInvalidJobSize <=> t # kInvalidJobSize
           /\ (estimate # kInvalidJobSize <=> t # kInvalidJobSize)
                => (job_size_estimate' # kInvalidJobSize <=> t # kInvalidJobSize)
BY JobSizeFacts DEF Answer

(* There is an estimate exactly for the packets that have a job.           *)
LEMMA EstimateFacts ==
    ASSUME FlowsOK, NEW p
    PROVE  LET s == Flow(p.flow)
           IN  /\ Estimate(p) \in JobSizes
               /\ Estimate(p) # kInvalidJobSize <=>
                    ~ IsSyn(s, p) /\ ~ KeepsInOrder(s, p) /\ ~ PastWindow(s, p) /\ ~ IsDuplicate(s, p)
<1> DEFINE s == Flow(p.flow)
           L == Len(s.ooo_list_)
<1>1. L \in Nat
  BY KnownFlowOK, LenProperties DEF FlowOK
<1>2. kInvalidJobSize \in JobSizes
  BY DEF JobSizes
<1>3. toServiceTime(L) \in JobSizes /\ toServiceTime(L) # kInvalidJobSize
  <2> HIDE DEF L
  <2> QED BY <1>1, ServiceTimeFacts
<1>4. CASE p.flow \in DOMAIN flows_
  <2>1. s = flows_[p.flow]
    BY <1>4, KnownFlowOK
  <2> QED BY <1>2, <1>3, <1>4, <2>1 DEF Estimate, getServiceTimeEstimate
<1>5. CASE p.flow \notin DOMAIN flows_
  <2>1. IsSyn(s, p)
    BY <1>5, KnownFlowOK DEF IsSyn
  <2> QED BY <1>2, <1>5, <2>1 DEF Estimate
<1> QED BY <1>4, <1>5

(* What is reassembled starts within the window and does not wrap.         *)
LEMMA ReassembleFacts ==
    ASSUME NEW s, FlowOK(s), NEW p \in Packets, p.psn # p.next_psn,
           ~ PastWindow(s, p), ~ IsDuplicate(s, p)
    PROVE  BringsData(s, p)
<1> DEFINE M == 2 ^ SeqBits
           W == kReassemblyWindowSizeInBytes
           N == s.next_psn_
           P == p.psn
           E == p.next_psn
<1>1. M \in Nat /\ W \in Nat /\ MaxPayload \in Nat /\ W + 2 * MaxPayload < M
  BY ModulusFacts
<1>2. /\ N \in Seqs /\ P \in Seqs /\ E \in Seqs
      /\ P <= E \/ (E < MaxPayload /\ P + MaxPayload >= M)
  BY PacketFacts DEF FlowOK
<1>3. N \in Nat /\ P \in Nat /\ E \in Nat
  BY <1>2, SeqsFacts
<1>4. W < M
  BY <1>1
<1>5. (N + W) % M = IF N + W < M THEN N + W ELSE N + W - M
  BY <1>1, <1>2, <1>4, WrapFacts
<1>6. ~ (P > (N + W) % M) /\ ~ (N >= E) /\ P # E
  BY DEF PastWindow, IsDuplicate
<1> HIDE DEF M, W, N, P, E
<1>7. N < E
  BY <1>3, <1>6
<1>8. P < E
  <2>1. CASE N + W < M
    <3>1. P <= N + W
      BY <1>1, <1>3, <1>5, <1>6, <2>1
    <3> QED BY <1>1, <1>2, <1>3, <1>6, <1>7, <3>1
  <2>2. CASE ~ (N + W < M)
    <3>1. ~ (E < MaxPayload)
      BY <1>1, <1>3, <1>7, <2>2
    <3> QED BY <1>2, <1>3, <1>6, <3>1
  <2> QED BY <2>1, <2>2
<1> QED BY <1>2, <1>7, <1>8 DEF BringsData, N, P, E

(* A flow after a packet was put into its list.                            *)
LEMMA ReassembledFlow ==
    ASSUME NEW s, FlowOK(s), NEW p, BringsData(s, p)
    PROVE  LET range == NewBytes(s, p)
               list == Inserted(s, p, range)
               released == IF IsEmpty(range) THEN 0 ELSE NumReleased(list, s.next_psn_)
           IN  /\ released = NumReleased(list, s.next_psn_)
               /\ released \in Nat
               /\ FlowOK([next_psn_ |-> NextAfter(list, s.next_psn_),
                          ooo_list_ |-> Rest(list, s.next_psn_)])
<1> DEFINE range == NewBytes(s, p)
           list == Inserted(s, p, range)
           N == s.next_psn_
<1>1. /\ list \in Seq(Nodes) /\ Sorted(list) /\ (list # <<>> => list[1].first >= N)
      /\ IsEmpty(range) => Ahead(list, N)
  BY InsertedFacts
<1>2. N \in Seqs
  BY DEF FlowOK
<1> HIDE DEF range, list, N
<1>3. /\ NumReleased(list, N) \in 0 .. Len(list) /\ NextAfter(list, N) \in Seqs
      /\ Ahead(list, N) => NumReleased(list, N) = 0
  BY <1>1, <1>2, NumReleasedFacts
<1>4. /\ Rest(list, N) \in Seq(Nodes) /\ Sorted(Rest(list, N))
      /\ Ahead(Rest(list, N), NextAfter(list, N))
  BY <1>1, <1>2, ReleasedFacts
<1>5. FlowOK([next_psn_ |-> NextAfter(list, N), ooo_list_ |-> Rest(list, N)])
  BY <1>3, <1>4 DEF FlowOK
<1>6. IsEmpty(range) => NumReleased(list, N) = 0
  BY <1>1, <1>3
<1>7. NumReleased(list, N) \in Nat
  BY <1>3
<1> QED BY <1>5, <1>6, <1>7 DEF range, list, N

LEMMA ReassembleStep ==
    ASSUME FlowsOK, NEW p \in Packets, p.psn # p.next_psn, Reassemble(Flow(p.flow), p)
    PROVE  LET s == Flow(p.flow)
               list == Inserted(s, p, NewBytes(s, p))
           IN  /\ FlowOK(s) /\ BringsData(s, p)
               /\ FlowOK([next_psn_ |-> NextAfter(list, s.next_psn_),
                          ooo_list_ |-> Rest(list, s.next_psn_)])
               /\ SetFlow(p.flow, [next_psn_ |-> NextAfter(list, s.next_psn_),
                                   ooo_list_ |-> Rest(list, s.next_psn_)])
               /\ \E n \in Nat : Answer(Estimate(p), toServiceTime(n))
<1> DEFINE s == Flow(p.flow)
           range == NewBytes(s, p)
           list == Inserted(s, p, range)
           N == s.next_psn_
           released == IF IsEmpty(range) THEN 0 ELSE NumReleased(list, N)
           traversals == Smaller(Position(s.ooo_list_, p), Len(s.ooo_list_))
<1>1. FlowOK(s)
  BY KnownFlowOK
<1>2. BringsData(s, p)
  BY <1>1, ReassembleFacts DEF Reassemble
<1>3. /\ released = NumReleased(list, N) /\ released \in Nat
      /\ FlowOK([next_psn_ |-> NextAfter(list, N), ooo_list_ |-> Rest(list, N)])
  BY <1>1, <1>2, ReassembledFlow
<1>4. /\ SetFlow(p.flow,
            [next_psn_ |-> IF released = 0 THEN N ELSE list[released].second,
             ooo_list_ |-> SubSeq(list, released + 1, Len(list))])
      /\ Answer(Estimate(p), toServiceTime(traversals + released))
  BY DEF Reassemble
<1>5. traversals \in Nat
  <2>1. /\ s.ooo_list_ \in Seq(Nodes) /\ p.next_psn \in Seqs
    BY <1>1, <1>2 DEF FlowOK, BringsData
  <2>2. Position(s.ooo_list_, p) \in Nat /\ Len(s.ooo_list_) \in Nat
    BY <2>1, PositionFacts, NodeFacts
  <2> QED BY <2>2 DEF Smaller
<1> HIDE DEF released, traversals, list, N, s, range
<1>6. /\ NextAfter(list, N) = IF released = 0 THEN N ELSE list[released].second
      /\ Rest(list, N) = SubSeq(list, released + 1, Len(list))
  BY <1>3 DEF NextAfter, Rest
<1>7. SetFlow(p.flow, [next_psn_ |-> NextAfter(list, N), ooo_list_ |-> Rest(list, N)])
  BY <1>4, <1>6
<1>8. \E n \in Nat : Answer(Estimate(p), toServiceTime(n))
  <2>1. traversals + released \in Nat
    BY <1>3, <1>5
  <2> QED BY <1>4, <2>1
<1> QED BY <1>1, <1>2, <1>3, <1>7, <1>8 DEF list, N, s, range

(* A SYN, or a packet in order, sets the next byte of a flow without list. *)
LEMMA AdvancedFlow ==
    ASSUME NEW s, FlowOK(s), s.ooo_list_ = <<>>, NEW next \in Seqs
    PROVE  /\ FlowOK([s EXCEPT !.next_psn_ = next])
           /\ [s EXCEPT !.next_psn_ = next] = [next_psn_ |-> next, ooo_list_ |-> <<>>]
<1>1. [s EXCEPT !.next_psn_ = next] = [next_psn_ |-> next, ooo_list_ |-> <<>>]
  BY DEF FlowOK
<1>2. Ahead(<<>>, next)
  BY DEF Ahead
<1> QED BY <1>1, <1>2 DEF FlowOK

LEMMA ReassemblyInit == Init => IInv
<1> SUFFICES ASSUME Init PROVE IInv
  OBVIOUS
<1>1. DOMAIN flows_ = {}
  BY DEF Init
<1> QED BY <1>1 DEF Init, IInv, TypeOK, FlowsOK

LEMMA ProcessKeeps ==
    ASSUME IInv, NEW p \in Packets, process(p)
    PROVE  /\ FlowsOK' /\ aborted' \in BOOLEAN
           /\ {job_size_estimate', job_size_actual'} \subseteq JobSizes
<1> DEFINE s == Flow(p.flow)
<1>1. /\ FlowOK(s) /\ p.flow \in Flows /\ p.next_psn \in Seqs /\ p.psn # p.next_psn
      /\ Estimate(p) \in JobSizes /\ kInvalidJobSize \in JobSizes /\ aborted \in BOOLEAN
      /\ {job_size_estimate, job_size_actual} \subseteq JobSizes
  BY KnownFlowOK, PacketFacts, EstimateFacts DEF IInv, TypeOK, JobSizes, process
<1>2. FlowsOK
  BY DEF IInv
<1>3. UNCHANGED flows_ => FlowsOK'
  BY <1>2 DEF FlowsOK
<1>4. \A t \in JobSizes : Answer(Estimate(p), t) =>
          {job_size_estimate', job_size_actual'} \subseteq JobSizes /\ aborted' = aborted
  BY <1>1, AnswerFacts DEF Answer
<1>5. CASE Syn(s, p)
  <2>1. FlowsOK'
    <3>1. CASE s.ooo_list_ = <<>>
      BY <1>1, <1>2, <1>5, <3>1, AdvancedFlow, SetFlowFacts DEF Syn
    <3>2. CASE s.ooo_list_ # <<>>
      BY <1>3, <1>5, <3>2 DEF Syn
    <3> QED BY <3>1, <3>2
  <2> QED BY <1>1, <1>4, <1>5, <2>1 DEF Syn
<1>6. CASE InOrder(s, p)
  <2>1. s.ooo_list_ = <<>> /\ Larger(s.next_psn_, p.next_psn) \in Seqs
    BY <1>1, <1>6 DEF InOrder, KeepsInOrder, Larger, FlowOK
  <2>2. /\ SetFlow(p.flow, [s EXCEPT !.next_psn_ = Larger(s.next_psn_, p.next_psn)])
        /\ Answer(Estimate(p), kInvalidJobSize)
    BY <1>6 DEF InOrder
  <2> HIDE DEF s
  <2>3. FlowsOK'
    BY <1>1, <1>2, <2>1, <2>2, AdvancedFlow, SetFlowFacts
  <2> QED BY <1>1, <1>4, <2>2, <2>3
<1>7. CASE Drop(s, p)
  BY <1>1, <1>3, <1>4, <1>7 DEF Drop
<1>8. CASE Reassemble(s, p)
  <2> DEFINE list == Inserted(s, p, NewBytes(s, p))
             new == [next_psn_ |-> NextAfter(list, s.next_psn_), ooo_list_ |-> Rest(list, s.next_psn_)]
  <2>1. FlowOK(new) /\ SetFlow(p.flow, new) /\ \E n \in Nat : Answer(Estimate(p), toServiceTime(n))
    BY <1>1, <1>2, <1>8, ReassembleStep
  <2> HIDE DEF new
  <2>2. \A n \in Nat : toServiceTime(n) \in JobSizes
    BY ServiceTimeFacts
  <2> QED BY <1>1, <1>2, <1>4, <2>1, <2>2, SetFlowFacts
<1> QED BY <1>5, <1>6, <1>7, <1>8 DEF process

LEMMA ReassemblyStep == IInv /\ [Next]_vars => IInv'
<1> SUFFICES ASSUME IInv, [Next]_vars PROVE IInv'
  OBVIOUS
<1>1. CASE UNCHANGED vars
  <2>1. UNCHANGED <<use_heuristic, flows_, packet, job_size_estimate, job_size_actual, aborted>>
    BY <1>1 DEF vars
  <2>2. FlowsOK'
    BY <2>1 DEF IInv, FlowsOK
  <2> QED BY <2>1, <2>2 DEF IInv, TypeOK
<1>2. CASE Aborted
  BY <1>1, <1>2 DEF Aborted
<1>3. ASSUME NEW p \in Packets, packet' = p, UNCHANGED use_heuristic,
             Attack(p) \/ Ignore(p) \/ FinOrRst(p) \/ process(p)
      PROVE  IInv'
  <2>1. /\ Estimate(p) \in JobSizes /\ kInvalidJobSize \in JobSizes /\ aborted \in BOOLEAN
        /\ use_heuristic \in BOOLEAN /\ FlowsOK
    BY EstimateFacts DEF IInv, TypeOK, JobSizes
  <2>2. /\ FlowsOK' /\ aborted' \in BOOLEAN
        /\ {job_size_estimate', job_size_actual'} \subseteq JobSizes
    <3>1. CASE Attack(p)
      BY <2>1, <3>1, AttackAssumption DEF Attack, FlowsOK, JobSizes
    <3>2. CASE Ignore(p)
      <4>1. Answer(kInvalidJobSize, kInvalidJobSize) /\ UNCHANGED flows_
        BY <3>2 DEF Ignore
      <4> QED BY <2>1, <4>1, AnswerFacts DEF Answer, FlowsOK
    <3>3. CASE FinOrRst(p)
      <4>1. Answer(kInvalidJobSize, kInvalidJobSize) /\ flows_' = [f \in DOMAIN flows_ \ {p.flow} |-> flows_[f]]
        BY <3>3 DEF FinOrRst
      <4>2. FlowsOK'
        BY <2>1, <4>1 DEF FlowsOK
      <4> QED BY <2>1, <4>1, <4>2, AnswerFacts DEF Answer
    <3>4. CASE process(p)
      BY <3>4, ProcessKeeps
    <3> QED BY <1>3, <3>1, <3>2, <3>3, <3>4
  <2>3. /\ DOMAIN flows_' \subseteq Flows
        /\ \A f \in DOMAIN flows_' : flows_'[f].next_psn_ \in Seqs /\ flows_'[f].ooo_list_ \in Seq(Nodes)
    BY <2>2 DEF FlowsOK, FlowOK
  <2>4. TypeOK'
    BY <1>3, <2>1, <2>2, <2>3 DEF TypeOK, JobSizes
  <2> QED BY <2>2, <2>4 DEF IInv
<1>4. CASE Arrive
  BY <1>3, <1>4 DEF Arrive
<1> QED BY <1>1, <1>2, <1>4 DEF Next

(* Every flow stays in order, whatever packets arrive: the inductive        *)
(* invariant of the application.                                           *)
THEOREM ReassemblyInvariant == Spec => []IInv
BY ReassemblyInit, ReassemblyStep, PTL DEF Spec

(* Sequence numbers keep their width and job sizes are times or the mark of *)
(* a packet without a job.                                                 *)
THEOREM ReassemblyTypeCorrect == Spec => []TypeOK
<1>1. IInv => TypeOK
  BY DEF IInv
<1> QED BY <1>1, ReassemblyInvariant, PTL

(* The out-of-order list is sorted, its nodes are not empty and do not     *)
(* overlap, and the first of them does not continue the stream.            *)
THEOREM ListOrdered == Spec => []OooListOrdered
<1>1. IInv => OooListOrdered
  <2> SUFFICES ASSUME IInv, NEW f \in DOMAIN flows_, NEW i \in 1 .. Len(flows_[f].ooo_list_)
               PROVE  LET list == flows_[f].ooo_list_
                      IN  /\ list[i].first < list[i].second
                          /\ IF i = 1 THEN list[i].first > flows_[f].next_psn_
                                      ELSE list[i].first >= list[i - 1].second
    BY DEF OooListOrdered
  <2> DEFINE list == flows_[f].ooo_list_
  <2>1. list \in Seq(Nodes) /\ Sorted(list) /\ Ahead(list, flows_[f].next_psn_)
    BY DEF IInv, FlowsOK, FlowOK
  <2>2. list # <<>> /\ (i = 1 \/ i > 1)
    BY <2>1, EmptySeq
  <2> HIDE DEF list
  <2>3. /\ list[i].first < list[i].second
        /\ IF i = 1 THEN list[i].first > flows_[f].next_psn_
                    ELSE list[i].first >= list[i - 1].second
    BY <2>1, <2>2 DEF Sorted, Ahead, list
  <2> QED BY <2>3 DEF list
<1> QED BY <1>1, ReassemblyInvariant, PTL

-----------------------------------------------------------------------------
(* The refinement: what a flow is to ReassemblyBuffer.                     *)

StreamOf(s) == [next |-> s.next_psn_, held |-> Held(s.ooo_list_)]
Streams == [f \in DOMAIN flows_ |-> StreamOf(flows_[f])]

\* The bytes there are once the packet came.
Got(s, p) == {b \in Held(s.ooo_list_) \cup (p.psn .. p.next_psn - 1) : b >= s.next_psn_}

\* What the buffer promises of the flow then.
Promised(s, p) ==
    [next |-> Buffer!FirstMissing(s.next_psn_, Got(s, p)),
     held |-> {b \in Got(s, p) : b > Buffer!FirstMissing(s.next_psn_, Got(s, p))}]

LEMMA HeldAhead ==
    ASSUME NEW s, FlowOK(s)
    PROVE  /\ \A b \in Held(s.ooo_list_) : b \in Nat /\ b > s.next_psn_
           /\ Held(s.ooo_list_) = {} <=> s.ooo_list_ = <<>>
<1> DEFINE list == s.ooo_list_
           N == s.next_psn_
<1>1. list \in Seq(Nodes) /\ Sorted(list) /\ Ahead(list, N) /\ N \in Nat /\ Len(list) \in Nat
  BY SeqsFacts, LenProperties DEF FlowOK
<1> HIDE DEF list, N
<1>2. \A b : b \in Held(list) <=>
          b \in Nat /\ \E i \in 1 .. Len(list) : list[i].first <= b /\ b < list[i].second
  BY <1>1, HeldFacts
<1>3. \A i \in 1 .. Len(list) :
          list[i].first \in Nat /\ list[i].second \in Nat /\ list[i].first < list[i].second
  BY <1>1, NodeFacts DEF Sorted
<1>4. ASSUME NEW b \in Held(list) PROVE b \in Nat /\ b > N
  <2>1. PICK i \in 1 .. Len(list) : list[i].first <= b /\ b < list[i].second
    BY <1>2
  <2>2. b \in Nat /\ list # <<>> /\ 1 \in 1 .. Len(list) /\ (i = 1 \/ 1 < i)
    BY <1>1, <1>2, <2>1, EmptySeq
  <2>3. list[1].first > N
    BY <1>1, <2>2 DEF Ahead
  <2>4. 1 < i => list[1].second <= list[i].first
    BY <1>1, <2>2, SortedOrder
  <2> QED BY <1>1, <1>3, <2>1, <2>2, <2>3, <2>4
<1>5. ASSUME list # <<>> PROVE Held(list) # {}
  <2>1. 1 \in 1 .. Len(list)
    BY <1>1, <1>5, EmptySeq
  <2>2. list[1].first \in Held(list)
    BY <1>2, <1>3, <2>1
  <2> QED BY <2>2
<1>6. ASSUME list = <<>> PROVE Held(list) = {}
  <2>1. Len(list) = 0
    BY <1>6
  <2> QED BY <1>2, <2>1
<1> QED BY <1>4, <1>5, <1>6 DEF list, N

(* There is one first missing byte.                                        *)
LEMMA FirstMissingFacts ==
    ASSUME NEW n \in Seqs, NEW e \in Seqs, n <= e, NEW got, e \notin got,
           \A b \in Nat : n <= b /\ b < e => b \in got
    PROVE  Buffer!FirstMissing(n, got) = e
<1> DEFINE M == 2 ^ SeqBits
           IsFirst(b) == b \in n .. M - 1 + 1 /\ b \notin got /\ \A c \in n .. b - 1 : c \in got
<1>1. M \in Nat /\ n \in Nat /\ e \in Nat /\ e < M
  BY ModulusFacts, SeqsFacts
<1>2. Buffer!FirstMissing(n, got) = CHOOSE b \in n .. M - 1 + 1 : b \notin got /\ \A c \in n .. b - 1 : c \in got
  BY DEF Buffer!FirstMissing
<1> HIDE DEF M
<1>3. IsFirst(e)
  BY <1>1
<1>4. ASSUME NEW b, IsFirst(b) PROVE b = e
  <2>1. b \in Nat /\ n <= b
    BY <1>1, <1>4
  <2>2. ~ (b < e)
    BY <1>4, <2>1
  <2>3. e < b => e \in n .. b - 1
    BY <1>1, <2>1
  <2> QED BY <1>1, <1>4, <2>1, <2>2, <2>3
<1> QED BY <1>2, <1>3, <1>4

LEMMA PromiseKept ==
    ASSUME NEW s, FlowOK(s), NEW p \in Packets, NEW new, FlowOK(new),
           new.next_psn_ >= s.next_psn_,
           new.next_psn_ \notin Got(s, p),
           \A b \in Nat : s.next_psn_ <= b /\ b < new.next_psn_ => b \in Got(s, p),
           \A b \in Nat : b \in Held(new.ooo_list_) <=> b \in Got(s, p) /\ b > new.next_psn_
    PROVE  StreamOf(new) = Promised(s, p)
<1>1. /\ s.next_psn_ \in Seqs /\ new.next_psn_ \in Seqs /\ p.psn \in Nat /\ p.next_psn \in Nat
      /\ s.next_psn_ \in Nat /\ new.next_psn_ \in Nat
  BY PacketFacts, SeqsFacts DEF FlowOK
<1>2. Buffer!FirstMissing(s.next_psn_, Got(s, p)) = new.next_psn_
  BY <1>1, FirstMissingFacts
<1>3. \A b \in Got(s, p) : b \in Nat
  BY <1>1, HeldAhead DEF Got
<1>4. \A b \in Held(new.ooo_list_) : b \in Nat
  BY HeldAhead
<1>5. Held(new.ooo_list_) = {b \in Got(s, p) : b > new.next_psn_}
  BY <1>3, <1>4
<1> QED BY <1>2, <1>5 DEF StreamOf, Promised

(* In order, twice, or out of order: the promise is kept.                  *)
LEMMA InOrderKept ==
    ASSUME NEW s, FlowOK(s), NEW p \in Packets, s.ooo_list_ = <<>>, s.next_psn_ >= p.psn
    PROVE  StreamOf([s EXCEPT !.next_psn_ = Larger(s.next_psn_, p.next_psn)]) = Promised(s, p)
<1> DEFINE e == Larger(s.next_psn_, p.next_psn)
           new == [s EXCEPT !.next_psn_ = e]
<1>1. /\ s.next_psn_ \in Nat /\ p.psn \in Nat /\ p.next_psn \in Nat
      /\ s.next_psn_ \in Seqs /\ p.next_psn \in Seqs
  BY PacketFacts, SeqsFacts DEF FlowOK
<1>2. e \in Seqs /\ e \in Nat /\ e >= s.next_psn_ /\ e >= p.next_psn /\ (e = s.next_psn_ \/ e = p.next_psn)
  BY <1>1 DEF Larger
<1> HIDE DEF e
<1>3. FlowOK(new) /\ new.next_psn_ = e /\ new.ooo_list_ = <<>>
  BY <1>2, AdvancedFlow
<1>4. Held(s.ooo_list_) = {} /\ Held(new.ooo_list_) = {}
  BY <1>3, HeldAhead
<1>5. \A b : b \in Got(s, p) <=> b \in Nat /\ p.psn <= b /\ b < p.next_psn /\ b >= s.next_psn_
  BY <1>1, <1>4 DEF Got
<1>6. e \notin Got(s, p)
  BY <1>1, <1>2, <1>5
<1>7. \A b \in Nat : s.next_psn_ <= b /\ b < e => b \in Got(s, p)
  BY <1>1, <1>2, <1>5
<1>8. \A b \in Nat : ~ (b \in Got(s, p) /\ b > e)
  BY <1>1, <1>2, <1>5
<1> HIDE DEF new
<1>9. StreamOf(new) = Promised(s, p)
  BY <1>2, <1>3, <1>4, <1>6, <1>7, <1>8, PromiseKept
<1> QED BY <1>9 DEF new, e

LEMMA DuplicateKept ==
    ASSUME NEW s, FlowOK(s), NEW p \in Packets, IsDuplicate(s, p)
    PROVE  StreamOf(s) = Promised(s, p)
<1>1. /\ s.next_psn_ \in Nat /\ p.psn \in Nat /\ p.next_psn \in Nat /\ s.next_psn_ >= p.next_psn
  BY PacketFacts, SeqsFacts DEF FlowOK, IsDuplicate
<1>2. \A b \in Held(s.ooo_list_) : b \in Nat /\ b > s.next_psn_
  BY HeldAhead
<1>3. \A b : b \in Got(s, p) <=> b \in Held(s.ooo_list_)
  BY <1>1, <1>2 DEF Got
<1> QED BY <1>1, <1>2, <1>3, PromiseKept

LEMMA ReassembledKept ==
    ASSUME NEW s, FlowOK(s), NEW p \in Packets, BringsData(s, p), NEW list,
           list = Inserted(s, p, NewBytes(s, p)),
           FlowOK([next_psn_ |-> NextAfter(list, s.next_psn_), ooo_list_ |-> Rest(list, s.next_psn_)])
    PROVE  StreamOf([next_psn_ |-> NextAfter(list, s.next_psn_), ooo_list_ |-> Rest(list, s.next_psn_)])
                = Promised(s, p)
<1> DEFINE N == s.next_psn_
           e == NextAfter(list, N)
           rest == Rest(list, N)
           new == [next_psn_ |-> e, ooo_list_ |-> rest]
<1>1. N \in Seqs /\ N \in Nat /\ p.psn \in Nat /\ p.next_psn \in Nat
  BY PacketFacts, SeqsFacts DEF FlowOK
<1>2. /\ list \in Seq(Nodes) /\ Sorted(list) /\ (list # <<>> => list[1].first >= N)
      /\ \A b \in Nat : b \in Held(list) <=>
            b \in Held(s.ooo_list_) \/ (First(s, p) <= b /\ b < p.next_psn)
  BY InsertedFacts
<1>3. /\ e >= N /\ e \notin Held(list)
      /\ \A b \in Nat : N <= b /\ b < e => b \in Held(list)
      /\ \A b \in Nat : b \in Held(rest) <=> b \in Held(list) /\ b > e
  BY <1>1, <1>2, ReleasedFacts
<1>4. /\ First(s, p) \in Nat /\ First(s, p) >= N /\ First(s, p) >= p.psn
      /\ First(s, p) = N \/ First(s, p) = p.psn
  BY FirstFacts
<1>5. \A b \in Held(s.ooo_list_) : b \in Nat /\ b > N
  BY HeldAhead
<1>6. \A b \in Held(list) : b \in Nat
  BY <1>2, HeldFacts
<1>7. \A b : b \in Got(s, p) <=> b \in Held(list)
  <2>1. \A b : b \in Got(s, p) <=>
            b \in Nat /\ (b \in Held(s.ooo_list_) \/ (p.psn <= b /\ b < p.next_psn)) /\ b >= N
    BY <1>1, <1>5 DEF Got
  <2>2. \A b \in Nat : First(s, p) <= b <=> p.psn <= b /\ b >= N
    BY <1>1, <1>4
  <2> QED BY <1>1, <1>2, <1>5, <1>6, <2>1, <2>2
<1> HIDE DEF e, rest
<1>8. new.next_psn_ = e /\ new.ooo_list_ = rest
  OBVIOUS
<1>9. FlowOK(new)
  BY DEF e, rest
<1> HIDE DEF new
<1>10. StreamOf(new) = Promised(s, p)
  BY <1>3, <1>7, <1>8, <1>9, PromiseKept
<1> QED BY <1>10 DEF new, e, rest

LEMMA StreamsFacts ==
    /\ DOMAIN Streams = DOMAIN flows_
    /\ \A f \in DOMAIN flows_ :
        /\ Streams[f] = StreamOf(flows_[f])
        /\ Streams[f].next = flows_[f].next_psn_
        /\ Streams[f].held = Held(flows_[f].ooo_list_)
BY DEF Streams, StreamOf

With(streams, f, stream) ==
    [g \in DOMAIN streams \cup {f} |-> IF g = f THEN stream ELSE streams[g]]

LEMMA SetFlowStreams ==
    ASSUME NEW f, NEW s, SetFlow(f, s)
    PROVE  Streams' = With(Streams, f, StreamOf(s))
<1>1. flows_' = [g \in DOMAIN flows_ \cup {f} |-> IF g = f THEN s ELSE flows_[g]]
  BY DEF SetFlow
<1>2. Streams' = [g \in DOMAIN flows_' |-> StreamOf(flows_'[g])]
  BY DEF Streams, StreamOf, Held
<1>3. DOMAIN flows_' = DOMAIN flows_ \cup {f}
  BY <1>1
<1>4. \A g \in DOMAIN flows_' : flows_'[g] = IF g = f THEN s ELSE flows_[g]
  BY <1>1
<1>5. \A g \in DOMAIN flows_ \cup {f} :
          StreamOf(flows_'[g]) = IF g = f THEN StreamOf(s) ELSE Streams[g]
  BY <1>3, <1>4, StreamsFacts
<1> QED BY <1>2, <1>3, <1>5, StreamsFacts DEF With

LEMMA CostsFacts ==
    ASSUME NEW job \in BOOLEAN,
           job_size_estimate' # kInvalidJobSize <=> job,
           job_size_actual' # kInvalidJobSize <=> job
    PROVE  Buffer!Costs(job)
<1>1. (job_size_estimate' # kInvalidJobSize) = job /\ (job_size_actual' # kInvalidJobSize) = job
  BY Zenon
<1> QED BY <1>1 DEF Buffer!Costs

(* A packet of a flow in progress that starts within the window.           *)
LEMMA ReceiveStep ==
    ASSUME FlowsOK, NEW p \in Packets, p.flow \in DOMAIN flows_,
           NEW s, s = flows_[p.flow], ~ IsSyn(s, p),
           p.psn <= s.next_psn_ + kReassemblyWindowSizeInBytes,
           NEW new, StreamOf(new) = Promised(s, p),
           SetFlow(p.flow, new) \/ (UNCHANGED flows_ /\ new = s),
           UNCHANGED aborted,
           NEW job \in BOOLEAN, job <=> ~ KeepsInOrder(s, p) /\ ~ IsDuplicate(s, p),
           Buffer!Costs(job)
    PROVE  Buffer!RBReceive(p)
<1> DEFINE f == p.flow
<1>1. /\ DOMAIN Streams = DOMAIN flows_ /\ Streams[f] = StreamOf(s)
      /\ Streams[f].next = s.next_psn_ /\ Streams[f].held = Held(s.ooo_list_)
  BY StreamsFacts
<1>2. FlowOK(s) /\ s.next_psn_ \in Nat /\ p.psn \in Nat /\ p.next_psn \in Nat
  BY PacketFacts, SeqsFacts DEF FlowsOK, FlowOK
<1>3. Streams' = [Streams EXCEPT ![f] = Promised(s, p)]
  <2>1. Streams = [g \in DOMAIN Streams |-> Streams[g]]
    BY DEF Streams
  <2>2. CASE SetFlow(f, new)
    <3>1. Streams' = With(Streams, f, StreamOf(new))
      BY <2>2, SetFlowStreams
    <3>2. DOMAIN Streams \cup {f} = DOMAIN Streams
      BY <1>1
    <3> QED BY <2>1, <3>1, <3>2 DEF With
  <2>3. CASE UNCHANGED flows_ /\ new = s
    <3>1. Streams' = Streams
      BY <2>3 DEF Streams, StreamOf, Held
    <3> QED BY <1>1, <2>1, <2>3, <3>1
  <2> QED BY <2>2, <2>3
<1>4. ~ (p.syn \/ s.next_psn_ = 0)
  BY DEF IsSyn
<1>5. job <=> (Held(s.ooo_list_) # {} \/ p.psn > s.next_psn_) /\ p.next_psn > s.next_psn_
  <2>1. Held(s.ooo_list_) = {} <=> s.ooo_list_ = <<>>
    BY <1>2, HeldAhead
  <2>2. KeepsInOrder(s, p) <=> s.ooo_list_ = <<>> /\ ~ (p.psn > s.next_psn_)
    BY <1>2 DEF KeepsInOrder
  <2>3. IsDuplicate(s, p) <=> ~ (p.next_psn > s.next_psn_)
    BY <1>2 DEF IsDuplicate
  <2> QED BY <2>1, <2>2, <2>3
<1>6. job = ((Held(s.ooo_list_) # {} \/ p.psn > s.next_psn_) /\ p.next_psn > s.next_psn_)
  BY <1>5, Zenon
<1>7. ~ Buffer!Opens(p)
  BY <1>1, <1>4 DEF Buffer!Opens, Buffer!Known, Buffer!Stream, Streams, StreamOf
<1>8. p.psn <= Buffer!Stream(p).next + kReassemblyWindowSizeInBytes
  BY <1>1 DEF Buffer!Stream, Streams, StreamOf
<1>9. Buffer!Stream(p) = Streams[f]
  BY DEF Buffer!Stream, Streams, StreamOf
<1>10. Buffer!Costs((Buffer!HoldsBytes(p) \/ Buffer!AheadOfNext(p)) /\ p.next_psn > Buffer!Stream(p).next)
  <2>1. Buffer!HoldsBytes(p) <=> Held(s.ooo_list_) # {}
    BY <1>1, <1>9 DEF Buffer!HoldsBytes, Buffer!Known, Streams, StreamOf
  <2>2. Buffer!AheadOfNext(p) <=> p.psn > s.next_psn_
    BY <1>1, <1>9 DEF Buffer!AheadOfNext
  <2>3. ((Buffer!HoldsBytes(p) \/ Buffer!AheadOfNext(p)) /\ p.next_psn > Buffer!Stream(p).next) = job
    BY <1>1, <1>5, <1>9, <2>1, <2>2, Zenon
  <2> QED BY <2>3
<1>11. {b \in Buffer!Stream(p).held \cup Buffer!Bytes(p) : b >= Buffer!Stream(p).next} = Got(s, p)
  BY <1>1, <1>9 DEF Got, Buffer!Bytes
<1> DEFINE got == {b \in Buffer!Stream(p).held \cup Buffer!Bytes(p) : b >= Buffer!Stream(p).next}
           n == Buffer!FirstMissing(Buffer!Stream(p).next, got)
<1>12. Streams' = [Streams EXCEPT ![f] = [next |-> n, held |-> {b \in got : b > n}]]
  <2>1. got = Got(s, p) /\ n = Buffer!FirstMissing(s.next_psn_, Got(s, p))
    BY <1>1, <1>9, <1>11
  <2> HIDE DEF got, n
  <2> QED BY <1>3, <2>1 DEF Promised
<1> QED BY <1>7, <1>8, <1>10, <1>12, Zenon DEF Buffer!RBReceive, Streams, StreamOf

LEMMA OpensFacts ==
    ASSUME FlowsOK, NEW p
    PROVE  /\ Buffer!Opens(p) <=> IsSyn(Flow(p.flow), p)
           /\ Buffer!HoldsBytes(p) <=> Flow(p.flow).ooo_list_ # <<>>
           /\ p.flow \in DOMAIN flows_ => Buffer!Stream(p) = StreamOf(Flow(p.flow))
           /\ ~ IsSyn(Flow(p.flow), p) => p.flow \in DOMAIN flows_
           /\ Flow(p.flow).ooo_list_ # <<>> => p.flow \in DOMAIN flows_
<1>1. CASE p.flow \in DOMAIN flows_
  <2>1. /\ Streams[p.flow].next = Flow(p.flow).next_psn_
        /\ Streams[p.flow].held = Held(Flow(p.flow).ooo_list_)
        /\ Streams[p.flow] = StreamOf(Flow(p.flow))
        /\ p.flow \in DOMAIN Streams /\ FlowOK(Flow(p.flow))
    BY <1>1, KnownFlowOK, StreamsFacts
  <2>2. Buffer!Stream(p) = Streams[p.flow] /\ Buffer!Known(p) = (p.flow \in DOMAIN Streams)
    BY Zenon DEF Buffer!Stream, Buffer!Known, Streams, StreamOf
  <2> QED BY <1>1, <2>1, <2>2, HeldAhead DEF Buffer!Opens, Buffer!HoldsBytes, IsSyn
<1>2. CASE p.flow \notin DOMAIN flows_
  <2>1. ~ Buffer!Known(p)
    BY <1>2 DEF Buffer!Known
  <2> QED BY <1>2, <2>1, KnownFlowOK DEF Buffer!Opens, Buffer!HoldsBytes, IsSyn
<1> QED BY <1>1, <1>2

LEMMA SynStep ==
    ASSUME FlowsOK, NEW p \in Packets, Syn(Flow(p.flow), p)
    PROVE  Buffer!RBOpen(p) \/ Buffer!RBRepeatedSyn(p)
<1> DEFINE s == Flow(p.flow)
<1>1. FlowOK(s) /\ IsSyn(s, p) /\ p.next_psn \in Seqs /\ Estimate(p) = kInvalidJobSize
  BY KnownFlowOK, PacketFacts, EstimateFacts DEF Syn
<1>2. kInvalidJobSize \in JobSizes
  BY DEF JobSizes
<1>3. Answer(Estimate(p), kInvalidJobSize) => Buffer!Costs(FALSE) /\ UNCHANGED aborted
  BY <1>1, <1>2, AnswerFacts, CostsFacts DEF Answer
<1>4. CASE s.ooo_list_ = <<>>
  <2>1. SetFlow(p.flow, [s EXCEPT !.next_psn_ = p.next_psn]) /\ Answer(Estimate(p), kInvalidJobSize)
    BY <1>4 DEF Syn
  <2>2. /\ FlowOK([s EXCEPT !.next_psn_ = p.next_psn])
        /\ [s EXCEPT !.next_psn_ = p.next_psn] = [next_psn_ |-> p.next_psn, ooo_list_ |-> <<>>]
    BY <1>1, <1>4, AdvancedFlow
  <2>3. Held(<<>>) = {}
    BY <1>1, <1>4, HeldAhead
  <2>4. StreamOf([s EXCEPT !.next_psn_ = p.next_psn]) = [next |-> p.next_psn, held |-> {}]
    BY <2>2, <2>3 DEF StreamOf
  <2>5. Streams' = With(Streams, p.flow, [next |-> p.next_psn, held |-> {}])
    BY <2>1, <2>4, SetFlowStreams
  <2>6. Buffer!Opens(p) /\ ~ Buffer!HoldsBytes(p)
    BY <1>1, <1>4, OpensFacts
  <2> QED BY <1>3, <2>1, <2>5, <2>6, Zenon DEF Buffer!RBOpen, With, Streams, StreamOf
<1>5. CASE s.ooo_list_ # <<>>
  <2>1. Buffer!Opens(p) /\ Buffer!HoldsBytes(p) /\ Buffer!Stream(p).next = s.next_psn_
    BY <1>1, <1>5, OpensFacts DEF StreamOf
  <2>2. Streams' = Streams
    BY <1>5 DEF Syn, Streams, StreamOf, Held
  <2>3. /\ p.next_psn <= s.next_psn_ => Answer(Estimate(p), kInvalidJobSize)
        /\ ~ (p.next_psn <= s.next_psn_) =>
                aborted' = TRUE /\ UNCHANGED <<job_size_estimate, job_size_actual>>
    BY <1>5 DEF Syn
  <2> QED BY <1>3, <2>1, <2>2, <2>3 DEF Buffer!RBRepeatedSyn, Streams, StreamOf
<1> QED BY <1>4, <1>5

LEMMA InOrderStep ==
    ASSUME FlowsOK, NEW p \in Packets, InOrder(Flow(p.flow), p)
    PROVE  Buffer!RBReceive(p)
<1> DEFINE s == Flow(p.flow)
           new == [s EXCEPT !.next_psn_ = Larger(s.next_psn_, p.next_psn)]
<1>1. /\ FlowOK(s) /\ ~ IsSyn(s, p) /\ KeepsInOrder(s, p) /\ Estimate(p) = kInvalidJobSize
      /\ p.flow \in DOMAIN flows_ /\ s = flows_[p.flow]
      /\ SetFlow(p.flow, new) /\ Answer(Estimate(p), kInvalidJobSize)
  BY KnownFlowOK, EstimateFacts, OpensFacts DEF InOrder
<1>2. s.ooo_list_ = <<>> /\ s.next_psn_ >= p.psn
  BY <1>1 DEF KeepsInOrder
<1>3. StreamOf(new) = Promised(s, p)
  BY <1>1, <1>2, InOrderKept
<1>4. Buffer!Costs(FALSE) /\ UNCHANGED aborted
  <2>1. kInvalidJobSize \in JobSizes
    BY DEF JobSizes
  <2> QED BY <1>1, <2>1, AnswerFacts, CostsFacts DEF Answer
<1>5. p.psn <= s.next_psn_ + kReassemblyWindowSizeInBytes
  <2>1. p.psn \in Nat /\ s.next_psn_ \in Nat /\ kReassemblyWindowSizeInBytes \in Nat
    BY <1>1, ModulusFacts, PacketFacts, SeqsFacts DEF FlowOK
  <2> QED BY <1>2, <2>1
<1> HIDE DEF s, new
<1> QED BY <1>1, <1>3, <1>4, <1>5, ReceiveStep

LEMMA DropStep ==
    ASSUME FlowsOK, NEW p \in Packets, Drop(Flow(p.flow), p)
    PROVE  Buffer!RBDrop(p) \/ Buffer!RBReceive(p)
<1> DEFINE s == Flow(p.flow)
           N == s.next_psn_
           W == kReassemblyWindowSizeInBytes
           M == 2 ^ SeqBits
<1>1. /\ FlowOK(s) /\ ~ IsSyn(s, p) /\ ~ KeepsInOrder(s, p) /\ Estimate(p) = kInvalidJobSize
      /\ p.flow \in DOMAIN flows_ /\ s = flows_[p.flow]
      /\ PastWindow(s, p) \/ IsDuplicate(s, p)
      /\ UNCHANGED flows_ /\ Answer(Estimate(p), kInvalidJobSize)
  BY KnownFlowOK, EstimateFacts, OpensFacts DEF Drop
<1>2. Buffer!Costs(FALSE) /\ UNCHANGED aborted
  <2>1. kInvalidJobSize \in JobSizes
    BY DEF JobSizes
  <2> QED BY <1>1, <2>1, AnswerFacts, CostsFacts DEF Answer
<1>3. N \in Seqs /\ N \in Nat /\ p.psn \in Nat /\ W \in Nat /\ M \in Nat /\ W < M
  BY <1>1, ModulusFacts, PacketFacts, SeqsFacts DEF FlowOK
<1>4. (N + W) % M = IF N + W < M THEN N + W ELSE N + W - M
  BY <1>3, WrapFacts
<1>5. PastWindow(s, p) <=> p.psn > (N + W) % M
  BY DEF PastWindow
<1>6. Buffer!Stream(p) = StreamOf(s) /\ Buffer!Stream(p).next = N
  BY <1>1, OpensFacts DEF StreamOf
<1>7. CASE PastWindow(s, p)
  <2>1. p.psn > N + W \/ N + W > M - 1
    <3> HIDE DEF N, W, M
    <3> QED BY <1>3, <1>4, <1>5, <1>7
  <2>2. ~ Buffer!Opens(p)
    BY <1>1, OpensFacts
  <2>3. Buffer!HoldsBytes(p) \/ Buffer!AheadOfNext(p)
    <3>1. s.ooo_list_ # <<>> \/ p.psn > N
      BY <1>1, <1>3 DEF KeepsInOrder
    <3> QED BY <1>6, <3>1, OpensFacts DEF Buffer!AheadOfNext
  <2>4. Streams' = Streams
    BY <1>1 DEF Streams, StreamOf, Held
  <2> QED BY <1>2, <1>6, <2>1, <2>2, <2>3, <2>4 DEF Buffer!RBDrop, Streams, StreamOf
<1>8. CASE ~ PastWindow(s, p)
  <2>1. IsDuplicate(s, p)
    BY <1>1, <1>8
  <2>2. p.psn <= N + W
    <3> HIDE DEF N, W, M
    <3> QED BY <1>3, <1>4, <1>5, <1>8
  <2>3. StreamOf(s) = Promised(s, p)
    BY <1>1, <2>1, DuplicateKept
  <2> HIDE DEF s
  <2> QED BY <1>1, <1>2, <2>1, <2>2, <2>3, ReceiveStep
<1> QED BY <1>7, <1>8

LEMMA ReassembleReceives ==
    ASSUME FlowsOK, NEW p \in Packets, p.psn # p.next_psn, Reassemble(Flow(p.flow), p)
    PROVE  Buffer!RBReceive(p)
<1> DEFINE s == Flow(p.flow)
           N == s.next_psn_
           W == kReassemblyWindowSizeInBytes
           M == 2 ^ SeqBits
           list == Inserted(s, p, NewBytes(s, p))
           new == [next_psn_ |-> NextAfter(list, N), ooo_list_ |-> Rest(list, N)]
<1>1. /\ ~ IsSyn(s, p) /\ ~ KeepsInOrder(s, p) /\ ~ PastWindow(s, p) /\ ~ IsDuplicate(s, p)
      /\ p.flow \in DOMAIN flows_ /\ s = flows_[p.flow]
      /\ Estimate(p) \in JobSizes /\ Estimate(p) # kInvalidJobSize
  BY KnownFlowOK, EstimateFacts, OpensFacts DEF Reassemble
<1>2. /\ FlowOK(s) /\ BringsData(s, p) /\ FlowOK(new) /\ SetFlow(p.flow, new)
      /\ \E n \in Nat : Answer(Estimate(p), toServiceTime(n))
  BY ReassembleStep
<1>3. StreamOf(new) = Promised(s, p)
  BY <1>2, ReassembledKept
<1>4. Buffer!Costs(TRUE) /\ UNCHANGED aborted
  <2>1. PICK n \in Nat : Answer(Estimate(p), toServiceTime(n))
    BY <1>2
  <2>2. toServiceTime(n) \in JobSizes /\ toServiceTime(n) # kInvalidJobSize
    BY ServiceTimeFacts
  <2> QED BY <1>1, <2>1, <2>2, AnswerFacts, CostsFacts DEF Answer
<1>5. p.psn <= N + W
  <2>1. N \in Seqs /\ N \in Nat /\ p.psn \in Nat /\ W \in Nat /\ M \in Nat /\ W < M
    BY <1>2, ModulusFacts, PacketFacts, SeqsFacts DEF FlowOK
  <2>2. (N + W) % M = IF N + W < M THEN N + W ELSE N + W - M
    BY <2>1, WrapFacts
  <2>3. ~ (p.psn > (N + W) % M)
    BY <1>1 DEF PastWindow
  <2> HIDE DEF N, W, M
  <2> QED BY <2>1, <2>2, <2>3
<1> HIDE DEF s, new, list
<1> QED BY <1>1, <1>2, <1>3, <1>4, <1>5, ReceiveStep DEF s

(* Every step of the application is one of the buffer, or none.            *)
LEMMA BufferStep == IInv /\ [Next]_vars => [Buffer!RBNext]_(Buffer!rbVars)
<1> SUFFICES ASSUME IInv, [Next]_vars PROVE [Buffer!RBNext]_(Buffer!rbVars)
  OBVIOUS
<1>1. CASE UNCHANGED vars
  <2>1. UNCHANGED <<flows_, packet, job_size_estimate, job_size_actual, aborted>>
    BY <1>1 DEF vars
  <2> QED BY <2>1 DEF Buffer!rbVars, Held
<1>2. CASE Aborted
  BY <1>1, <1>2 DEF Aborted
<1>3. ASSUME NEW p \in Packets, packet' = p, UNCHANGED use_heuristic,
             Attack(p) \/ Ignore(p) \/ FinOrRst(p) \/ process(p)
      PROVE  Buffer!RBNext
  <2>1. FlowsOK /\ packet' # <<>> /\ kInvalidJobSize \in JobSizes
    BY <1>3, PacketFacts DEF IInv, JobSizes
  <2>2. UNCHANGED flows_ => Streams' = Streams
    BY DEF Streams, StreamOf, Held
  <2>3. CASE Attack(p)
    <3>1. Buffer!Costs(TRUE)
      <4>1. AttackJobSize # kInvalidJobSize
        BY AttackAssumption DEF kInvalidJobSize
      <4> QED BY <2>3, <4>1, CostsFacts DEF Attack
    <3>2. p.kind = "ATTACK" /\ Streams' = Streams /\ UNCHANGED aborted
      BY <2>2, <2>3 DEF Attack
    <3>3. (p.kind = "ATTACK") = TRUE
      BY <3>2
    <3>4. Buffer!RBIgnore(p)
      BY <3>1, <3>2, <3>3 DEF Buffer!RBIgnore, Streams, StreamOf
    <3> QED BY <1>3, <2>1, <3>4 DEF Buffer!RBNext
  <2>4. CASE Ignore(p)
    <3>1. Buffer!Costs(FALSE)
      BY <2>1, <2>4, AnswerFacts, CostsFacts DEF Ignore
    <3>2. /\ p.kind = "INNOCENT" /\ (~ p.is_tcp \/ p.psn = p.next_psn)
          /\ Streams' = Streams /\ UNCHANGED aborted
      BY <2>2, <2>4 DEF Ignore, Answer
    <3>3. (p.kind = "ATTACK") = FALSE
      BY <3>2
    <3>4. Buffer!RBIgnore(p)
      BY <3>1, <3>2, <3>3 DEF Buffer!RBIgnore, Streams, StreamOf
    <3> QED BY <1>3, <2>1, <3>4 DEF Buffer!RBNext
  <2>5. CASE FinOrRst(p)
    <3>1. Answer(kInvalidJobSize, kInvalidJobSize) /\ UNCHANGED aborted
      BY <2>5 DEF FinOrRst, Answer
    <3>2. Buffer!Costs(FALSE)
      BY <2>1, <3>1, AnswerFacts, CostsFacts
    <3>3. flows_' = [f \in DOMAIN flows_ \ {p.flow} |-> flows_[f]]
      BY <2>5 DEF FinOrRst
    <3>4. /\ DOMAIN flows_' = DOMAIN flows_ \ {p.flow}
          /\ \A f \in DOMAIN flows_' : flows_'[f] = flows_[f]
      BY <3>3
    <3>5. Streams' = [f \in DOMAIN Streams \ {p.flow} |-> Streams[f]]
      <4>1. Streams' = [f \in DOMAIN flows_' |-> StreamOf(flows_'[f])]
        BY DEF Streams, StreamOf, Held
      <4> HIDE DEF Streams, StreamOf
      <4> QED BY <3>4, <4>1, StreamsFacts
    <3>6. Buffer!RBClose(p)
      BY <2>5, <3>1, <3>2, <3>5, Zenon DEF Buffer!RBClose, FinOrRst, Streams, StreamOf
    <3> QED BY <1>3, <2>1, <3>6 DEF Buffer!RBNext
  <2>6. CASE process(p)
    <3>1. p.kind = "INNOCENT" /\ p.is_tcp /\ ~ p.fin /\ p.psn # p.next_psn
      BY <2>6 DEF process
    <3>2. Buffer!RBOpen(p) \/ Buffer!RBRepeatedSyn(p) \/ Buffer!RBDrop(p) \/ Buffer!RBReceive(p)
      BY <2>1, <2>6, <3>1, SynStep, InOrderStep, DropStep, ReassembleReceives DEF process
    <3>3. Buffer!RBData(p)
      BY <3>1, <3>2 DEF Buffer!RBData
    <3> QED BY <1>3, <2>1, <3>3 DEF Buffer!RBNext
  <2> QED BY <1>3, <2>3, <2>4, <2>5, <2>6
<1>4. CASE Arrive
  BY <1>3, <1>4 DEF Arrive
<1> QED BY <1>1, <1>2, <1>4 DEF Next

LEMMA BufferInit == Init => Buffer!RBInit
<1> SUFFICES ASSUME Init PROVE Buffer!RBInit
  OBVIOUS
<1>1. DOMAIN flows_ = {}
  BY DEF Init
<1>2. [f \in DOMAIN flows_ |-> [next |-> flows_[f].next_psn_, held |-> Held(flows_[f].ooo_list_)]] = <<>>
  BY <1>1
<1> QED BY <1>2 DEF Init, Buffer!RBInit

(* The list is the set of bytes ReassemblyBuffer promises, the stream goes *)
(* on up to the first missing byte, and there is an estimate exactly when  *)
(* there is a job: for every window, width and sequence of packets.        *)
THEOREM ReassemblyRefinement == Spec => RefinesReassemblyBuffer
BY ReassemblyInvariant, BufferInit, BufferStep, PTL
    DEF Spec, RefinesReassemblyBuffer, Buffer!RBSpec
=============================================================================
