------------------------- MODULE UdtTransfer_proofs -------------------------
(***************************************************************************)
(* Proofs about UdtTransfer, for every size of the buffers, of the payload *)
(* and of reads and writes, wherever the sequence numbers wrap around, and *)
(* for every loss, repetition and reordering of packets.                   *)
(*                                                                         *)
(* The numbers in use are fewer than the threshold of the comparison, so   *)
(* that each stands for one index: N(i) is the number of the i-th block    *)
(* written.  The invariant says it with the indices: which blocks are      *)
(* written, sent, acknowledged and read, and where each begins in the      *)
(* stream (F).  A position of the receive buffer is an index modulo its    *)
(* size, and the capacity test of processData() keeps the indices in use   *)
(* less than a turn apart, even though readBuffer() frees the places of    *)
(* what it has read only at its end.                                       *)
(***************************************************************************)
EXTENDS UdtTransfer, SequenceTheorems, FiniteSetTheorems,
        WellFoundedInduction, TLAPS

-----------------------------------------------------------------------------
(* The arithmetic of sequence numbers on the circle, for every size of it: what the loss
   lists and the buffers rely on across the wrap-around. *)

\* The number n steps after a number, for fewer steps than the threshold,
\* is a number; it lies ahead without wrapping or behind with it.
LEMMA AheadOrWrapped ==
    ASSUME NEW a \in SeqNo, NEW n \in 0 .. SeqNoTH - 1
    PROVE  /\ incseqBy(a, n) \in SeqNo
           /\ \/ incseqBy(a, n) = a + n
              \/ incseqBy(a, n) = a + n - MaxSeqNo - 1 /\ a + n > MaxSeqNo
<1>1. CASE MaxSeqNo - a >= n
  BY <1>1, SeqNoAssumption DEF incseqBy, SeqNo
<1>2. CASE ~(MaxSeqNo - a >= n)
  BY <1>2, SeqNoAssumption DEF incseqBy, SeqNo
<1> QED BY <1>1, <1>2

\* incseq() and decseq() undo each other and stay on the circle
\* (common.hpp, CSeqNo), the number after the last and before the first
\* included.
THEOREM SeqNoSteps ==
    ASSUME NEW a \in SeqNo
    PROVE  /\ incseq(a) \in SeqNo /\ decseq(a) \in SeqNo
           /\ decseq(incseq(a)) = a /\ incseq(decseq(a)) = a
BY SeqNoAssumption DEF incseq, decseq, SeqNo

\* seqoff() and seqlen() recover how far incseq(a, n) went, wherever the
\* wrap-around falls, for every distance below the threshold: the offsets of
\* the loss lists and the buffers are exact there.
THEOREM SeqNoOffsets ==
    ASSUME NEW a \in SeqNo, NEW n \in 0 .. SeqNoTH - 1
    PROVE  /\ seqoff(a, incseqBy(a, n)) = n
           /\ seqoff(incseqBy(a, n), a) = -n
           /\ seqlen(a, incseqBy(a, n)) = n + 1
<1> DEFINE b == incseqBy(a, n)
<1>1. CASE b = a + n
  BY <1>1, SeqNoAssumption DEF seqoff, seqlen, Distance, SeqNo
<1>2. CASE b = a + n - MaxSeqNo - 1 /\ a + n > MaxSeqNo
  <2>1. a > b /\ a - b = MaxSeqNo + 1 - n /\ a - b >= SeqNoTH
    BY <1>2, SeqNoAssumption DEF SeqNo
  <2>2. Distance(a, b) = a - b /\ Distance(b, a) = a - b
    BY <2>1, SeqNoAssumption, <1>2 DEF Distance, SeqNo
  <2> QED BY <2>1, <2>2, <1>2, SeqNoAssumption DEF seqoff, seqlen, SeqNo
<1> QED BY <1>1, <1>2, AheadOrWrapped

\* seqcmp() orders numbers that are fewer steps apart than the threshold as
\* they follow each other on the circle.
THEOREM SeqNoOrder ==
    ASSUME NEW a \in SeqNo, NEW n \in 1 .. SeqNoTH - 1
    PROVE  /\ seqcmp(incseqBy(a, n), a) > 0
           /\ seqcmp(a, incseqBy(a, n)) < 0
<1> DEFINE b == incseqBy(a, n)
<1>0. n \in 0 .. SeqNoTH - 1
  BY SeqNoAssumption
<1>1. CASE b = a + n
  BY <1>1, SeqNoAssumption DEF seqcmp, Distance, SeqNo
<1>2. CASE b = a + n - MaxSeqNo - 1 /\ a + n > MaxSeqNo
  <2>1. a > b /\ a - b = MaxSeqNo + 1 - n /\ a - b >= SeqNoTH
    BY <1>2, SeqNoAssumption DEF SeqNo
  <2>2. Distance(a, b) = a - b /\ Distance(b, a) = a - b
    BY <2>1, SeqNoAssumption, <1>2 DEF Distance, SeqNo
  <2> QED BY <2>1, <2>2, <1>2, SeqNoAssumption DEF seqcmp, SeqNo
<1> QED BY <1>0, <1>1, <1>2, AheadOrWrapped

-----------------------------------------------------------------------------
(* The inductive invariant *)

N(i) == incseqBy(Isn, i)
Prev(i) == IF i = 0 THEN Isn - 1 ELSE N(i - 1)
Num(lo, hi) == {N(i) : i \in lo .. hi}
Ind == 0 .. MaxBytes

(* The indices the invariant speaks of:
     n   blocks written
     c   sent
     a   acknowledged, as m_iSndLastAck knows
     d   and taken off the send buffer
     r   up to the highest number received
     k   acknowledged by the receiver
     h   read
     f   whose places are free
     l   where the reading ends at the latest
     s   is the size of the receive buffer, and F[i] where the i-th block begins in the stream. *)
Blk(F, i) == [from |-> F[i], len |-> F[i + 1] - F[i]]

Stream(n, F) ==
    /\ written \in Nat /\ written <= MaxBytes /\ n <= written
    /\ F \in [0 .. n -> Nat] /\ F[0] = 1 /\ F[n] = written + 1
    /\ \A i, j \in 0 .. n : i < j => F[i] < F[j]

Sender(n, c, a, d, F) ==
    /\ d <= a /\ a <= c /\ c <= n
    /\ sndCurr = Prev(c) /\ sndLastAck = N(a) /\ sndLastDataAck = N(d)
    /\ sndBuf \in Seq([from : Nat, len : Nat]) /\ Len(sndBuf) = n - d
    /\ \A j \in 1 .. n - d : sndBuf[j] = Blk(F, d + j - 1)
    /\ sent = c - d
    /\ sndLoss \subseteq Num(d, c - 1)
    /\ taken = None \/ taken \in Num(0, c - 1)

Receiver(c, r, k, h, f, s) ==
    /\ k <= r /\ r <= c
    /\ f <= h /\ h <= k /\ r <= f + s - 1
    /\ rcvCurr = Prev(r) /\ rcvLastAck = N(k)
    /\ rcvLoss \subseteq Num(k, r - 1)
    /\ start = f % s /\ lastPos = k % s

(* What a place of the receive buffer holds, by its index. *)
Held(r, F, i) == IF i < r /\ N(i) \notin rcvLoss THEN Blk(F, i) ELSE Nothing

Buffer(r, h, s, F) ==
    /\ DOMAIN units = 0 .. s - 1 /\ units = [p \in 0 .. s - 1 |-> units[p]]
    /\ \A i \in h .. h + s - 1 : units[i % s] = Held(r, F, i)

Application(k, h, f, l, s, F) ==
    /\ notch \in Nat /\ (notch # 0 => h < k /\ notch < F[h + 1] - F[h])
    /\ read \in Seq(Nat) /\ Len(read) = F[h] - 1 + notch
    /\ \A i \in 1 .. Len(read) : read[i] = i
    /\ reading = NotReading => h = f
    /\ reading # NotReading =>
          /\ h <= l /\ l <= k
          /\ reading.left \in Nat
          /\ reading = [pos |-> h % s, left |-> reading.left, last |-> l % s]

(* What may be in flight. *)
Packet(p, c, r, k, F) ==
    \/ \E j \in 0 .. c - 1 : p = Data(N(j), Blk(F, j))
    \/ \E j \in 0 .. k, w \in Int : p = Ack(N(j), w)
    \/ \E j \in 0 .. r : p = LiteAck(N(j))
    \/ \E j \in 0 .. k : p = Ack2(N(j))
    \/ \E i, j \in 0 .. r - 1 : i <= j /\ p = LossReport(N(i), N(j))
    \/ \E e \in {"s", "r"} : p = KeepAlive(e)

Flight(c, r, k, F) == \A p \in net : Packet(p, c, r, k, F)

Sound(n, c, a, d, r, k, h, f, l, s, F) ==
    /\ s > 1 /\ Stream(n, F) /\ Sender(n, c, a, d, F) /\ Receiver(c, r, k, h, f, s)
    /\ Buffer(r, h, s, F) /\ Application(k, h, f, l, s, F) /\ Flight(c, r, k, F)

Inv == \E n, c, a, d, r, k, h, f, l, s \in Nat : \E F : Sound(n, c, a, d, r, k, h, f, l, s, F)

-----------------------------------------------------------------------------
(* Sequence numbers and their indices *)

LEMMA Consts ==
    /\ SeqNoTH \in Nat \ {0} /\ MaxSeqNo = 2 * SeqNoTH + 1 /\ MaxSeqNo \in Nat
    /\ Isn \in SeqNo /\ Isn \in Nat /\ MaxBytes \in Nat /\ MaxBytes < SeqNoTH
    /\ Payload \in Nat \ {0}
BY SeqNoAssumption, TransferAssumption DEF SeqNo

(* N(i) lies i steps after the first number, with the wrap-around or without it. *)
LEMMA NumPlace ==
    ASSUME NEW i \in Ind
    PROVE  /\ N(i) \in SeqNo /\ N(i) \in Nat
           /\ \/ N(i) = Isn + i /\ Isn + i <= MaxSeqNo
              \/ N(i) = Isn + i - MaxSeqNo - 1 /\ Isn + i > MaxSeqNo
<1>1. i \in 0 .. SeqNoTH - 1 /\ i \in Nat
    BY Consts DEF Ind
<1>2. N(i) \in SeqNo
    BY <1>1, Consts, AheadOrWrapped DEF N
<1>3. CASE MaxSeqNo - Isn >= i
    BY <1>1, <1>2, <1>3, Consts DEF N, incseqBy, SeqNo
<1>4. CASE ~(MaxSeqNo - Isn >= i)
    BY <1>1, <1>2, <1>4, Consts DEF N, incseqBy, SeqNo
<1> QED  BY <1>3, <1>4

(* The offset of two numbers is the difference of their indices, and the comparison orders
   them as the indices. *)
LEMMA NumOff ==
    ASSUME NEW i \in Ind, NEW j \in Ind
    PROVE  /\ seqoff(N(i), N(j)) = j - i
           /\ (seqcmp(N(i), N(j)) >= 0 <=> i >= j) /\ (seqcmp(N(i), N(j)) <= 0 <=> i <= j)
           /\ (seqcmp(N(i), N(j)) > 0 <=> i > j)
           /\ N(i) = N(j) => i = j
<1>1. i \in Nat /\ j \in Nat /\ i <= MaxBytes /\ j <= MaxBytes
    BY Consts DEF Ind
<1>2. PICK a \in Nat : a = N(i) /\ (a = Isn + i \/ (a = Isn + i - MaxSeqNo - 1 /\ Isn + i > MaxSeqNo)) /\ a <= MaxSeqNo
    BY NumPlace, Consts DEF SeqNo
<1>3. PICK b \in Nat : b = N(j) /\ (b = Isn + j \/ (b = Isn + j - MaxSeqNo - 1 /\ Isn + j > MaxSeqNo)) /\ b <= MaxSeqNo
    BY NumPlace, Consts DEF SeqNo
<1>4. CASE a = Isn + i /\ b = Isn + j
    BY <1>1, <1>2, <1>3, <1>4, Consts DEF seqoff, seqcmp, Distance
<1>5. CASE a = Isn + i - MaxSeqNo - 1 /\ b = Isn + j - MaxSeqNo - 1
    BY <1>1, <1>2, <1>3, <1>5, Consts DEF seqoff, seqcmp, Distance
<1>6. CASE a = Isn + i /\ b = Isn + j - MaxSeqNo - 1 /\ Isn + j > MaxSeqNo
    <2>1. a - b = MaxSeqNo + 1 - (j - i) /\ j - i < SeqNoTH /\ a > b /\ a - b >= SeqNoTH /\ j > i
        BY <1>1, <1>2, <1>3, <1>6, Consts
    <2> QED  BY <1>1, <1>2, <1>3, <2>1, Consts DEF seqoff, seqcmp, Distance
<1>7. CASE a = Isn + i - MaxSeqNo - 1 /\ b = Isn + j /\ Isn + i > MaxSeqNo
    <2>1. b - a = MaxSeqNo + 1 - (i - j) /\ i - j < SeqNoTH /\ b > a /\ b - a >= SeqNoTH /\ i > j
        BY <1>1, <1>2, <1>3, <1>7, Consts
    <2> QED  BY <1>1, <1>2, <1>3, <2>1, Consts DEF seqoff, seqcmp, Distance
<1> QED  BY <1>2, <1>3, <1>4, <1>5, <1>6, <1>7

LEMMA NumStep ==
    ASSUME NEW i \in Ind
    PROVE  /\ incseq(Prev(i)) = N(i) /\ N(0) = Isn
           /\ i + 1 \in Ind => incseq(N(i)) = N(i + 1) /\ Prev(i + 1) = N(i)
           /\ i > 0 => decseq(N(i)) = N(i - 1) /\ Prev(i) = N(i - 1)
<1>1. i \in Nat /\ i <= MaxBytes
    BY Consts DEF Ind
<1>2. N(0) = Isn
    BY Consts DEF N, incseqBy, SeqNo
<1>3. ASSUME NEW j \in Ind, j + 1 \in Ind PROVE incseq(N(j)) = N(j + 1) /\ decseq(N(j + 1)) = N(j)
    <2>1. j \in Nat /\ j + 1 <= MaxBytes
        BY <1>3, Consts DEF Ind
    <2>2. PICK a \in Nat : /\ a = N(j)
                           /\ \/ a = Isn + j /\ Isn + j <= MaxSeqNo
                              \/ a = Isn + j - MaxSeqNo - 1 /\ Isn + j > MaxSeqNo
        BY NumPlace
    <2>3. PICK b \in Nat : /\ b = N(j + 1)
                           /\ \/ b = Isn + (j + 1) /\ Isn + (j + 1) <= MaxSeqNo
                              \/ b = Isn + (j + 1) - MaxSeqNo - 1 /\ Isn + (j + 1) > MaxSeqNo
        BY <1>3, NumPlace
    <2>4. incseq(a) = b
        <3>1. CASE a = MaxSeqNo
            BY <2>1, <2>2, <2>3, <3>1, Consts DEF incseq, SeqNo
        <3>2. CASE a # MaxSeqNo
            BY <2>1, <2>2, <2>3, <3>2, Consts DEF incseq
        <3> QED  BY <3>1, <3>2
    <2>5. decseq(b) = a
        BY <2>2, <2>4, NumPlace, SeqNoSteps
    <2> QED  BY <2>2, <2>3, <2>4, <2>5
<1>4. CASE i = 0
    <2>1. Prev(i) = Isn - 1 /\ incseq(Isn - 1) = Isn
        BY <1>4, Consts DEF Prev, incseq, SeqNo
    <2>2. i + 1 \in Ind => Prev(i + 1) = N(i)
        BY <1>1 DEF Prev
    <2> QED  BY <1>2, <1>3, <1>4, <2>1, <2>2
<1>5. CASE i > 0
    <2>1. PICK j \in Ind : i = j + 1 /\ j = i - 1
        BY <1>1, <1>5, Consts DEF Ind
    <2>2. Prev(i) = N(j)
        BY <1>5, <2>1 DEF Prev
    <2>3. incseq(N(j)) = N(i) /\ decseq(N(i)) = N(j)
        BY <1>3, <2>1
    <2>4. i + 1 \in Ind => Prev(i + 1) = N(i)
        BY <1>1 DEF Prev
    <2> QED  BY <1>2, <1>3, <2>1, <2>2, <2>3, <2>4
<1> QED  BY <1>1, <1>4, <1>5

(* The number before the first is before all: it may be -1, which is no sequence number. *)
LEMMA NumAfterPrev ==
    ASSUME NEW j \in Ind, j < MaxBytes, NEW i \in Ind
    PROVE  seqcmp(N(j), Prev(i)) > 0 <=> j >= i
<1>1. i \in Nat /\ j \in Nat /\ i <= MaxBytes
    BY Consts DEF Ind
<1>2. CASE i > 0
    <2>1. i - 1 \in Ind
        BY <1>1, <1>2, Consts DEF Ind
    <2>2. Prev(i) = N(i - 1)
        BY <1>2 DEF Prev
    <2>3. seqcmp(N(j), N(i - 1)) > 0 <=> j > i - 1
        BY <2>1, NumOff
    <2> QED  BY <1>1, <2>2, <2>3
<1>3. CASE i = 0
    <2>1. PICK a \in Nat : a = N(j) /\ (a = Isn + j \/ (a = Isn + j - MaxSeqNo - 1 /\ Isn + j > MaxSeqNo))
        BY NumPlace
    <2>2. CASE a = Isn + j
        <3>1. seqcmp(a, Isn - 1) = j + 1
            BY <1>1, <2>2, Consts DEF seqcmp, Distance
        <3> QED  BY <1>1, <1>3, <2>1, <3>1 DEF Prev
    <2>3. CASE a = Isn + j - MaxSeqNo - 1 /\ Isn + j > MaxSeqNo
        <3>1. Isn - 1 > a /\ Isn - 1 - a = MaxSeqNo - j /\ MaxSeqNo - j >= SeqNoTH
            BY <1>1, <2>3, Consts
        <3>2. seqcmp(a, Isn - 1) = MaxSeqNo - j
            BY <1>1, <3>1, Consts DEF seqcmp, Distance
        <3> QED  BY <1>1, <1>3, <2>1, <3>1, <3>2, Consts DEF Prev
    <2> QED  BY <2>1, <2>2, <2>3
<1> QED  BY <1>1, <1>2, <1>3

(* The numbers from one to another are those of the indices between them. *)
LEMMA NumRange ==
    ASSUME NEW i \in Ind, NEW j \in Ind, i <= j
    PROVE  Numbers(N(i), N(j)) = Num(i, j)
<1>1. i \in Nat /\ j \in Nat /\ j <= MaxBytes
    BY Consts DEF Ind
<1>2. ASSUME NEW n \in 0 .. j - i PROVE incseqBy(N(i), n) = N(i + n)
    <2>1. n \in Nat /\ i + n \in Ind
        BY <1>1, Consts DEF Ind
    <2>2. PICK a \in Nat : /\ a = N(i)
                           /\ \/ a = Isn + i /\ Isn + i <= MaxSeqNo
                              \/ a = Isn + i - MaxSeqNo - 1 /\ Isn + i > MaxSeqNo
        BY NumPlace
    <2>3. PICK b \in Nat : /\ b = N(i + n)
                           /\ \/ b = Isn + (i + n) /\ Isn + (i + n) <= MaxSeqNo
                              \/ b = Isn + (i + n) - MaxSeqNo - 1 /\ Isn + (i + n) > MaxSeqNo
        BY <2>1, NumPlace
    <2>4. Isn + (i + n) <= MaxSeqNo + SeqNoTH /\ Isn <= MaxSeqNo
        BY <1>1, <2>1, Consts DEF Ind, SeqNo
    <2>5. incseqBy(a, n) = b
        BY <1>1, <2>1, <2>2, <2>3, <2>4, Consts DEF incseqBy
    <2> QED  BY <2>2, <2>3, <2>5
<1>3. seqlen(N(i), N(j)) = j - i + 1
    <2>1. j - i \in 0 .. SeqNoTH - 1 /\ j - i \in 0 .. j - i /\ i + (j - i) = j
        BY <1>1, Consts
    <2>2. N(j) = incseqBy(N(i), j - i)
        BY <1>2, <2>1
    <2> QED  BY <2>1, <2>2, NumPlace, SeqNoOffsets
<1>4. \A m \in i .. j : m - i \in 0 .. j - i /\ i + (m - i) = m
    BY <1>1
<1>5. \A n \in 0 .. j - i : i + n \in i .. j
    BY <1>1
<1>6. 0 .. seqlen(N(i), N(j)) - 1 = 0 .. j - i
    BY <1>1, <1>3
<1>7. Numbers(N(i), N(j)) = {incseqBy(N(i), n) : n \in 0 .. j - i}
    BY <1>6 DEF Numbers
<1>8. Numbers(N(i), N(j)) = {N(i + n) : n \in 0 .. j - i}
    BY <1>2, <1>7
<1> QED  BY <1>4, <1>5, <1>8 DEF Num

(* First() of numbers in use is the one with the least index. *)
LEMMA NumFirst ==
    ASSUME NEW lo \in Ind, NEW hi \in Int, hi <= MaxBytes, NEW T \in SUBSET Num(lo, hi), T # {}
    PROVE  \E q \in lo .. hi : /\ First(T) = N(q) /\ N(q) \in T
                               /\ \A i \in lo .. hi : i < q => N(i) \notin T
<1> DEFINE J == {i \in lo .. hi : N(i) \in T}
<1>1. lo .. hi \subseteq Ind /\ lo \in Nat
    BY Consts DEF Ind
<1>2. J \in SUBSET Nat /\ J # {}
    BY <1>1, Consts DEF Num, Ind
<1>3. PICK q \in J : \A y \in J : ~(<<y, q>> \in OpToRel(<, Nat))
    <2> HIDE DEF J
    <2> QED  BY <1>2, NatLessThanWellFounded, WFMin
<1>4. \A i \in J : ~(i < q)
    BY <1>2, <1>3 DEF OpToRel
<1>5. q \in lo .. hi /\ N(q) \in T /\ q \in Ind
    BY <1>1
<1>6. \A b \in T : seqcmp(N(q), b) <= 0
    <2> SUFFICES ASSUME NEW b \in T PROVE seqcmp(N(q), b) <= 0
        OBVIOUS
    <2>1. PICK i \in lo .. hi : b = N(i)
        BY DEF Num
    <2>2. i \in J /\ i \in Ind /\ q <= i
        BY <1>1, <1>2, <1>4, <1>5, <2>1
    <2> QED  BY <1>5, <2>1, <2>2, NumOff
<1>7. First(T) \in T /\ \A b \in T : seqcmp(First(T), b) <= 0
    BY <1>5, <1>6 DEF First
<1>8. PICK i \in lo .. hi : First(T) = N(i)
    BY <1>7 DEF Num
<1>9. i = q
    <2>1. i \in J /\ i \in Ind /\ ~(i < q)
        BY <1>1, <1>4, <1>7, <1>8
    <2>2. seqcmp(N(i), N(q)) <= 0
        BY <1>5, <1>7, <1>8
    <2>3. i <= q
        BY <1>5, <2>1, <2>2, NumOff
    <2> QED  BY <1>1, <1>5, <2>1, <2>3
<1>10. \A m \in lo .. hi : m < q => N(m) \notin T
    BY <1>4
<1> QED  BY <1>5, <1>8, <1>9, <1>10

-----------------------------------------------------------------------------
(* Positions on the circle of the receive buffer *)

LEMMA ModDef ==
    ASSUME NEW a \in Int, NEW s \in Nat \ {0}
    PROVE  \E q \in Int, m \in 0 .. s - 1 : a = s * q + m /\ a % s = m
<1>1. a \div s \in Int /\ a % s \in 0 .. s - 1 /\ a = s * (a \div s) + (a % s)
    OBVIOUS
<1> QED  BY <1>1

LEMMA ModUnique ==
    ASSUME NEW a \in Int, NEW s \in Nat \ {0}, NEW q \in Int, NEW m \in 0 .. s - 1, a = s * q + m
    PROVE  a % s = m
OBVIOUS

(* The place n further than a, which is at m. *)
LEMMA ModShift ==
    ASSUME NEW a \in Int, NEW s \in Nat \ {0}, NEW m \in 0 .. s - 1, a % s = m, NEW n \in Int,
           NEW e \in 0 .. s - 1, e = m + n \/ e = m + n - s
    PROVE  (a + n) % s = e
<1>1. PICK q \in Int, mm \in 0 .. s - 1 : a = s * q + mm /\ a % s = mm
    BY ModDef
<1>2. PICK w \in Int : w = s * q
    OBVIOUS
<1>3. s * (q + 1) = w + s /\ q + 1 \in Int /\ a + n \in Int
    BY <1>2
<1>4. a + n = w + (m + n)
    BY <1>1, <1>2
<1>5. CASE e = m + n
    <2>1. a + n = s * q + e
        BY <1>2, <1>4, <1>5
    <2> QED  BY <1>3, <2>1, ModUnique
<1>6. CASE e = m + n - s
    <2>1. a + n = s * (q + 1) + e
        BY <1>3, <1>4, <1>6
    <2> QED  BY <1>3, <2>1, ModUnique
<1> QED  BY <1>5, <1>6

(* Places of indices less than a turn apart: how far one is behind the other, as readBuffer
   and getRcvDataSize() compute it, is the difference of the indices. *)
LEMMA ModApart ==
    ASSUME NEW i \in Nat, NEW j \in Nat, NEW s \in Nat \ {0}, i <= j, j < i + s
    PROVE  /\ i % s \in 0 .. s - 1 /\ j % s \in 0 .. s - 1
           /\ (IF j % s >= i % s THEN (j % s) - (i % s) ELSE s + (j % s) - (i % s)) = j - i
           /\ ((j % s) - (i % s)) % s = j - i
           /\ i % s = j % s => i = j
<1>0. i \in Int
    OBVIOUS
<1>1. PICK m \in 0 .. s - 1 : i % s = m
    BY <1>0, ModDef
<1>2. PICK n \in Int : n = j - i /\ i + n = j /\ n >= 0
    OBVIOUS
<1>3. n < s /\ m + n < 2 * s /\ n \in 0 .. s - 1
    BY <1>2
<1>4. PICK e \in 0 .. s - 1 : e = m + n \/ e = m + n - s
    <2>1. m + n \in 0 .. s - 1 \/ m + n - s \in 0 .. s - 1
        BY <1>2, <1>3
    <2> QED  BY <2>1
<1>5. (i + n) % s = e
    BY <1>0, <1>1, <1>4, ModShift
<1>6. j % s = e
    BY <1>2, <1>5
<1>7. (e - m) % s = n
    <2>1. CASE e = m + n
        <3>1. e - m = s * 0 + n /\ e - m \in Int
            BY <2>1
        <3> QED  BY <1>3, <3>1, ModUnique
    <2>2. CASE e = m + n - s
        <3>1. s * (-1) = -s
            OBVIOUS
        <3>2. e - m = s * (-1) + n /\ e - m \in Int
            BY <2>2, <3>1
        <3> QED  BY <1>3, <3>2, ModUnique
    <2> QED  BY <1>4, <2>1, <2>2
<1>8. (IF e >= m THEN e - m ELSE s + e - m) = n /\ (m = e => n = 0)
    BY <1>3, <1>4
<1>9. m = e => i = j
    BY <1>2, <1>8
<1>10. (IF j % s >= i % s THEN (j % s) - (i % s) ELSE s + (j % s) - (i % s)) = j - i
    BY <1>1, <1>2, <1>6, <1>8
<1>11. ((j % s) - (i % s)) % s = j - i
    BY <1>1, <1>2, <1>6, <1>7
<1> QED  BY <1>1, <1>6, <1>9, <1>10, <1>11

LEMMA ModDiffer ==
    ASSUME NEW i \in Nat, NEW j \in Nat, NEW s \in Nat \ {0}, i # j, j < i + s, i < j + s
    PROVE  i % s # j % s /\ i % s \in 0 .. s - 1 /\ j % s \in 0 .. s - 1
<1>1. CASE i <= j
    <2>1. /\ i % s \in 0 .. s - 1 /\ j % s \in 0 .. s - 1
          /\ (IF j % s >= i % s THEN (j % s) - (i % s) ELSE s + (j % s) - (i % s)) = j - i
        BY <1>1, ModApart, Zenon
    <2>2. ASSUME i % s = j % s PROVE FALSE
        <3>1. PICK m \in 0 .. s - 1 : m = i % s /\ m = j % s
            BY <2>1, <2>2
        <3>2. (IF m >= m THEN m - m ELSE s + m - m) = j - i
            BY <2>1, <3>1, Zenon
        <3> QED  BY <3>2
    <2> QED  BY <2>1, <2>2
<1>2. CASE j <= i
    <2>1. /\ i % s \in 0 .. s - 1 /\ j % s \in 0 .. s - 1
          /\ (IF i % s >= j % s THEN (i % s) - (j % s) ELSE s + (i % s) - (j % s)) = i - j
        BY <1>2, ModApart, Zenon
    <2>2. ASSUME i % s = j % s PROVE FALSE
        <3>1. PICK m \in 0 .. s - 1 : m = i % s /\ m = j % s
            BY <2>1, <2>2
        <3>2. (IF m >= m THEN m - m ELSE s + m - m) = i - j
            BY <2>1, <3>1, Zenon
        <3> QED  BY <3>2
    <2> QED  BY <2>1, <2>2
<1> QED  BY <1>1, <1>2

(* Where addData() and ackData() go from a place. *)
Turns(i, n, s) == ((i % s) + n) % s = (i + n) % s

LEMMA ModStep ==
    ASSUME NEW i \in Nat, NEW n \in Nat, NEW s \in Nat \ {0}
    PROVE  Turns(i, n, s)
<1>0. i \in Int
    OBVIOUS
<1>1. PICK q \in Int, m \in 0 .. s - 1 : i = s * q + m /\ i % s = m
    BY <1>0, ModDef
<1>2. m + n \in Int
    OBVIOUS
<1>3. PICK t \in Int, e \in 0 .. s - 1 : m + n = s * t + e /\ (m + n) % s = e
    BY <1>2, ModDef
<1>4. s * (q + t) = s * q + s * t
    OBVIOUS
<1>5. PICK w \in Int, v \in Int : w = s * q /\ v = s * t
    OBVIOUS
<1>6. i + n = (w + v) + e
    <2>1. i = w + m /\ m + n = v + e
        BY <1>1, <1>3, <1>5
    <2> QED  BY <2>1
<1>7. (i + n) % s = e
    <2>1. i + n = s * (q + t) + e /\ q + t \in Int /\ i + n \in Int
        BY <1>4, <1>5, <1>6
    <2> QED  BY <2>1, ModUnique
<1> QED  BY <1>1, <1>3, <1>7 DEF Turns

(* Every place is that of one of the indices of a turn. *)
LEMMA ModCovers ==
    ASSUME NEW h \in Nat, NEW s \in Nat \ {0}, NEW p \in 0 .. s - 1
    PROVE  \E j \in h .. h + s - 1 : p = j % s
<1>0. h \in Int
    OBVIOUS
<1>1. PICK m \in 0 .. s - 1 : h % s = m
    BY <1>0, ModDef
<1>2. PICK n \in Int : (p = m + n \/ p = m + n - s) /\ h + n \in h .. h + s - 1
    <2>1. CASE p >= m
        <3>1. p - m \in Int /\ p = m + (p - m) /\ h + (p - m) \in h .. h + s - 1
            BY <2>1
        <3> QED  BY <3>1
    <2>2. CASE ~(p >= m)
        <3>1. p - m + s \in Int /\ p = m + (p - m + s) - s /\ h + (p - m + s) \in h .. h + s - 1
            BY <2>2
        <3> QED  BY <3>1
    <2> QED  BY <2>1, <2>2
<1>3. (h + n) % s = p
    BY <1>0, <1>1, <1>2, ModShift
<1> QED  BY <1>2, <1>3

-----------------------------------------------------------------------------
(* The parts of the invariant *)

(* What follows for the indices alone. *)
Ordered(n, c, a, d, r, k, h, f, s) ==
    /\ d <= a /\ a <= c /\ c <= n /\ n <= MaxBytes /\ MaxBytes \in Nat
    /\ k <= r /\ r <= c /\ f <= h /\ h <= k /\ r <= f + s - 1 /\ s > 1
    /\ n \in Ind /\ c \in Ind /\ a \in Ind /\ d \in Ind /\ r \in Ind /\ k \in Ind /\ h \in Ind /\ f \in Ind

LEMMA Order ==
    ASSUME NEW n \in Nat, NEW c \in Nat, NEW a \in Nat, NEW d \in Nat, NEW r \in Nat, NEW k \in Nat,
           NEW h \in Nat, NEW f \in Nat, NEW l \in Nat, NEW s \in Nat, NEW F,
           Sound(n, c, a, d, r, k, h, f, l, s, F)
    PROVE  Ordered(n, c, a, d, r, k, h, f, s)
<1>1. /\ d <= a /\ a <= c /\ c <= n /\ n <= MaxBytes /\ MaxBytes \in Nat
      /\ k <= r /\ r <= c /\ f <= h /\ h <= k /\ r <= f + s - 1 /\ s > 1
    BY Consts DEF Sound, Sender, Receiver, Stream
<1> QED  BY <1>1 DEF Ordered, Ind

LEMMA InInd ==
    ASSUME NEW j \in Nat, NEW i \in Ind, j <= i
    PROVE  j \in Ind
BY Consts DEF Ind

(* A packet in flight stays what it was when more is sent, received and acknowledged. *)
LEMMA PacketStays ==
    ASSUME NEW c \in Nat, NEW r \in Nat, NEW k \in Nat, NEW cc \in Nat, NEW rr \in Nat, NEW kk \in Nat,
           c <= cc, r <= rr, k <= kk, NEW F, NEW p, Packet(p, c, r, k, F)
    PROVE  Packet(p, cc, rr, kk, F)
<1>1. 0 .. c - 1 \subseteq 0 .. cc - 1
    OBVIOUS
<1>2. 0 .. k \subseteq 0 .. kk /\ 0 .. r \subseteq 0 .. rr /\ 0 .. r - 1 \subseteq 0 .. rr - 1
    OBVIOUS
<1> QED  BY <1>1, <1>2, Zenon DEF Packet

LEMMA FlightAdds ==
    ASSUME NEW c \in Nat, NEW r \in Nat, NEW k \in Nat, NEW cc \in Nat, NEW rr \in Nat, NEW kk \in Nat,
           c <= cc, r <= rr, k <= kk,
           NEW F, Flight(c, r, k, F), NEW q, net' \subseteq net \cup {q}, Packet(q, cc, rr, kk, F)
    PROVE  Flight(cc, rr, kk, F)'
<1>1. \A p \in net : Packet(p, cc, rr, kk, F)
    BY PacketStays DEF Flight
<1>2. \A p \in net' : Packet(p, cc, rr, kk, F)
    BY <1>1
<1> QED  BY <1>2 DEF Flight, Packet, Data, Ack, LiteAck, Ack2, LossReport, KeepAlive, Blk, N

LEMMA FlightStays ==
    ASSUME NEW c \in Nat, NEW r \in Nat, NEW k \in Nat, NEW F, Flight(c, r, k, F), net' \subseteq net
    PROVE  Flight(c, r, k, F)'
<1>1. \A p \in net' : Packet(p, c, r, k, F)
    BY DEF Flight
<1> QED  BY <1>1 DEF Flight, Packet, Data, Ack, LiteAck, Ack2, LossReport, KeepAlive, Blk, N

LEMMA ReceivedNet ==
    ASSUME NEW p, NEW sends, Received(p, sends)
    PROVE  p \in net /\ net' \subseteq net \cup sends
BY DEF Received

(* What a packet of a kind says. *)
LEMMA PacketKinds ==
    ASSUME NEW c, NEW r, NEW k, NEW F, NEW p, Packet(p, c, r, k, F)
    PROVE  /\ p.kind = "data" => \E j \in 0 .. c - 1 : p.seq = N(j) /\ p.block = Blk(F, j)
           /\ p.kind = "ack" => \E j \in 0 .. k : p.ack = N(j)
           /\ p.kind = "lite" => \E j \in 0 .. r : p.ack = N(j)
           /\ p.kind = "ack2" => \E j \in 0 .. k : p.ack = N(j)
           /\ p.kind = "nak" => \E i, j \in 0 .. r - 1 : i <= j /\ p.a = N(i) /\ p.b = N(j)
<1>1. CASE \E j \in 0 .. c - 1 : p = Data(N(j), Blk(F, j))
    BY <1>1 DEF Data
<1>2. CASE \E j \in 0 .. k, w \in Int : p = Ack(N(j), w)
    BY <1>2 DEF Ack
<1>3. CASE \E j \in 0 .. r : p = LiteAck(N(j))
    BY <1>3 DEF LiteAck
<1>4. CASE \E j \in 0 .. k : p = Ack2(N(j))
    BY <1>4 DEF Ack2
<1>5. CASE \E i, j \in 0 .. r - 1 : i <= j /\ p = LossReport(N(i), N(j))
    BY <1>5 DEF LossReport
<1>6. CASE \E e \in {"s", "r"} : p = KeepAlive(e)
    BY <1>6 DEF KeepAlive
<1> QED  BY <1>1, <1>2, <1>3, <1>4, <1>5, <1>6 DEF Packet

LEMMA Suffix ==
    ASSUME NEW S, NEW q \in Seq(S), NEW m \in 1 .. Len(q) + 1
    PROVE  /\ SubSeq(q, m, Len(q)) \in Seq(S) /\ Len(SubSeq(q, m, Len(q))) = Len(q) - m + 1
           /\ \A i \in 1 .. Len(q) - m + 1 : SubSeq(q, m, Len(q))[i] = q[m + i - 1]
<1>1. Len(q) \in Int /\ m \in Int
    OBVIOUS
<1>2. \A i \in m .. Len(q) : q[i] \in S
    OBVIOUS
<1>3. /\ SubSeq(q, m, Len(q)) \in Seq(S)
      /\ Len(SubSeq(q, m, Len(q))) = IF m <= Len(q) THEN Len(q) - m + 1 ELSE 0
      /\ \A i \in 1 .. Len(q) - m + 1 : SubSeq(q, m, Len(q))[i] = q[m + i - 1]
    BY <1>1, <1>2, SubSeqProperties
<1>4. (IF m <= Len(q) THEN Len(q) - m + 1 ELSE 0) = Len(q) - m + 1
    BY <1>1
<1> QED  BY <1>3, <1>4

LEMMA NumSub ==
    ASSUME NEW lo \in Int, NEW hi \in Int, NEW low \in Int, NEW high \in Int, low <= lo, hi <= high
    PROVE  Num(lo, hi) \subseteq Num(low, high)
<1>1. lo .. hi \subseteq low .. high
    OBVIOUS
<1> QED  BY <1>1 DEF Num

LEMMA Witnessed ==
    ASSUME NEW n \in Nat, NEW c \in Nat, NEW a \in Nat, NEW d \in Nat, NEW r \in Nat, NEW k \in Nat,
           NEW h \in Nat, NEW f \in Nat, NEW l \in Nat, NEW s \in Nat, NEW F, s > 1,
           Stream(n, F)', Sender(n, c, a, d, F)', Receiver(c, r, k, h, f, s)', Buffer(r, h, s, F)',
           Application(k, h, f, l, s, F)', Flight(c, r, k, F)'
    PROVE  Inv'
<1>1. Sound(n, c, a, d, r, k, h, f, l, s, F)'
    BY DEF Sound
<1> QED  BY <1>1 DEF Inv

(* The parts that a step leaves alone. *)
LEMMA StreamStays ==
    ASSUME NEW n, NEW F, Stream(n, F), UNCHANGED written
    PROVE  Stream(n, F)'
BY DEF Stream

LEMMA SenderStays ==
    ASSUME NEW n, NEW c, NEW a, NEW d, NEW F, Sender(n, c, a, d, F), UNCHANGED sndVars
    PROVE  Sender(n, c, a, d, F)'
BY DEF Sender, sndVars, N, Prev, Num, Blk, None

LEMMA ReceiverStays ==
    ASSUME NEW c, NEW r, NEW k, NEW h, NEW f, NEW s, Receiver(c, r, k, h, f, s),
           UNCHANGED <<rcvCurr, rcvLastAck, rcvLoss, start, lastPos>>
    PROVE  Receiver(c, r, k, h, f, s)'
BY DEF Receiver, N, Prev, Num

LEMMA BufferStays ==
    ASSUME NEW r, NEW h, NEW s, NEW F, Buffer(r, h, s, F), UNCHANGED <<units, rcvLoss>>
    PROVE  Buffer(r, h, s, F)'
BY DEF Buffer, Held, Blk, Nothing, N

LEMMA ApplicationStays ==
    ASSUME NEW k, NEW h, NEW f, NEW l, NEW s, NEW F, Application(k, h, f, l, s, F),
           UNCHANGED <<notch, read, reading>>
    PROVE  Application(k, h, f, l, s, F)'
BY DEF Application, NotReading, None

-----------------------------------------------------------------------------
(* The steps *)

LEMMA InitInv == Init => Inv
<1> SUFFICES ASSUME Init PROVE Inv
    OBVIOUS
<1>1. PICK s \in RcvBufSizes : flow = s /\ units = [i \in 0 .. s - 1 |-> Nothing]
    BY DEF Init
<1>2. s \in Nat /\ s > 1 /\ 0 \in Ind
    BY TransferAssumption DEF Ind
<1>3. PICK F : F \in [0 .. 0 -> Nat] /\ F[0] = 1
    <2>1. [i \in 0 .. 0 |-> 1] \in [0 .. 0 -> Nat] /\ [i \in 0 .. 0 |-> 1][0] = 1
        OBVIOUS
    <2> QED  BY <2>1
<1>4. N(0) = Isn /\ Prev(0) = Isn - 1
    BY <1>2, NumStep DEF Prev
<1>5. Stream(0, F)
    BY <1>3, Consts DEF Init, Stream
<1>6. Sender(0, 0, 0, 0, F)
    BY <1>4 DEF Init, Sender
<1>7. 0 % s = 0
    <2>1. 0 = s * 0 + 0 /\ 0 \in 0 .. s - 1
        BY <1>2
    <2> QED  BY <1>2, <2>1, ModUnique
<1>8. Receiver(0, 0, 0, 0, 0, s)
    BY <1>2, <1>4, <1>7 DEF Init, Receiver
<1>9. Buffer(0, 0, s, F)
    <2>1. \A i \in 0 .. s - 1 : i % s \in 0 .. s - 1
        BY <1>2
    <2>2. \A i \in 0 .. s - 1 : Held(0, F, i) = Nothing
        BY DEF Held
    <2> QED  BY <1>1, <1>2, <2>1, <2>2 DEF Buffer
<1>10. Application(0, 0, 0, 0, s, F)
    BY <1>3, Consts DEF Init, Application
<1>11. Flight(0, 0, 0, F)
    BY DEF Init, Flight
<1>12. Sound(0, 0, 0, 0, 0, 0, 0, 0, 0, s, F)
    BY <1>2, <1>5, <1>6, <1>8, <1>9, <1>10, <1>11 DEF Sound
<1> QED  BY <1>2, <1>12 DEF Inv

LEMMA LoseInv ==
    ASSUME NEW n \in Nat, NEW c \in Nat, NEW a \in Nat, NEW d \in Nat, NEW r \in Nat, NEW k \in Nat,
           NEW h \in Nat, NEW f \in Nat, NEW l \in Nat, NEW s \in Nat, NEW F,
           Sound(n, c, a, d, r, k, h, f, l, s, F), NEW p, Lose(p)
    PROVE  Inv'
<1>0. Ordered(n, c, a, d, r, k, h, f, s)
    BY Order, Zenon
<1> USE DEF Sound, Ordered
<1>1. UNCHANGED <<sndVars, bufVars, rcvVars>> /\ net' \subseteq net
    BY DEF Lose
<1>2. Stream(n, F)' /\ Sender(n, c, a, d, F)' /\ Receiver(c, r, k, h, f, s)'
    BY <1>1, StreamStays, SenderStays, ReceiverStays DEF sndVars, bufVars, rcvVars
<1>3. Buffer(r, h, s, F)' /\ Application(k, h, f, l, s, F)' /\ Flight(c, r, k, F)'
    BY <1>1, BufferStays, ApplicationStays, FlightStays DEF bufVars, rcvVars
<1> QED  BY <1>0, <1>2, <1>3, Witnessed

LEMMA OnKeepAliveInv ==
    ASSUME NEW n \in Nat, NEW c \in Nat, NEW a \in Nat, NEW d \in Nat, NEW r \in Nat, NEW k \in Nat,
           NEW h \in Nat, NEW f \in Nat, NEW l \in Nat, NEW s \in Nat, NEW F,
           Sound(n, c, a, d, r, k, h, f, l, s, F), NEW p, OnKeepAlive(p)
    PROVE  Inv'
<1>0. Ordered(n, c, a, d, r, k, h, f, s)
    BY Order, Zenon
<1> USE DEF Sound, Ordered
<1>1. UNCHANGED <<sndVars, bufVars, rcvVars>> /\ net' \subseteq net
    <2>1. net' \subseteq net \cup {}
        BY ReceivedNet DEF OnKeepAlive
    <2> QED  BY <2>1 DEF OnKeepAlive
<1>2. Stream(n, F)' /\ Sender(n, c, a, d, F)' /\ Receiver(c, r, k, h, f, s)'
    BY <1>1, StreamStays, SenderStays, ReceiverStays DEF sndVars, bufVars, rcvVars
<1>3. Buffer(r, h, s, F)' /\ Application(k, h, f, l, s, F)' /\ Flight(c, r, k, F)'
    BY <1>1, BufferStays, ApplicationStays, FlightStays DEF bufVars, rcvVars
<1> QED  BY <1>0, <1>2, <1>3, Witnessed

(* The number of an ACK2 is not compared with others than those of acknowledgements. *)
LEMMA OnAck2Inv ==
    ASSUME NEW n \in Nat, NEW c \in Nat, NEW a \in Nat, NEW d \in Nat, NEW r \in Nat, NEW k \in Nat,
           NEW h \in Nat, NEW f \in Nat, NEW l \in Nat, NEW s \in Nat, NEW F,
           Sound(n, c, a, d, r, k, h, f, l, s, F), NEW p, OnAck2(p)
    PROVE  Inv'
<1>0. Ordered(n, c, a, d, r, k, h, f, s)
    BY Order, Zenon
<1> USE DEF Sound, Ordered
<1>1. UNCHANGED <<sndVars, bufVars, rcvCurr, rcvLastAck, rcvLoss>> /\ net' \subseteq net
    <2>1. net' \subseteq net \cup {}
        BY ReceivedNet DEF OnAck2
    <2> QED  BY <2>1 DEF OnAck2
<1>2. Stream(n, F)' /\ Sender(n, c, a, d, F)' /\ Receiver(c, r, k, h, f, s)'
    BY <1>1, StreamStays, SenderStays, ReceiverStays DEF sndVars, bufVars
<1>3. Buffer(r, h, s, F)' /\ Application(k, h, f, l, s, F)' /\ Flight(c, r, k, F)'
    BY <1>1, BufferStays, ApplicationStays, FlightStays DEF bufVars
<1> QED  BY <1>0, <1>2, <1>3, Witnessed

(* The number taken is one of those that were sent. *)
LEMMA TakeLostInv ==
    ASSUME NEW n \in Nat, NEW c \in Nat, NEW a \in Nat, NEW d \in Nat, NEW r \in Nat, NEW k \in Nat,
           NEW h \in Nat, NEW f \in Nat, NEW l \in Nat, NEW s \in Nat, NEW F,
           Sound(n, c, a, d, r, k, h, f, l, s, F), TakeLost
    PROVE  Inv'
<1>0. Ordered(n, c, a, d, r, k, h, f, s)
    BY Order, Zenon
<1> USE DEF Sound, Ordered
<1>1. /\ UNCHANGED <<written, bufVars, rcvVars, net>>
      /\ UNCHANGED <<sndBuf, sent, sndCurr, sndLastAck, sndLastDataAck>>
      /\ taken' = First(sndLoss) /\ sndLoss' \subseteq sndLoss /\ sndLoss # {}
    BY DEF TakeLost, netVars
<1>2. Stream(n, F)' /\ Receiver(c, r, k, h, f, s)'
    BY <1>1, StreamStays, ReceiverStays DEF bufVars, rcvVars
<1>3. Buffer(r, h, s, F)' /\ Application(k, h, f, l, s, F)' /\ Flight(c, r, k, F)'
    BY <1>1, BufferStays, ApplicationStays, FlightStays DEF bufVars, rcvVars
<1>4. Sender(n, c, a, d, F)'
    <2>1. c - 1 \in Int /\ c - 1 <= MaxBytes /\ d \in Ind /\ 0 <= d
        BY <1>0
    <2>2. sndLoss \subseteq Num(d, c - 1)
        BY DEF Sender
    <2>3. First(sndLoss) \in sndLoss
        BY <1>1, <2>1, <2>2, NumFirst
    <2>4. Num(d, c - 1) \subseteq Num(0, c - 1)
        BY <2>1, NumSub
    <2>5. taken' \in Num(0, c - 1) /\ sndLoss' \subseteq Num(d, c - 1)
        BY <1>1, <2>2, <2>3, <2>4
    <2> QED  BY <1>1, <2>5 DEF Sender, N, Prev, Num, Blk, None
<1> QED  BY <1>0, <1>2, <1>3, <1>4, Witnessed

(* A block is sent again under its own number. *)
LEMMA ResendInv ==
    ASSUME NEW n \in Nat, NEW c \in Nat, NEW a \in Nat, NEW d \in Nat, NEW r \in Nat, NEW k \in Nat,
           NEW h \in Nat, NEW f \in Nat, NEW l \in Nat, NEW s \in Nat, NEW F,
           Sound(n, c, a, d, r, k, h, f, l, s, F), Resend
    PROVE  Inv'
<1>0. Ordered(n, c, a, d, r, k, h, f, s)
    BY Order, Zenon
<1> USE DEF Sound, Ordered
<1>1. /\ UNCHANGED <<written, bufVars, rcvVars>>
      /\ UNCHANGED <<sndBuf, sent, sndCurr, sndLastAck, sndLastDataAck, sndLoss>>
      /\ taken' = None /\ taken # None
    BY DEF Resend
<1>2. Stream(n, F)' /\ Receiver(c, r, k, h, f, s)'
    BY <1>1, StreamStays, ReceiverStays DEF bufVars, rcvVars
<1>3. Buffer(r, h, s, F)' /\ Application(k, h, f, l, s, F)'
    BY <1>1, BufferStays, ApplicationStays DEF bufVars, rcvVars
<1>4. Sender(n, c, a, d, F)'
    BY <1>1 DEF Sender, N, Prev, Num, Blk, None
<1>5. PICK j \in 0 .. c - 1 : taken = N(j)
    BY <1>1 DEF Sender, Num
<1>6. j \in Ind /\ d \in Ind
    BY <1>0 DEF Ind
<1>7. seqoff(sndLastDataAck, taken) = j - d
    BY <1>5, <1>6, NumOff DEF Sender
<1>8. CASE Resendable
    <2>1. PICK m \in 1 .. n - d : m = j - d + 1 /\ d + m - 1 = j
        <3>1. j - d >= 0
            BY <1>7, <1>8 DEF Resendable
        <3>2. j - d + 1 \in 1 .. n - d /\ d + (j - d + 1) - 1 = j
            BY <1>0, <3>1
        <3> QED  BY <3>2
    <2>2. sndBuf[m] = Blk(F, j)
        BY <2>1 DEF Sender
    <2>3. net' \subseteq net \cup {Data(N(j), Blk(F, j))}
        BY <1>5, <1>7, <1>8, <2>1, <2>2 DEF Resend, BlockAt
    <2>4. Packet(Data(N(j), Blk(F, j)), c, r, k, F)
        BY DEF Packet
    <2>5. Flight(c, r, k, F)'
        BY <1>0, <2>3, <2>4, FlightAdds, c <= c, r <= r, k <= k
    <2> QED  BY <1>0, <1>2, <1>3, <1>4, <2>5, Witnessed
<1>9. CASE ~Resendable
    <2>1. net' \subseteq net
        BY <1>9 DEF Resend
    <2>2. Flight(c, r, k, F)'
        BY <2>1, FlightStays
    <2> QED  BY <1>0, <1>2, <1>3, <1>4, <2>2, Witnessed
<1> QED  BY <1>8, <1>9

(* A block is sent for the first time under the number of its index. *)
LEMMA SendNewInv ==
    ASSUME NEW n \in Nat, NEW c \in Nat, NEW a \in Nat, NEW d \in Nat, NEW r \in Nat, NEW k \in Nat,
           NEW h \in Nat, NEW f \in Nat, NEW l \in Nat, NEW s \in Nat, NEW F,
           Sound(n, c, a, d, r, k, h, f, l, s, F), SendNew
    PROVE  Inv'
<1>0. Ordered(n, c, a, d, r, k, h, f, s)
    BY Order, Zenon
<1> USE DEF Sound, Ordered
<1>1. /\ UNCHANGED <<written, bufVars, rcvVars>>
      /\ UNCHANGED <<sndBuf, sndLastAck, sndLastDataAck, sndLoss, taken>>
      /\ sent' = sent + 1 /\ sndCurr' = incseq(sndCurr) /\ sent < Len(sndBuf)
      /\ net' = net \cup {Data(sndCurr', sndBuf[sent + 1])}
    BY DEF SendNew, CurrBlock
<1>2. c < n
    <2>1. c - d < n - d
        BY <1>1 DEF Sender
    <2> QED  BY <2>1
<1>3. PICK cc \in Nat : cc = c + 1 /\ cc \in Ind /\ c <= cc /\ cc <= n
    BY <1>0, <1>2 DEF Ind
<1>4. sndCurr' = N(c) /\ N(c) = Prev(cc)
    BY <1>0, <1>1, <1>3, NumStep DEF Sender
<1>5. Stream(n, F)' /\ Buffer(r, h, s, F)' /\ Application(k, h, f, l, s, F)'
    BY <1>1, StreamStays, BufferStays, ApplicationStays DEF bufVars, rcvVars
<1>6. Receiver(cc, r, k, h, f, s)'
    <2>1. r <= cc
        BY <1>0, <1>3
    <2> QED  BY <1>1, <2>1 DEF Receiver, rcvVars, bufVars, N, Prev, Num
<1>7. Sender(n, cc, a, d, F)'
    <2>1. Num(d, c - 1) \subseteq Num(d, cc - 1) /\ Num(0, c - 1) \subseteq Num(0, cc - 1)
        BY <1>3, NumSub
    <2>2. d <= a /\ a <= cc /\ cc <= n
        BY <1>0, <1>3
    <2>3. sent' = cc - d
        BY <1>1, <1>3 DEF Sender
    <2>4. sndLoss' \subseteq Num(d, cc - 1) /\ (taken' = None \/ taken' \in Num(0, cc - 1))
        BY <1>1, <2>1 DEF Sender
    <2> QED  BY <1>1, <1>4, <2>2, <2>3, <2>4 DEF Sender, N, Prev, Num, Blk, None
<1>8. net' \subseteq net \cup {Data(N(c), Blk(F, c))}
    <2>1. PICK m \in 1 .. n - d : m = c - d + 1 /\ d + m - 1 = c
        BY <1>0, <1>2
    <2>2. sndBuf[m] = Blk(F, c) /\ sent + 1 = m
        BY <2>1 DEF Sender
    <2> QED  BY <1>1, <1>4, <2>2
<1>9. Packet(Data(N(c), Blk(F, c)), cc, r, k, F)
    <2>1. c \in 0 .. cc - 1
        BY <1>3
    <2> QED  BY <2>1 DEF Packet
<1>10. Flight(cc, r, k, F)'
    BY <1>3, <1>8, <1>9, FlightAdds, r <= r, k <= k
<1> QED  BY <1>0, <1>5, <1>6, <1>7, <1>10, Witnessed

(* An acknowledgement that arrives is one the receiver gave: it is valid, and what it takes
   off the send buffer was received. *)
LEMMA OnAckInv ==
    ASSUME NEW n \in Nat, NEW c \in Nat, NEW a \in Nat, NEW d \in Nat, NEW r \in Nat, NEW k \in Nat,
           NEW h \in Nat, NEW f \in Nat, NEW l \in Nat, NEW s \in Nat, NEW F,
           Sound(n, c, a, d, r, k, h, f, l, s, F), NEW p, OnAck(p)
    PROVE  Inv' /\ UNCHANGED broken
<1>0. Ordered(n, c, a, d, r, k, h, f, s)
    BY Order, Zenon
<1> USE DEF Sound, Ordered
<1>1. /\ UNCHANGED <<written, sndCurr, taken, bufVars, rcvVars>> /\ p.kind = "ack" /\ p \in net
      /\ net' \subseteq net \cup {Ack2(p.ack)}
    <2>1. PICK sends \in {{}, {Ack2(p.ack)}} : Received(p, sends)
        BY DEF OnAck
    <2> QED  BY <2>1, ReceivedNet DEF OnAck
<1>2. PICK j \in 0 .. k : p.ack = N(j)
    BY <1>1, PacketKinds DEF Flight
<1>3. j \in Nat /\ j <= c /\ j \in Ind
    BY <1>0 DEF Ind
<1>4. AckValid(p.ack)
    <2>1. incseq(sndCurr) = N(c)
        BY <1>0, NumStep DEF Sender
    <2>2. seqcmp(N(j), N(c)) <= 0
        BY <1>0, <1>3, NumOff
    <2> QED  BY <1>2, <2>1, <2>2 DEF AckValid
<1>5. seqcmp(p.ack, sndLastAck) >= 0 <=> j >= a
    BY <1>0, <1>2, <1>3, NumOff DEF Sender
<1>6. seqoff(sndLastDataAck, p.ack) = j - d
    BY <1>0, <1>2, <1>3, NumOff DEF Sender
<1>7. Stream(n, F)' /\ Receiver(c, r, k, h, f, s)' /\ Buffer(r, h, s, F)' /\ Application(k, h, f, l, s, F)'
    BY <1>1, StreamStays, ReceiverStays, BufferStays, ApplicationStays DEF bufVars, rcvVars
<1>8. Flight(c, r, k, F)'
    <2>1. Packet(Ack2(p.ack), c, r, k, F)
        BY <1>2 DEF Packet
    <2> QED  BY <1>1, <2>1, FlightAdds, c <= c, r <= r, k <= k
<1>9. PICK aa \in Nat : aa = (IF j >= a THEN j ELSE a) /\ sndLastAck' = N(aa) /\ aa <= c /\ a <= aa /\ j <= aa
    <2>1. CASE j >= a
        BY <1>2, <1>3, <1>4, <1>5, <2>1 DEF OnAck
    <2>2. CASE ~(j >= a)
        <3>1. sndLastAck' = sndLastAck
            BY <1>4, <1>5, <2>2 DEF OnAck
        <3> QED  BY <1>0, <1>3, <2>2, <3>1 DEF Sender
    <2> QED  BY <2>1, <2>2
<1>10. CASE j > d
    <2>1. /\ sndBuf' = SubSeq(sndBuf, (j - d) + 1, Len(sndBuf)) /\ sent' = sent - (j - d)
          /\ sndLastDataAck' = p.ack /\ sndLoss' = {q \in sndLoss : seqcmp(q, p.ack) >= 0}
        <3>1. j - d > 0
            BY <1>3, <1>10
        <3> QED  BY <1>4, <1>6, <3>1 DEF OnAck
    <2>2. j <= n /\ sent' = c - j
        BY <1>0, <1>3, <2>1 DEF Sender
    <2>3. /\ sndBuf' \in Seq([from : Nat, len : Nat]) /\ Len(sndBuf') = n - j
          /\ \A i \in 1 .. n - j : sndBuf'[i] = sndBuf[(j - d) + i]
        <3>1. /\ (j - d) + 1 \in 1 .. Len(sndBuf) + 1 /\ Len(sndBuf) \in (j - d) + 1 - 1 .. Len(sndBuf)
              /\ Len(sndBuf) - ((j - d) + 1) + 1 = n - j /\ Len(sndBuf) = n - d
            BY <1>3, <1>10, <2>2 DEF Sender
        <3>2. sndBuf \in Seq([from : Nat, len : Nat])
            BY DEF Sender
        <3>3. PICK m \in Nat : m = (j - d) + 1
            BY <1>10
        <3>4. /\ SubSeq(sndBuf, m, Len(sndBuf)) \in Seq([from : Nat, len : Nat])
              /\ Len(SubSeq(sndBuf, m, Len(sndBuf))) = Len(sndBuf) - m + 1
              /\ \A i \in 1 .. Len(sndBuf) - m + 1 : SubSeq(sndBuf, m, Len(sndBuf))[i] = sndBuf[m + i - 1]
            <4>1. m \in 1 .. Len(sndBuf) + 1
                BY <3>1, <3>3
            <4> QED  BY <3>2, <4>1, Suffix
        <3>5. \A i \in 1 .. n - j : m + i - 1 = (j - d) + i
            BY <3>3
        <3> QED  BY <2>1, <3>1, <3>3, <3>4, <3>5
    <2>4. \A i \in 1 .. n - j : sndBuf'[i] = Blk(F, j + i - 1)
        <3> TAKE i \in 1 .. n - j
        <3>1. (j - d) + i \in 1 .. n - d /\ d + ((j - d) + i) - 1 = j + i - 1
            BY <1>3, <1>10
        <3> QED  BY <2>3, <3>1 DEF Sender
    <2>5. sndLoss' \subseteq Num(j, c - 1)
        <3> SUFFICES ASSUME NEW q \in sndLoss' PROVE q \in Num(j, c - 1)
            OBVIOUS
        <3>1. PICK i \in d .. c - 1 : q = N(i)
            BY <2>1 DEF Sender, Num
        <3>2. i \in Ind
            BY <1>0 DEF Ind
        <3>3. i >= j
            BY <1>2, <1>3, <2>1, <3>1, <3>2, NumOff
        <3>4. i \in j .. c - 1
            BY <1>3, <3>3
        <3> QED  BY <3>1, <3>4 DEF Num
    <2>6. Sender(n, c, aa, j, F)'
        BY <1>0, <1>1, <1>2, <1>9, <2>1, <2>2, <2>3, <2>4, <2>5 DEF Sender, N, Prev, Num, Blk, None
    <2>7. Inv'
        BY <1>0, <1>3, <1>7, <1>8, <1>9, <2>6, Witnessed
    <2> QED  BY <1>4, <2>7 DEF OnAck
<1>11. CASE ~(j > d)
    <2>1. UNCHANGED <<sndBuf, sent, sndLastDataAck, sndLoss>>
        <3>1. ~(j - d > 0)
            BY <1>3, <1>11
        <3> QED  BY <1>6, <3>1 DEF OnAck
    <2>2. d <= aa
        BY <1>0, <1>9
    <2>3. Sender(n, c, aa, d, F)'
        BY <1>1, <1>9, <2>1, <2>2 DEF Sender, N, Prev, Num, Blk, None
    <2>4. Inv'
        BY <1>0, <1>3, <1>7, <1>8, <1>9, <2>3, Witnessed
    <2> QED  BY <1>4, <2>4 DEF OnAck
<1> QED  BY <1>10, <1>11

(* A light acknowledgement moves m_iSndLastAck alone. *)
LEMMA OnLiteAckInv ==
    ASSUME NEW n \in Nat, NEW c \in Nat, NEW a \in Nat, NEW d \in Nat, NEW r \in Nat, NEW k \in Nat,
           NEW h \in Nat, NEW f \in Nat, NEW l \in Nat, NEW s \in Nat, NEW F,
           Sound(n, c, a, d, r, k, h, f, l, s, F), NEW p, OnLiteAck(p)
    PROVE  Inv'
<1>0. Ordered(n, c, a, d, r, k, h, f, s)
    BY Order, Zenon
<1> USE DEF Sound, Ordered
<1>1. /\ UNCHANGED <<written, sndBuf, sent, sndCurr, sndLastDataAck, sndLoss, taken, bufVars, rcvVars>>
      /\ p.kind = "lite" /\ p \in net /\ net' \subseteq net
    <2>1. p \in net /\ net' \subseteq net \cup {}
        BY ReceivedNet DEF OnLiteAck
    <2> QED  BY <2>1 DEF OnLiteAck
<1>2. PICK j \in 0 .. r : p.ack = N(j)
    BY <1>1, PacketKinds DEF Flight
<1>3. j \in Nat /\ j <= c /\ j \in Ind
    BY <1>0 DEF Ind
<1>4. seqcmp(p.ack, sndLastAck) >= 0 <=> j >= a
    BY <1>0, <1>2, <1>3, NumOff DEF Sender
<1>5. PICK aa \in Nat : sndLastAck' = N(aa) /\ aa <= c /\ d <= aa
    <2>1. CASE j >= a
        <3>1. sndLastAck' = N(j)
            BY <1>2, <1>4, <2>1 DEF OnLiteAck
        <3> QED  BY <1>0, <1>3, <2>1, <3>1
    <2>2. CASE ~(j >= a)
        <3>1. sndLastAck' = sndLastAck
            BY <1>4, <2>2 DEF OnLiteAck
        <3> QED  BY <1>0, <3>1 DEF Sender
    <2> QED  BY <2>1, <2>2
<1>6. Stream(n, F)' /\ Receiver(c, r, k, h, f, s)' /\ Buffer(r, h, s, F)' /\ Application(k, h, f, l, s, F)'
    BY <1>1, StreamStays, ReceiverStays, BufferStays, ApplicationStays DEF bufVars, rcvVars
<1>7. Flight(c, r, k, F)'
    BY <1>1, FlightStays
<1>8. Sender(n, c, aa, d, F)'
    BY <1>1, <1>5 DEF Sender, N, Prev, Num, Blk, None
<1> QED  BY <1>0, <1>5, <1>6, <1>7, <1>8, Witnessed

(* A loss report names packets that were sent; those not yet acknowledged have their blocks. *)
LEMMA OnLossReportInv ==
    ASSUME NEW n \in Nat, NEW c \in Nat, NEW a \in Nat, NEW d \in Nat, NEW r \in Nat, NEW k \in Nat,
           NEW h \in Nat, NEW f \in Nat, NEW l \in Nat, NEW s \in Nat, NEW F,
           Sound(n, c, a, d, r, k, h, f, l, s, F), NEW p, OnLossReport(p)
    PROVE  Inv' /\ UNCHANGED broken
<1>0. Ordered(n, c, a, d, r, k, h, f, s)
    BY Order, Zenon
<1> USE DEF Sound, Ordered
<1>1. /\ UNCHANGED <<written, sndBuf, sent, sndCurr, sndLastAck, sndLastDataAck, taken, bufVars, rcvVars>>
      /\ p.kind = "nak" /\ p \in net /\ net' \subseteq net
    <2>1. p \in net /\ net' \subseteq net \cup {}
        BY ReceivedNet DEF OnLossReport
    <2> QED  BY <2>1 DEF OnLossReport
<1>2. PICK i, j \in 0 .. r - 1 : i <= j /\ p.a = N(i) /\ p.b = N(j)
    BY <1>1, PacketKinds DEF Flight
<1>3. i \in Nat /\ j \in Nat /\ j < c /\ i \in Ind /\ j \in Ind /\ j < MaxBytes
    BY <1>0 DEF Ind
<1>4. ~(seqcmp(p.b, sndCurr) > 0)
    <2>1. seqcmp(N(j), Prev(c)) > 0 <=> j >= c
        BY <1>0, <1>3, NumAfterPrev
    <2> QED  BY <1>2, <1>3, <2>1 DEF Sender
<1>5. sndLoss' = sndLoss \cup Reported(p) /\ UNCHANGED broken
    BY <1>4 DEF OnLossReport
<1>6. Reported(p) \subseteq Num(d, c - 1)
    <2> SUFFICES ASSUME NEW q \in Reported(p) PROVE q \in Num(d, c - 1)
        OBVIOUS
    <2>1. q \in Num(i, j) /\ seqcmp(q, N(a)) >= 0
        BY <1>2, <1>3, NumRange DEF Reported, Sender
    <2>2. PICK m \in i .. j : q = N(m)
        BY <2>1 DEF Num
    <2>3. m \in Ind
        BY <1>0, <1>3 DEF Ind
    <2>4. m >= a
        BY <1>0, <2>1, <2>2, <2>3, NumOff
    <2>5. m \in d .. c - 1
        BY <1>0, <1>3, <2>4
    <2> QED  BY <2>2, <2>5 DEF Num
<1>7. Stream(n, F)' /\ Receiver(c, r, k, h, f, s)' /\ Buffer(r, h, s, F)' /\ Application(k, h, f, l, s, F)'
    BY <1>1, StreamStays, ReceiverStays, BufferStays, ApplicationStays DEF bufVars, rcvVars
<1>8. Flight(c, r, k, F)'
    BY <1>1, FlightStays
<1>9. sndLoss' \subseteq Num(d, c - 1)
    BY <1>5, <1>6 DEF Sender
<1>10. Sender(n, c, a, d, F)'
    BY <1>1, <1>9 DEF Sender, N, Prev, Num, Blk, None
<1>11. Inv'
    BY <1>0, <1>7, <1>8, <1>10, Witnessed
<1> QED  BY <1>5, <1>11

(* The timer's retransmission names the packets that are sent and not acknowledged. *)
LEMMA ExpireInv ==
    ASSUME NEW n \in Nat, NEW c \in Nat, NEW a \in Nat, NEW d \in Nat, NEW r \in Nat, NEW k \in Nat,
           NEW h \in Nat, NEW f \in Nat, NEW l \in Nat, NEW s \in Nat, NEW F,
           Sound(n, c, a, d, r, k, h, f, l, s, F), NEW e \in {"s", "r"}, Expire(e)
    PROVE  Inv'
<1>0. Ordered(n, c, a, d, r, k, h, f, s)
    BY Order, Zenon
<1> USE DEF Sound, Ordered
<1>1. /\ UNCHANGED <<written, sndBuf, sent, sndCurr, sndLastAck, sndLastDataAck, taken, bufVars, rcvVars>>
      /\ sndLoss' \subseteq sndLoss \cup Unacked /\ net' \subseteq net \cup {KeepAlive(e)}
    BY DEF Expire
<1>2. Unacked \subseteq Num(d, c - 1)
    <2>1. incseq(sndCurr) = N(c)
        BY <1>0, NumStep DEF Sender
    <2>2. CASE c > a
        <3>1. c - 1 \in Nat /\ c - 1 \in Ind /\ a <= c - 1 /\ c > 0
            BY <1>0, <2>2 DEF Ind
        <3>2. Numbers(N(a), N(c - 1)) = Num(a, c - 1) /\ sndCurr = N(c - 1)
            BY <1>0, <3>1, NumRange DEF Sender, Prev
        <3>3. Num(a, c - 1) \subseteq Num(d, c - 1)
            BY <1>0, NumSub
        <3> QED  BY <3>2, <3>3 DEF Unacked, Sender
    <2>3. CASE ~(c > a)
        <3>1. c = a
            BY <1>0, <2>3
        <3> QED  BY <2>1, <3>1 DEF Unacked, Sender
    <2> QED  BY <2>2, <2>3
<1>3. Stream(n, F)' /\ Receiver(c, r, k, h, f, s)' /\ Buffer(r, h, s, F)' /\ Application(k, h, f, l, s, F)'
    BY <1>1, StreamStays, ReceiverStays, BufferStays, ApplicationStays DEF bufVars, rcvVars
<1>4. Flight(c, r, k, F)'
    <2>1. Packet(KeepAlive(e), c, r, k, F)
        BY DEF Packet
    <2> QED  BY <1>1, <2>1, FlightAdds, c <= c, r <= r, k <= k
<1>5. sndLoss' \subseteq Num(d, c - 1)
    BY <1>1, <1>2 DEF Sender
<1>6. Sender(n, c, a, d, F)'
    BY <1>1, <1>5 DEF Sender, N, Prev, Num, Blk, None
<1> QED  BY <1>0, <1>3, <1>4, <1>6, Witnessed

(* NextAck has the index of the first packet that is missing. *)
LEMMA NextAckIndex ==
    ASSUME NEW n \in Nat, NEW c \in Nat, NEW a \in Nat, NEW d \in Nat, NEW r \in Nat, NEW k \in Nat,
           NEW h \in Nat, NEW f \in Nat, NEW l \in Nat, NEW s \in Nat, NEW F,
           Sound(n, c, a, d, r, k, h, f, l, s, F)
    PROVE  \E q \in k .. r : NextAck = N(q) /\ rcvLoss \subseteq Num(q, r - 1)
<1>0. Ordered(n, c, a, d, r, k, h, f, s)
    BY Order, Zenon
<1> USE DEF Sound, Ordered
<1>1. rcvLoss \subseteq Num(k, r - 1)
    BY DEF Receiver
<1>2. CASE rcvLoss = {}
    <2>1. NextAck = N(r)
        BY <1>0, <1>2, NumStep DEF NextAck, Receiver
    <2>2. r \in k .. r
        BY <1>0
    <2> QED  BY <1>2, <2>1, <2>2
<1>3. CASE rcvLoss # {}
    <2>1. r - 1 \in Int /\ r - 1 <= MaxBytes
        BY <1>0
    <2>2. PICK q \in k .. r - 1 : /\ First(rcvLoss) = N(q) /\ N(q) \in rcvLoss
                                  /\ \A i \in k .. r - 1 : i < q => N(i) \notin rcvLoss
        BY <1>0, <1>1, <1>3, <2>1, NumFirst
    <2>3. \A i \in k .. r - 1 : i < q \/ i \in q .. r - 1
        OBVIOUS
    <2>4. rcvLoss \subseteq Num(q, r - 1)
        BY <1>1, <2>2, <2>3 DEF Num
    <2>5. q \in k .. r
        OBVIOUS
    <2> QED  BY <1>3, <2>2, <2>4, <2>5 DEF NextAck
<1> QED  BY <1>2, <1>3

LEMMA BufferSize ==
    ASSUME NEW s \in Nat, DOMAIN units = 0 .. s - 1
    PROVE  rcvBufSize = s
<1>1. 0 \in Int /\ s - 1 \in Int
    OBVIOUS
<1>2. Cardinality(0 .. s - 1) = s - 1 - 0 + 1
    <2>1. 0 <= s - 1 \/ s = 0
        OBVIOUS
    <2>2. Cardinality(0 .. s - 1) = IF 0 > s - 1 THEN 0 ELSE s - 1 - 0 + 1
        BY <1>1, FS_Interval
    <2> QED  BY <2>1, <2>2
<1> QED  BY <1>2 DEF rcvBufSize

(* The receiver acknowledges up to the first packet that is missing. *)
LEMMA AckTimerInv ==
    ASSUME NEW n \in Nat, NEW c \in Nat, NEW a \in Nat, NEW d \in Nat, NEW r \in Nat, NEW k \in Nat,
           NEW h \in Nat, NEW f \in Nat, NEW l \in Nat, NEW s \in Nat, NEW F,
           Sound(n, c, a, d, r, k, h, f, l, s, F), AckTimer
    PROVE  Inv'
<1>10. PICK q \in k .. r : NextAck = N(q) /\ rcvLoss \subseteq Num(q, r - 1)
    BY NextAckIndex, Zenon
<1>0. Ordered(n, c, a, d, r, k, h, f, s)
    BY Order, Zenon
<1> USE DEF Sound, Ordered
<1>1. /\ UNCHANGED <<sndVars, units, start, notch, reading, read, rcvCurr, rcvLoss>>
      /\ rcvLastAck' = N(q) /\ lastPos' = Position(seqoff(rcvLastAck, NextAck))
    BY <1>10 DEF AckTimer
<1>2. q \in Nat /\ k <= q /\ q <= r /\ q \in Ind
    BY <1>0 DEF Ind
<1>3. rcvBufSize = s
    BY BufferSize DEF Buffer
<1>4. seqoff(rcvLastAck, NextAck) = q - k /\ q - k \in Nat
    BY <1>0, <1>2, <1>10, NumOff DEF Receiver
<1>5. s \in Nat \ {0} /\ k + (q - k) = q
    BY <1>0
<1>6. lastPos' = q % s
    <2>1. ((k % s) + (q - k)) % s = (k + (q - k)) % s
        <3>1. Turns(k, q - k, s)
            BY <1>4, <1>5, ModStep, Zenon
        <3> QED  BY <3>1, Zenon DEF Turns
    <2> QED  BY <1>1, <1>3, <1>4, <1>5, <2>1 DEF Position, Receiver
<1>7. Stream(n, F)' /\ Sender(n, c, a, d, F)' /\ Buffer(r, h, s, F)'
    BY <1>1, StreamStays, SenderStays, BufferStays DEF sndVars
<1>8. Receiver(c, r, q, h, f, s)'
    <2>1. q <= r /\ h <= q
        BY <1>0, <1>2
    <2> QED  BY <1>1, <1>6, <1>10, <2>1 DEF Receiver, N, Prev, Num
<1>9. Application(q, h, f, l, s, F)'
    <2>1. Application(k, h, f, l, s, F)
        BY Zenon DEF Sound
    <2>2. (notch # 0 => h < k) /\ (reading # NotReading => l <= k)
        BY <2>1, Zenon DEF Application
    <2>3. (h < k => h < q) /\ (l <= k => l <= q)
        BY <1>2
    <2>4. (notch # 0 => h < q) /\ (reading # NotReading => l <= q)
        BY <2>2, <2>3, Zenon
    <2> QED  BY <1>1, <2>1, <2>4, Zenon DEF Application, NotReading, None
<1>11. Flight(c, r, q, F)'
    <2> DEFINE pos == Position(seqoff(rcvLastAck, NextAck))
               size == IF pos >= start THEN pos - start ELSE rcvBufSize + pos - start
               win == Window(rcvBufSize - size - 1)
    <2>1. pos \in Int /\ start \in Int
        <3>1. pos = q % s /\ start = f % s /\ q % s \in Int /\ f % s \in Int
            BY <1>1, <1>5, <1>6 DEF Receiver
        <3> QED  BY <3>1
    <2>2. size \in Int
        BY <1>3, <2>1
    <2>3. win \in Int
        <3> HIDE DEF size
        <3> QED  BY <1>3, <2>2 DEF Window
    <2>4. net' \subseteq net \cup {Ack(N(q), win)}
        BY <1>10 DEF AckTimer
    <2> HIDE DEF win
    <2>5. Packet(Ack(N(q), win), c, r, q, F)
        BY <1>2, <2>3 DEF Packet
    <2> QED  BY <1>2, <2>4, <2>5, FlightAdds, c <= c, r <= r
<1> QED  BY <1>0, <1>2, <1>7, <1>8, <1>9, <1>11, Witnessed

LEMMA LiteAckTimerInv ==
    ASSUME NEW n \in Nat, NEW c \in Nat, NEW a \in Nat, NEW d \in Nat, NEW r \in Nat, NEW k \in Nat,
           NEW h \in Nat, NEW f \in Nat, NEW l \in Nat, NEW s \in Nat, NEW F,
           Sound(n, c, a, d, r, k, h, f, l, s, F), LiteAckTimer
    PROVE  Inv'
<1>10. PICK q \in k .. r : NextAck = N(q) /\ rcvLoss \subseteq Num(q, r - 1)
    BY NextAckIndex, Zenon
<1>0. Ordered(n, c, a, d, r, k, h, f, s)
    BY Order, Zenon
<1> USE DEF Sound, Ordered
<1>1. UNCHANGED <<sndVars, bufVars, rcvVars>> /\ net' \subseteq net \cup {LiteAck(N(q))}
    BY <1>10 DEF LiteAckTimer
<1>2. Stream(n, F)' /\ Sender(n, c, a, d, F)' /\ Receiver(c, r, k, h, f, s)'
    BY <1>1, StreamStays, SenderStays, ReceiverStays DEF sndVars, bufVars, rcvVars
<1>3. Buffer(r, h, s, F)' /\ Application(k, h, f, l, s, F)'
    BY <1>1, BufferStays, ApplicationStays DEF bufVars, rcvVars
<1>4. Packet(LiteAck(N(q)), c, r, k, F)
    <2>1. q \in 0 .. r
        OBVIOUS
    <2> QED  BY <2>1 DEF Packet
<1>5. Flight(c, r, k, F)'
    BY <1>1, <1>4, FlightAdds, c <= c, r <= r, k <= k
<1> QED  BY <1>0, <1>2, <1>3, <1>5, Witnessed

(* The end of readBuffer(): the places of what was read are free. *)
LEMMA EndReadInv ==
    ASSUME NEW n \in Nat, NEW c \in Nat, NEW a \in Nat, NEW d \in Nat, NEW r \in Nat, NEW k \in Nat,
           NEW h \in Nat, NEW f \in Nat, NEW l \in Nat, NEW s \in Nat, NEW F,
           Sound(n, c, a, d, r, k, h, f, l, s, F), EndRead
    PROVE  Inv'
<1>0. Ordered(n, c, a, d, r, k, h, f, s)
    BY Order, Zenon
<1> USE DEF Sound, Ordered
<1>1. /\ UNCHANGED <<units, lastPos, notch, read, sndVars, rcvVars, net>>
      /\ start' = reading.pos /\ reading # NotReading /\ reading' = NotReading
    BY DEF EndRead, netVars
<1>2. start' = h % s
    BY <1>1 DEF Application
<1>3. Stream(n, F)' /\ Sender(n, c, a, d, F)' /\ Buffer(r, h, s, F)' /\ Flight(c, r, k, F)'
    BY <1>1, StreamStays, SenderStays, BufferStays, FlightStays DEF sndVars, rcvVars
<1>4. Receiver(c, r, k, h, h, s)'
    <2>1. h <= h /\ r <= h + s - 1
        BY <1>0
    <2> QED  BY <1>1, <1>2, <2>1 DEF Receiver, rcvVars, N, Prev, Num
<1>5. Application(k, h, h, l, s, F)'
    BY <1>1 DEF Application, NotReading, None
<1> QED  BY <1>0, <1>3, <1>4, <1>5, Witnessed

(* A block is not empty. *)
LEMMA BlockReal ==
    ASSUME NEW n \in Nat, NEW F, Stream(n, F), NEW i \in 0 .. n - 1
    PROVE  /\ F[i] \in Nat /\ F[i + 1] \in Nat /\ F[i] < F[i + 1] /\ F[i] >= 1
           /\ Blk(F, i) # Nothing /\ Blk(F, i) \in [from : Nat, len : Nat]
<1>1. i \in 0 .. n /\ i + 1 \in 0 .. n /\ i < i + 1 /\ 0 \in 0 .. n /\ (i = 0 \/ 0 < i)
    OBVIOUS
<1>2. F[i] \in Nat /\ F[i + 1] \in Nat /\ F[i] < F[i + 1] /\ F[0] = 1 /\ (0 < i => F[0] < F[i])
    BY <1>1 DEF Stream
<1>3. F[i] >= 1
    BY <1>1, <1>2
<1>4. Blk(F, i).len > 0 /\ Nothing.len = 0
    BY <1>2 DEF Blk, Nothing
<1> QED  BY <1>2, <1>3, <1>4 DEF Blk

(* How much there is to read and how much room: the size of the buffer as getRcvDataSize()
   and getAvailBufSize() compute it from the positions. *)
Measured(k, f, s) == rcvBufSize = s /\ DataSize = k - f /\ AvailBufSize = s - (k - f) - 1

LEMMA Sizes ==
    ASSUME NEW n \in Nat, NEW c \in Nat, NEW a \in Nat, NEW d \in Nat, NEW r \in Nat, NEW k \in Nat,
           NEW h \in Nat, NEW f \in Nat, NEW l \in Nat, NEW s \in Nat, NEW F,
           Sound(n, c, a, d, r, k, h, f, l, s, F)
    PROVE  Measured(k, f, s)
<1>0. Ordered(n, c, a, d, r, k, h, f, s)
    BY Order, Zenon
<1> USE DEF Sound, Ordered
<1>1. rcvBufSize = s
    BY BufferSize DEF Buffer
<1>2. s \in Nat \ {0} /\ f <= k /\ k < f + s
    BY <1>0
<1>3. (IF k % s >= f % s THEN (k % s) - (f % s) ELSE s + (k % s) - (f % s)) = k - f
    BY <1>2, ModApart
<1>4. DataSize = k - f
    BY <1>1, <1>3 DEF DataSize, Receiver
<1> QED  BY <1>1, <1>4 DEF AvailBufSize, Measured

(* A unit that is kept goes to the free place of its index. *)
LEMMA OnDataInv ==
    ASSUME NEW n \in Nat, NEW c \in Nat, NEW a \in Nat, NEW d \in Nat, NEW r \in Nat, NEW k \in Nat,
           NEW h \in Nat, NEW f \in Nat, NEW l \in Nat, NEW s \in Nat, NEW F,
           Sound(n, c, a, d, r, k, h, f, l, s, F), NEW p, OnData(p)
    PROVE  Inv'
<1>11. Measured(k, f, s)
    BY Sizes, Zenon
<1>10. rcvBufSize = s /\ DataSize = k - f /\ AvailBufSize = s - (k - f) - 1
    BY <1>11 DEF Measured
<1>0. Ordered(n, c, a, d, r, k, h, f, s)
    BY Order, Zenon
<1> USE DEF Sound, Ordered
<1> DEFINE off == seqoff(rcvLastAck, p.seq)
           pos == Position(off)
           kept == off >= 0 /\ off < AvailBufSize /\ units[pos] = Nothing
           gap == kept /\ seqcmp(p.seq, incseq(rcvCurr)) > 0
<1>1. /\ UNCHANGED <<sndVars, start, lastPos, notch, reading, read, rcvLastAck>>
      /\ p.kind = "data" /\ p \in net
      /\ net' \subseteq net \cup (IF gap THEN {LossReport(incseq(rcvCurr), decseq(p.seq))} ELSE {})
      /\ units' = IF kept THEN [units EXCEPT ![pos] = p.block] ELSE units
      /\ rcvLoss' = IF gap THEN rcvLoss \cup Numbers(incseq(rcvCurr), decseq(p.seq))
                    ELSE IF kept THEN rcvLoss \ {p.seq} ELSE rcvLoss
      /\ rcvCurr' = IF kept /\ seqcmp(p.seq, rcvCurr) > 0 THEN p.seq ELSE rcvCurr
    BY ReceivedNet DEF OnData
<1>2. PICK j \in 0 .. c - 1 : p.seq = N(j) /\ p.block = Blk(F, j)
    BY <1>1, PacketKinds DEF Flight
<1>3. j \in Nat /\ j < c /\ j \in Ind /\ j < MaxBytes /\ j + 1 \in Ind
    BY <1>0 DEF Ind
<1>4. off = j - k
    BY <1>0, <1>2, <1>3, NumOff DEF Receiver
<1>5. incseq(rcvCurr) = N(r)
    BY <1>0, NumStep DEF Receiver
<1>6. (seqcmp(p.seq, incseq(rcvCurr)) > 0 <=> j > r) /\ (seqcmp(p.seq, rcvCurr) > 0 <=> j >= r)
    BY <1>0, <1>2, <1>3, <1>5, NumOff, NumAfterPrev DEF Receiver
<1>7. Stream(n, F)' /\ Sender(n, c, a, d, F)' /\ Application(k, h, f, l, s, F)'
    BY <1>1, StreamStays, SenderStays, ApplicationStays DEF sndVars
<1>8. CASE ~kept
    <2>1. UNCHANGED <<units, rcvLoss, rcvCurr>> /\ net' \subseteq net
        <3> HIDE DEF kept
        <3> QED  BY <1>1, <1>8
    <2>2. Receiver(c, r, k, h, f, s)' /\ Buffer(r, h, s, F)' /\ Flight(c, r, k, F)'
        BY <1>1, <2>1, ReceiverStays, BufferStays, FlightStays
    <2> QED  BY <1>0, <1>7, <2>2, Witnessed
<1>9. CASE kept
    <2>1. k <= j /\ j < f + s - 1
        BY <1>0, <1>3, <1>4, <1>9, <1>10
    <2>2. pos = j % s /\ units[j % s] = Nothing
        <3>1. s \in Nat \ {0} /\ j - k \in Nat /\ k + (j - k) = j
            BY <1>0, <1>3, <2>1
        <3>2. ((k % s) + (j - k)) % s = (k + (j - k)) % s
            <4>1. Turns(k, j - k, s)
                BY <3>1, ModStep, Zenon
            <4> QED  BY <4>1, Zenon DEF Turns
        <3>3. pos = j % s
            BY <1>4, <1>10, <3>1, <3>2 DEF Position, Receiver
        <3> QED  BY <1>9, <3>3
    <2>3. j \in h .. h + s - 1
        BY <1>0, <1>3, <2>1
    <2>4. j >= r \/ N(j) \in rcvLoss
        <3>1. Held(r, F, j) = Nothing
            BY <2>2, <2>3 DEF Buffer
        <3>2. j \in 0 .. n - 1
            BY <1>0, <1>3
        <3>3. Blk(F, j) # Nothing
            BY <3>2, BlockReal
        <3> QED  BY <1>3, <3>1, <3>3 DEF Held
    <2>5. PICK rr \in Nat : /\ rr = (IF j >= r THEN j + 1 ELSE r) /\ r <= rr /\ rr <= c /\ rr <= f + s - 1
                            /\ rr \in Ind /\ j < rr
        <3>1. CASE j >= r
            BY <1>0, <1>3, <2>1, <3>1
        <3>2. CASE ~(j >= r)
            BY <1>0, <1>3, <3>2
        <3> QED  BY <3>1, <3>2
    <2>6. rcvLoss' = IF j > r THEN rcvLoss \cup Num(r, j - 1) ELSE rcvLoss \ {N(j)}
        <3>1. CASE j > r
            <4>1. decseq(p.seq) = N(j - 1) /\ j - 1 \in Ind /\ r <= j - 1
                <5>1. j > 0 /\ r <= j - 1 /\ j - 1 \in Ind
                    BY <1>0, <1>3, <3>1 DEF Ind
                <5> QED  BY <1>2, <1>3, <5>1, NumStep
            <4>2. Numbers(N(r), N(j - 1)) = Num(r, j - 1)
                BY <1>0, <4>1, NumRange
            <4> HIDE DEF kept
            <4> QED  BY <1>1, <1>5, <1>6, <1>9, <3>1, <4>1, <4>2
        <3>2. CASE ~(j > r)
            <4> HIDE DEF kept
            <4> QED  BY <1>1, <1>2, <1>6, <1>9, <3>2
        <3> QED  BY <3>1, <3>2
    <2>7. rcvCurr' = Prev(rr)
        <3>1. CASE j >= r
            <4>1. rcvCurr' = N(j)
                <5> HIDE DEF kept
                <5> QED  BY <1>1, <1>2, <1>6, <1>9, <3>1
            <4>2. Prev(j + 1) = N(j)
                BY <1>3, NumStep
            <4> QED  BY <2>5, <3>1, <4>1, <4>2
        <3>2. CASE ~(j >= r)
            <4>1. rcvCurr' = rcvCurr
                <5> HIDE DEF kept
                <5> QED  BY <1>1, <1>6, <3>2
            <4> QED  BY <2>5, <3>2, <4>1 DEF Receiver
        <3> QED  BY <3>1, <3>2
    <2>8. rcvLoss' \subseteq Num(k, rr - 1)
        <3>1. Num(k, r - 1) \subseteq Num(k, rr - 1)
            BY <2>5, NumSub
        <3>2. j > r => Num(r, j - 1) \subseteq Num(k, rr - 1)
            BY <1>0, <1>3, <2>5, NumSub
        <3> QED  BY <2>6, <3>1, <3>2 DEF Receiver
    <2>9. Receiver(c, rr, k, h, f, s)'
        <3>1. k <= rr
            BY <1>0, <2>5
        <3> QED  BY <1>1, <2>5, <2>7, <2>8, <3>1 DEF Receiver, N, Prev, Num
    <2>10. ASSUME NEW i \in h .. h + s - 1, i # j
           PROVE  (i < rr /\ N(i) \notin rcvLoss') <=> (i < r /\ N(i) \notin rcvLoss)
        <3>1. i \in Nat /\ r \in Nat
            OBVIOUS
        <3>2. CASE i < r
            <4>1. i \in Ind
                BY <1>0, <3>1, <3>2, InInd
            <4>2. N(i) # N(j) /\ (j > r => N(i) \notin Num(r, j - 1))
                <5>1. N(i) # N(j)
                    BY <1>3, <2>10, <4>1, NumOff
                <5>2. ASSUME NEW m \in r .. j - 1 PROVE N(i) # N(m)
                    <6>1. m \in Ind /\ m # i
                        BY <1>0, <1>3, <3>2 DEF Ind
                    <6> QED  BY <4>1, <6>1, NumOff
                <5> QED  BY <5>1, <5>2 DEF Num
            <4>3. N(i) \in rcvLoss' <=> N(i) \in rcvLoss
                BY <2>6, <4>2
            <4> QED  BY <2>5, <3>2, <4>3
        <3>3. CASE ~(i < r)
            <4>1. i < rr => N(i) \in rcvLoss'
                <5> HAVE i < rr
                <5>1. j > r /\ i \in r .. j - 1
                    BY <1>3, <2>5, <2>10, <3>1, <3>3
                <5> QED  BY <2>6, <5>1 DEF Num
            <4> QED  BY <3>3, <4>1
        <3> QED  BY <3>2, <3>3
    <2>11. N(j) \notin rcvLoss'
        <3>1. CASE j > r
            <4>1. ASSUME NEW m \in k .. j - 1 PROVE N(m) # N(j)
                <5>1. m \in Ind /\ m # j
                    BY <1>0, <1>3 DEF Ind
                <5> QED  BY <1>3, <5>1, NumOff
            <4>2. rcvLoss \subseteq Num(k, r - 1) /\ Num(k, r - 1) \subseteq Num(k, j - 1)
                BY <1>0, <1>3, <3>1, NumSub DEF Receiver
            <4>3. Num(r, j - 1) \subseteq Num(k, j - 1)
                BY <1>0, <1>3, NumSub
            <4>4. rcvLoss' \subseteq Num(k, j - 1)
                BY <2>6, <3>1, <4>2, <4>3
            <4> QED  BY <4>1, <4>4 DEF Num
        <3>2. CASE ~(j > r)
            BY <2>6, <3>2
        <3> QED  BY <3>1, <3>2
    <2>12. Buffer(rr, h, s, F)'
        <3>1. DOMAIN units = 0 .. s - 1 /\ units = [q \in 0 .. s - 1 |-> units[q]] /\ j % s \in 0 .. s - 1
            <4>1. j % s \in 0 .. s - 1
                BY <1>0, <1>3
            <4> QED  BY <4>1 DEF Buffer
        <3>2. units' = [units EXCEPT ![j % s] = Blk(F, j)]
            <4> HIDE DEF kept, pos
            <4> QED  BY <1>1, <1>2, <1>9, <2>2
        <3>3. DOMAIN units' = 0 .. s - 1 /\ units' = [q \in 0 .. s - 1 |-> units'[q]]
            BY <3>1, <3>2
        <3>4. ASSUME NEW i \in h .. h + s - 1
              PROVE  units'[i % s] = IF i < rr /\ N(i) \notin rcvLoss' THEN Blk(F, i) ELSE Nothing
            <4>1. CASE i = j
                BY <2>5, <2>11, <3>1, <3>2, <4>1
            <4>2. CASE i # j
                <5>1. i % s # j % s /\ i % s \in 0 .. s - 1
                    <6>1. s \in Nat \ {0} /\ i \in Nat /\ j < i + s /\ i < j + s
                        BY <1>0, <1>3, <2>3
                    <6> QED  BY <1>3, <4>2, <6>1, ModDiffer
                <5>2. units'[i % s] = units[i % s]
                    BY <3>1, <3>2, <5>1
                <5>3. units[i % s] = Held(r, F, i)
                    BY DEF Buffer
                <5> QED  BY <2>10, <4>2, <5>2, <5>3 DEF Held
            <4> QED  BY <4>1, <4>2
        <3> QED  BY <3>3, <3>4 DEF Buffer, Held, Blk, Nothing, N
    <2>13. Flight(c, rr, k, F)'
        <3>1. CASE j > r
            <4>1. decseq(p.seq) = N(j - 1)
                <5>1. j > 0
                    BY <1>3, <3>1
                <5> QED  BY <1>2, <1>3, <5>1, NumStep
            <4>2. net' \subseteq net \cup {LossReport(N(r), N(j - 1))}
                <5> HIDE DEF kept
                <5> QED  BY <1>1, <1>5, <1>6, <1>9, <3>1, <4>1
            <4>3. r \in 0 .. rr - 1 /\ j - 1 \in 0 .. rr - 1 /\ r <= j - 1
                BY <1>3, <2>5, <3>1
            <4>4. Packet(LossReport(N(r), N(j - 1)), c, rr, k, F)
                BY <4>3 DEF Packet
            <4> QED  BY <2>5, <4>2, <4>4, FlightAdds, c <= c, k <= k
        <3>2. CASE ~(j > r)
            <4>1. net' \subseteq net
                <5> HIDE DEF kept
                <5> QED  BY <1>1, <1>6, <3>2
            <4>2. Packet(KeepAlive("s"), c, rr, k, F) /\ net' \subseteq net \cup {KeepAlive("s")}
                BY <4>1 DEF Packet
            <4> QED  BY <2>5, <4>2, FlightAdds, c <= c, k <= k
        <3> QED  BY <3>1, <3>2
    <2> QED  BY <1>0, <1>7, <2>5, <2>9, <2>12, <2>13, Witnessed
<1> QED  BY <1>8, <1>9

(* The first m bytes of the stream and the next z are the first m + z. *)
(* The parts of a concatenation. *)
Joins(S, q, p, b, y, m) ==
    /\ q \in Seq(S) /\ Len(q) = y + m
    /\ \A j \in 1 .. y + m : q[j] = IF j <= y THEN p[j] ELSE b[j - y]

LEMMA Joined ==
    ASSUME NEW S, NEW p \in Seq(S), NEW b \in Seq(S)
    PROVE  Joins(S, p \o b, p, b, Len(p), Len(b))
BY ConcatProperties DEF Joins

Begins(q, m) == q \in Seq(Nat) /\ Len(q) = m /\ \A i \in 1 .. m : q[i] = i

LEMMA StreamGoesOn ==
    ASSUME NEW m \in Nat, NEW z \in Nat, NEW q, Begins(q, m), NEW w, w = [i \in 1 .. z |-> m + i]
    PROVE  Begins(q \o w, m + z)
<1>0. q \in Seq(Nat) /\ Len(q) = m /\ \A i \in 1 .. m : q[i] = i
    BY DEF Begins
<1>1. w \in Seq(Nat) /\ Len(w) = z /\ \A i \in 1 .. z : w[i] = m + i
    <2>1. \A i \in 1 .. z : m + i \in Nat
        OBVIOUS
    <2>2. DOMAIN w = 1 .. z /\ w \in [1 .. z -> Nat]
        BY <2>1
    <2> QED  BY <2>2
<1>2. /\ q \o w \in Seq(Nat) /\ Len(q \o w) = m + z
      /\ \A i \in 1 .. m + z : (q \o w)[i] = IF i <= m THEN q[i] ELSE w[i - m]
    <2>1. Joins(Nat, q \o w, q, w, Len(q), Len(w))
        BY <1>0, <1>1, Joined, Zenon
    <2>2. Joins(Nat, q \o w, q, w, m, z)
        BY <1>0, <1>1, <2>1, Zenon
    <2> QED  BY <2>2, Zenon DEF Joins
<1>3. ASSUME NEW i \in 1 .. m + z PROVE (q \o w)[i] = i
    <2>1. CASE i <= m
        <3>1. i \in 1 .. m
            BY <2>1
        <3> QED  BY <1>0, <1>2, <2>1, <3>1
    <2>2. CASE ~(i <= m)
        <3>1. i - m \in 1 .. z /\ m + (i - m) = i
            BY <2>2
        <3>2. (q \o w)[i] = w[i - m]
            BY <1>2, <2>2
        <3> QED  BY <1>1, <3>1, <3>2
    <2> QED  BY <2>1, <2>2
<1> QED  BY <1>2, <1>3 DEF Begins

(* The next bytes of the stream are copied to the application. *)
GoesOn == \E z \in Nat \ {0} : read' = read \o [i \in 1 .. z |-> Len(read) + i]

(* A turn of the loop of readBuffer(): the next bytes of the stream are copied, and a unit
   that was read to its end leaves its place to the index a turn of the circle later. *)
LEMMA CopyUnitInv ==
    ASSUME NEW n \in Nat, NEW c \in Nat, NEW a \in Nat, NEW d \in Nat, NEW r \in Nat, NEW k \in Nat,
           NEW h \in Nat, NEW f \in Nat, NEW l \in Nat, NEW s \in Nat, NEW F,
           Sound(n, c, a, d, r, k, h, f, l, s, F), NEW q,
           h <= l, l <= k, q.left \in Nat, q = [pos |-> h % s, left |-> q.left, last |-> l % s],
           CopyUnit(q)
    PROVE  Inv' /\ GoesOn
<1>11. Measured(k, f, s)
    BY Sizes, Zenon
<1>0. Ordered(n, c, a, d, r, k, h, f, s)
    BY Order, Zenon
<1> USE DEF Sound, Ordered
<1> DEFINE u == units[q.pos]
           size == Less(u.len - notch, q.left)
           whole == size = u.len - notch
<1>1. /\ q.pos # q.last /\ q.left > 0
      /\ read' = read \o [i \in 1 .. size |-> u.from + notch + i - 1]
      /\ units' = IF whole THEN [units EXCEPT ![q.pos] = Nothing] ELSE units
      /\ notch' = IF whole THEN 0 ELSE notch + q.left
      /\ reading' = [pos  |-> IF whole THEN (q.pos + 1) % rcvBufSize ELSE q.pos,
                     left |-> q.left - size, last |-> q.last]
      /\ UNCHANGED <<start, lastPos, sndVars, rcvVars, net>>
    BY DEF CopyUnit, netVars
<1>2. q.pos = h % s /\ q.last = l % s /\ s \in Nat \ {0}
    BY <1>0
<1>3. h < l /\ h < k /\ h < n
    <2>1. h # l
        BY <1>1, <1>2
    <2> QED  BY <1>0, <2>1
<1>4. u = Blk(F, h)
    <2>1. h < r /\ h \in h .. h + s - 1
        BY <1>0, <1>3
    <2>2. N(h) \notin rcvLoss
        <3>1. ASSUME NEW m \in k .. r - 1 PROVE N(m) # N(h)
            <4>1. m \in Ind /\ m # h
                BY <1>0, <1>3 DEF Ind
            <4> QED  BY <1>0, <4>1, NumOff
        <3> QED  BY <3>1 DEF Receiver, Num
    <2> QED  BY <1>2, <2>1, <2>2 DEF Buffer, Held
<1>5. PICK x \in Nat, y \in Nat : x = F[h] /\ y = F[h + 1] /\ x < y /\ x >= 1
    <2>1. h \in 0 .. n - 1
        BY <1>3
    <2> QED  BY <2>1, BlockReal
<1>6. u.from = x /\ u.len = y - x /\ notch \in Nat /\ notch < y - x
    <2>1. u.from = x /\ u.len = y - x
        BY <1>4, <1>5 DEF Blk
    <2>2. Application(k, h, f, l, s, F)
        BY Zenon DEF Sound
    <2>3. notch \in Nat /\ (notch # 0 => notch < F[h + 1] - F[h])
        BY <2>2, Zenon DEF Application
    <2>4. notch \in Nat /\ (notch # 0 => notch < y - x)
        BY <1>5, <2>3, Zenon
    <2>5. notch < y - x
        BY <1>5, <2>4
    <2> QED  BY <2>1, <2>4, <2>5
<1>7. PICK z \in Nat : /\ z = size /\ z > 0 /\ z <= q.left /\ z <= (y - x) - notch
                       /\ (z = (y - x) - notch \/ z = q.left)
    <2>0. PICK g \in Nat : g = q.left /\ g > 0
        BY <1>1
    <2>1. PICK m \in Nat : m = (y - x) - notch /\ m > 0 /\ u.len - notch = m
        BY <1>6
    <2>2. size = IF m <= g THEN m ELSE g
        BY <2>0, <2>1 DEF Less
    <2> HIDE DEF size
    <2>3. size \in Nat /\ size > 0 /\ size <= g /\ size <= m /\ (size = m \/ size = g)
        BY <2>0, <2>1, <2>2
    <2> QED  BY <2>0, <2>1, <2>3
<1> HIDE DEF size
<1>8. /\ read' \in Seq(Nat) /\ Len(read') = (x - 1) + notch + z
      /\ \A i \in 1 .. (x - 1) + notch + z : read'[i] = i
    <2>1. PICK m \in Nat : m = (x - 1) + notch
        BY <1>5, <1>6
    <2>2. \A i \in 1 .. z : x + notch + i - 1 = m + i
        BY <1>6, <2>1
    <2>3. PICK w : w = [i \in 1 .. z |-> m + i] /\ read' = read \o w
        BY <1>1, <1>6, <1>7, <2>2
    <2>4. Begins(read, m)
        BY <1>5, <2>1 DEF Application, Begins
    <2>5. Begins(read \o w, m + z)
        BY <2>3, <2>4, StreamGoesOn
    <2> QED  BY <2>1, <2>3, <2>5 DEF Begins
<1>14. GoesOn
    <2>1. PICK m \in Nat : m = (x - 1) + notch
        BY <1>5, <1>6
    <2>2. \A i \in 1 .. z : x + notch + i - 1 = m + i
        BY <1>6, <2>1
    <2>3. Len(read) = m
        BY <1>5, <2>1 DEF Application
    <2>4. read' = read \o [i \in 1 .. z |-> Len(read) + i]
        BY <1>1, <1>6, <1>7, <2>2, <2>3
    <2>5. z \in Nat \ {0}
        BY <1>7
    <2> QED  BY <2>4, <2>5, Zenon DEF GoesOn
<1> SUFFICES Inv'
    BY <1>14
<1>9. Stream(n, F)' /\ Sender(n, c, a, d, F)' /\ Flight(c, r, k, F)'
    BY <1>1, StreamStays, SenderStays, FlightStays DEF sndVars
<1>10. q.left - z \in Nat /\ rcvBufSize = s
    BY <1>7, <1>11 DEF Measured
<1>12. CASE z = (y - x) - notch
    <2>1. whole
        BY <1>6, <1>7, <1>12
    <2>2. PICK g \in Nat : g = h + 1 /\ g <= l /\ g <= k /\ f <= g /\ g \in Ind
        BY <1>0, <1>3 DEF Ind
    <2>3. ((h % s) + 1) % s = g % s
        <3>1. 1 \in Nat
            OBVIOUS
        <3>2. ((h % s) + 1) % s = (h + 1) % s
            <4>1. Turns(h, 1, s)
                BY <1>2, <3>1, ModStep, Zenon
            <4> QED  BY <4>1, Zenon DEF Turns
        <3> QED  BY <2>2, <3>2
    <2>4. /\ units' = [units EXCEPT ![h % s] = Nothing] /\ notch' = 0
          /\ reading' = [pos |-> g % s, left |-> q.left - z, last |-> l % s]
        BY <1>1, <1>2, <1>7, <1>10, <2>1, <2>3
    <2>5. Receiver(c, r, k, g, f, s)'
        BY <1>1, <2>2 DEF Receiver, rcvVars, N, Prev, Num
    <2>6. Buffer(r, g, s, F)'
        <3>1. DOMAIN units = 0 .. s - 1 /\ units = [m \in 0 .. s - 1 |-> units[m]] /\ h % s \in 0 .. s - 1
            <4>1. h % s \in 0 .. s - 1
                BY <1>2
            <4> QED  BY <4>1 DEF Buffer
        <3>2. DOMAIN units' = 0 .. s - 1 /\ units' = [m \in 0 .. s - 1 |-> units'[m]]
            BY <2>4, <3>1
        <3>3. ASSUME NEW i \in g .. g + s - 1 PROVE units'[i % s] = Held(r, F, i)
            <4>1. i \in Nat
                OBVIOUS
            <4>2. CASE i = h + s
                <5>1. i % s = h % s
                    <6>1. PICK m \in 0 .. s - 1 : h % s = m
                        BY <3>1
                    <6>2. h \in Int /\ s \in Int /\ m = m + s - s
                        OBVIOUS
                    <6>3. (h + s) % s = m
                        BY <1>2, <6>1, <6>2, ModShift
                    <6> QED  BY <4>2, <6>1, <6>3
                <5>2. ~(i < r)
                    BY <1>0, <4>2
                <5> QED  BY <2>4, <3>1, <5>1, <5>2 DEF Held
            <4>3. CASE i # h + s
                <5>1. i # h /\ h < i + s /\ i < h + s /\ i \in h .. h + s - 1
                    BY <2>2, <4>3
                <5>2. i % s # h % s /\ i % s \in 0 .. s - 1
                    BY <1>2, <4>1, <5>1, ModDiffer
                <5>3. units'[i % s] = units[i % s]
                    BY <2>4, <3>1, <5>2
                <5> QED  BY <5>1, <5>3 DEF Buffer
            <4> QED  BY <4>2, <4>3
        <3> QED  BY <1>1, <3>2, <3>3 DEF Buffer, Held, Blk, Nothing, N, rcvVars
    <2>7. Application(k, g, f, l, s, F)'
        <3>1. reading' # NotReading
            <4>1. g % s \in Nat
                BY <1>2
            <4>2. reading'.pos # NotReading.pos
                BY <2>4, <4>1 DEF NotReading, None
            <4> QED  BY <4>2
        <3>2. Len(read') = F[g] - 1 + 0 /\ \A i \in 1 .. Len(read') : read'[i] = i
            <4>1. (x - 1) + notch + z = y - 1
                BY <1>6, <1>12
            <4>2. F[g] - 1 + 0 = y - 1
                BY <1>5, <2>2
            <4> QED  BY <1>8, <4>1, <4>2, Zenon
        <3> QED  BY <1>8, <1>10, <2>2, <2>4, <3>1, <3>2 DEF Application, NotReading, None
    <2> QED  BY <1>0, <1>9, <2>2, <2>5, <2>6, <2>7, Witnessed
<1>13. CASE z # (y - x) - notch
    <2>1. ~whole /\ z = q.left
        BY <1>6, <1>7, <1>13
    <2>2. UNCHANGED units /\ notch' = notch + z
        BY <1>1, <2>1
    <2>3. reading' = [pos |-> h % s, left |-> q.left - z, last |-> l % s]
        BY <1>1, <1>2, <1>7, <2>1
    <2>4. Receiver(c, r, k, h, f, s)' /\ Buffer(r, h, s, F)'
        BY <1>1, <2>2, ReceiverStays, BufferStays DEF rcvVars
    <2>5. Application(k, h, f, l, s, F)'
        <3>1. reading' # NotReading
            <4>1. h % s \in Nat
                BY <1>2
            <4>2. reading'.pos # NotReading.pos
                BY <2>3, <4>1 DEF NotReading, None
            <4> QED  BY <4>2
        <3>2. notch' \in Nat /\ notch' < F[h + 1] - F[h]
            BY <1>5, <1>6, <1>7, <1>13, <2>2
        <3>3. Len(read') = F[h] - 1 + notch' /\ \A i \in 1 .. Len(read') : read'[i] = i
            <4>1. (x - 1) + notch + z = x - 1 + notch'
                BY <1>6, <2>2
            <4> QED  BY <1>5, <1>8, <4>1
        <3> QED  BY <1>3, <1>8, <1>10, <2>3, <3>1, <3>2, <3>3 DEF Application, NotReading, None
    <2> QED  BY <1>0, <1>9, <2>4, <2>5, Witnessed
<1> QED  BY <1>12, <1>13

(* recv() begins at the first place that is not free, and goes at most to what is
   acknowledged now. *)
LEMMA BeginReadInv ==
    ASSUME NEW n \in Nat, NEW c \in Nat, NEW a \in Nat, NEW d \in Nat, NEW r \in Nat, NEW k \in Nat,
           NEW h \in Nat, NEW f \in Nat, NEW l \in Nat, NEW s \in Nat, NEW F,
           Sound(n, c, a, d, r, k, h, f, l, s, F), NEW len \in ReadSizes, BeginRead(len)
    PROVE  Inv' /\ GoesOn
<1>0. Ordered(n, c, a, d, r, k, h, f, s)
    BY Order, Zenon
<1> USE DEF Sound, Ordered
<1>1. PICK q : q = [pos |-> start, left |-> len, last |-> lastPos]
    OBVIOUS
<1>2. CopyUnit(q) /\ reading = NotReading
    BY <1>1 DEF BeginRead
<1>3. h = f /\ len \in Nat
    BY <1>2, TransferAssumption DEF Application
<1>4. q.left \in Nat /\ q = [pos |-> h % s, left |-> q.left, last |-> k % s]
    BY <1>1, <1>3 DEF Receiver
<1>5. h <= k /\ k <= k
    BY <1>0
<1>6. Application(k, h, f, k, s, F)
    BY <1>2 DEF Application
<1>7. Sound(n, c, a, d, r, k, h, f, k, s, F)
    BY <1>6
<1> HIDE DEF Sound, Ordered
<1> QED  BY <1>2, <1>4, <1>5, <1>7, CopyUnitInv, Zenon

LEMMA ReadOnInv ==
    ASSUME NEW n \in Nat, NEW c \in Nat, NEW a \in Nat, NEW d \in Nat, NEW r \in Nat, NEW k \in Nat,
           NEW h \in Nat, NEW f \in Nat, NEW l \in Nat, NEW s \in Nat, NEW F,
           Sound(n, c, a, d, r, k, h, f, l, s, F), ReadOn
    PROVE  Inv' /\ GoesOn
<1>1. h <= l /\ l <= k /\ reading.left \in Nat
      /\ reading = [pos |-> h % s, left |-> reading.left, last |-> l % s]
    BY DEF ReadOn, Sound, Application
<1>2. CopyUnit(reading)
    BY DEF ReadOn
<1>3. PICK q : q = reading
    OBVIOUS
<1>4. q.left \in Nat /\ q = [pos |-> h % s, left |-> q.left, last |-> l % s] /\ CopyUnit(q)
    BY <1>1, <1>2, <1>3 DEF CopyUnit
<1> QED  BY <1>1, <1>4, CopyUnitInv, Zenon

-----------------------------------------------------------------------------
(* Writing: send() cuts what it takes into blocks *)

LEMMA MulMono ==
    ASSUME NEW i \in Nat, NEW j \in Nat, NEW P \in Nat \ {0}, i < j
    PROVE  i * P \in Nat /\ j * P \in Nat /\ i * P + P <= j * P
<1>1. PICK t \in Nat : j = i + 1 + t
    <2>1. j - i - 1 \in Nat /\ j = i + 1 + (j - i - 1)
        OBVIOUS
    <2> QED  BY <2>1
<1>2. PICK u \in Nat, v \in Nat : u = i * P /\ v = t * P
    OBVIOUS
<1>3. j * P = u + P + v
    <2>1. (i + 1 + t) * P = i * P + P + t * P
        OBVIOUS
    <2> QED  BY <1>1, <1>2, <2>1
<1> QED  BY <1>2, <1>3

(* z bytes are m blocks of P bytes, of which the last may be shorter. *)
LEMMA Ceiling ==
    ASSUME NEW z \in Nat \ {0}, NEW P \in Nat \ {0}
    PROVE  \E m \in Nat \ {0} : /\ m = (z + P - 1) \div P /\ m <= z
                                /\ (m - 1) * P < z /\ z <= m * P
<1>1. PICK v \in Nat : v = z + P - 1
    OBVIOUS
<1>2. PICK m \in Int, e \in 0 .. P - 1 : m = v \div P /\ v = P * m + e
    <2>1. v \div P \in Int /\ v % P \in 0 .. P - 1 /\ v = P * (v \div P) + (v % P)
        OBVIOUS
    <2> QED  BY <2>1
<1>3. PICK u \in Int : u = P * m /\ u = m * P
    OBVIOUS
<1>4. z <= u /\ u - P < z
    BY <1>1, <1>2, <1>3
<1>5. m > 0
    <2>1. CASE m <= 0
        <3>1. u <= 0
            <4>1. PICK g \in Nat : g = -m
                BY <2>1
            <4>2. g * P \in Nat /\ u = -(g * P)
                BY <1>3, <4>1
            <4> QED  BY <4>2
        <3> QED  BY <1>4, <3>1
    <2> QED  BY <2>1
<1>6. m <= z
    <2>1. CASE m > z
        <3>1. z * P + P <= u /\ z * P \in Nat
            BY <1>3, <2>1, MulMono
        <3>2. z <= z * P
            <4>1. PICK t \in Nat : P = t + 1
                <5>1. P - 1 \in Nat /\ P = (P - 1) + 1
                    OBVIOUS
                <5> QED  BY <5>1
            <4>2. z * (t + 1) = z * t + z /\ z * t \in Nat
                OBVIOUS
            <4> QED  BY <4>1, <4>2
        <3> QED  BY <1>4, <3>1, <3>2
    <2> QED  BY <2>1
<1>7. (m - 1) * P = u - P
    <2>1. (m - 1) * P = m * P - P
        OBVIOUS
    <2> QED  BY <1>3, <2>1
<1> QED  BY <1>1, <1>2, <1>3, <1>4, <1>5, <1>6, <1>7

Rising(n, F) ==
    /\ F \in [0 .. n -> Nat]
    /\ \A i, j \in 0 .. n : i < j => F[i] < F[j]

(* Where the blocks of a write of z bytes end, from its first byte. *)
Sliced(m, z, P, E) ==
    /\ Rising(m, E) /\ E[0] = 0 /\ E[m] = z
    /\ \A i \in 1 .. m : E[i - 1] = (i - 1) * P /\ E[i] - E[i - 1] = Less(P, z - (i - 1) * P)

LEMMA Cuts ==
    ASSUME NEW z \in Nat \ {0}, NEW P \in Nat \ {0}, NEW m \in Nat \ {0}, (m - 1) * P < z, z <= m * P
    PROVE  \E E : Sliced(m, z, P, E)
<1> DEFINE E == [i \in 0 .. m |-> IF i = m THEN z ELSE i * P]
<1>1. \A i \in 0 .. m : i * P \in Nat
    OBVIOUS
<1>2. E \in [0 .. m -> Nat] /\ E[m] = z /\ \A i \in 0 .. m - 1 : E[i] = i * P /\ E[i] \in Nat
    BY <1>1
<1> HIDE DEF E
<1>3. E[0] = 0
    <2>1. 0 \in 0 .. m - 1 /\ 0 * P = 0
        OBVIOUS
    <2> QED  BY <1>2, <2>1
<1>4. ASSUME NEW i \in 0 .. m - 1 PROVE i * P < z /\ i * P \in Nat
    <2>1. CASE i = m - 1
        BY <1>1, <2>1
    <2>2. CASE i < m - 1
        <3>1. m - 1 \in Nat /\ i \in Nat
            OBVIOUS
        <3>2. i * P + P <= (m - 1) * P /\ i * P \in Nat /\ (m - 1) * P \in Nat
            BY <2>2, <3>1, MulMono
        <3> QED  BY <3>2
    <2> QED  BY <2>1, <2>2
<1>5. ASSUME NEW i \in 0 .. m, NEW j \in 0 .. m, i < j PROVE E[i] < E[j]
    <2>1. i \in 0 .. m - 1 /\ i \in Nat /\ j \in Nat
        BY <1>5
    <2>2. CASE j = m
        BY <1>2, <1>4, <2>1, <2>2
    <2>3. CASE j # m
        <3>1. j \in 0 .. m - 1
            BY <2>3
        <3>2. i * P + P <= j * P /\ i * P \in Nat /\ j * P \in Nat
            BY <1>5, <2>1, MulMono
        <3>3. i * P < j * P
            BY <3>2
        <3> QED  BY <1>2, <2>1, <3>1, <3>3
    <2> QED  BY <2>2, <2>3
<1>6. ASSUME NEW i \in 1 .. m PROVE E[i - 1] = (i - 1) * P /\ E[i] - E[i - 1] = Less(P, z - (i - 1) * P)
    <2>1. i - 1 \in 0 .. m - 1 /\ i \in 0 .. m
        OBVIOUS
    <2>2. PICK u \in Nat : u = (i - 1) * P /\ E[i - 1] = u /\ u < z
        BY <1>2, <1>4, <2>1
    <2>3. i * P = u + P
        <3>1. (i - 1) * P = i * P - P /\ i * P \in Int
            OBVIOUS
        <3> QED  BY <2>2, <3>1
    <2>4. CASE i = m
        <3>1. z <= u + P
            BY <2>3, <2>4
        <3>2. Less(P, z - u) = z - u
            BY <3>1 DEF Less
        <3> QED  BY <1>2, <2>2, <2>4, <3>2
    <2>5. CASE i # m
        <3>1. i \in 0 .. m - 1
            BY <2>5
        <3>2. E[i] = u + P /\ u + P < z
            BY <1>2, <1>4, <2>3, <3>1
        <3>3. Less(P, z - u) = P
            BY <3>2 DEF Less
        <3> QED  BY <2>2, <3>2, <3>3
    <2> QED  BY <2>4, <2>5
<1>7. Sliced(m, z, P, E)
    BY <1>2, <1>3, <1>5, <1>6 DEF Sliced, Rising
<1> QED  BY <1>7

(* Where the blocks begin when those of a write are added. *)
Extended(n, m, w, F, E, G) ==
    /\ Rising(n + m, G)
    /\ \A i \in 0 .. n : G[i] = F[i]
    /\ \A i \in 0 .. m : G[n + i] = w + 1 + E[i]

LEMMA StreamExtended ==
    ASSUME NEW n \in Nat, NEW w \in Nat, NEW F, Rising(n, F), F[n] = w + 1,
           NEW m \in Nat, NEW E, Rising(m, E), E[0] = 0
    PROVE  \E G : Extended(n, m, w, F, E, G)
<1> USE DEF Rising
<1> DEFINE G == [i \in 0 .. n + m |-> IF i <= n THEN F[i] ELSE w + 1 + E[i - n]]
<1>1. \A i \in 0 .. n : F[i] \in Nat /\ i \in 0 .. n + m /\ i <= n
    OBVIOUS
<1>2. \A i \in 0 .. n + m : ~(i <= n) => i - n \in 0 .. m /\ i - n > 0 /\ w + 1 + E[i - n] \in Nat
    OBVIOUS
<1>3. G \in [0 .. n + m -> Nat]
    BY <1>1, <1>2
<1>4. \A i \in 0 .. n : G[i] = F[i]
    BY <1>1
<1>5. \A i \in 0 .. n + m : ~(i <= n) => G[i] = w + 1 + E[i - n]
    OBVIOUS
<1> HIDE DEF G
<1>6. ASSUME NEW i \in 0 .. m PROVE G[n + i] = w + 1 + E[i]
    <2>1. CASE i = 0
        <3>1. n + i = n /\ n \in 0 .. n
            BY <2>1
        <3> QED  BY <1>4, <2>1, <3>1
    <2>2. CASE i # 0
        <3>1. n + i \in 0 .. n + m /\ ~(n + i <= n) /\ (n + i) - n = i
            BY <2>2
        <3> QED  BY <1>5, <3>1
    <2> QED  BY <2>1, <2>2
<1>7. ASSUME NEW i \in 0 .. n + m, NEW j \in 0 .. n + m, i < j PROVE G[i] < G[j]
    <2>1. CASE j <= n
        <3>1. i \in 0 .. n /\ j \in 0 .. n
            BY <1>7, <2>1
        <3> QED  BY <1>4, <1>7, <3>1
    <2>2. CASE i > n
        <3>1. /\ ~(i <= n) /\ ~(j <= n) /\ i - n \in 0 .. m /\ j - n \in 0 .. m /\ i - n < j - n
            BY <1>7, <2>2
        <3>2. E[i - n] < E[j - n] /\ E[i - n] \in Nat /\ E[j - n] \in Nat
            BY <3>1
        <3>3. G[i] = w + 1 + E[i - n] /\ G[j] = w + 1 + E[j - n]
            BY <1>5, <3>1
        <3> QED  BY <3>2, <3>3
    <2>3. CASE i <= n /\ ~(j <= n)
        <3>1. i \in 0 .. n /\ n \in 0 .. n /\ j - n \in 0 .. m /\ 0 \in 0 .. m /\ 0 < j - n /\ (i = n \/ i < n)
            BY <2>3
        <3>2. E[j - n] > 0 /\ E[j - n] \in Nat
            BY <3>1
        <3>3. F[i] <= w + 1 /\ F[i] \in Nat
            BY <3>1
        <3>4. G[i] = F[i] /\ G[j] = w + 1 + E[j - n]
            BY <1>4, <1>5, <2>3, <3>1
        <3> QED  BY <3>2, <3>3, <3>4
    <2> QED  BY <2>1, <2>2, <2>3
<1>8. Extended(n, m, w, F, E, G)
    BY <1>3, <1>4, <1>6, <1>7 DEF Extended
<1> QED  BY <1>8

LEMMA Tuples ==
    ASSUME NEW m \in Nat, NEW S, NEW b \in [1 .. m -> S]
    PROVE  b \in Seq(S) /\ Len(b) = m
OBVIOUS

LEMMA Marked ==
    ASSUME NEW n \in Nat, NEW w \in Nat, NEW m \in Nat, NEW F, NEW E, NEW G, Rising(m, E),
           Extended(n, m, w, F, E, G), NEW i \in 1 .. m
    PROVE  /\ [from |-> w + E[i - 1] + 1, len |-> E[i] - E[i - 1]] = Blk(G, n + i - 1)
           /\ Blk(G, n + i - 1) \in [from : Nat, len : Nat]
<1>1. i - 1 \in 0 .. m /\ i \in 0 .. m /\ n + (i - 1) = n + i - 1 /\ (n + i - 1) + 1 = n + i /\ i - 1 < i
    OBVIOUS
<1>2. G[n + i - 1] = w + 1 + E[i - 1] /\ G[n + i] = w + 1 + E[i]
    BY <1>1 DEF Extended
<1>3. PICK u \in Nat, v \in Nat : u = E[i - 1] /\ v = E[i] /\ u < v
    BY <1>1 DEF Rising
<1>4. PICK x \in Nat, y \in Nat : x = w + 1 + u /\ y = v - u /\ (w + 1 + v) - x = y /\ x = w + u + 1
    <2>1. w + 1 + u \in Nat /\ v - u \in Nat /\ (w + 1 + v) - (w + 1 + u) = v - u /\ w + 1 + u = w + u + 1
        BY <1>3
    <2> QED  BY <2>1
<1>5. Blk(G, n + i - 1) = [from |-> x, len |-> y]
    BY <1>1, <1>2, <1>3, <1>4 DEF Blk
<1> QED  BY <1>3, <1>4, <1>5

(* What a write adds to the stream. *)
Added(n, m, z, F, G) ==
    /\ Rising(n + m, G) /\ m <= z
    /\ G[n + m] = written + z + 1
    /\ \A i \in 0 .. n : G[i] = F[i]
    /\ Blocks(z) \in Seq([from : Nat, len : Nat]) /\ Len(Blocks(z)) = m
    /\ \A i \in 1 .. m : Blocks(z)[i] = Blk(G, n + i - 1)

LEMMA WriteAdds ==
    ASSUME NEW n \in Nat, NEW F, Stream(n, F), NEW z \in Nat \ {0}
    PROVE  \E m \in Nat : \E G : Added(n, m, z, F, G)
<1>1. PICK P \in Nat \ {0} : P = Payload
    BY Consts
<1>2. PICK m \in Nat \ {0} : /\ m = (z + P - 1) \div P /\ m <= z
                            /\ (m - 1) * P < z /\ z <= m * P
    BY Ceiling
<1>3. PICK E : Sliced(m, z, P, E)
    BY <1>2, Cuts, Zenon
<1>4. PICK w \in Nat : w = written
    BY DEF Stream
<1>5. Rising(n, F) /\ F[n] = w + 1
    BY <1>4 DEF Stream, Rising
<1>6. m \in Nat /\ Rising(m, E) /\ E[0] = 0 /\ E[m] = z
    BY <1>3 DEF Sliced
<1>7. PICK G : Extended(n, m, w, F, E, G)
    BY <1>5, <1>6, StreamExtended, Zenon
<1>8. ASSUME NEW i \in 1 .. m
      PROVE  /\ [from |-> w + (i - 1) * P + 1, len |-> Less(P, z - (i - 1) * P)] = Blk(G, n + i - 1)
             /\ Blk(G, n + i - 1) \in [from : Nat, len : Nat]
    <2>1. E[i - 1] = (i - 1) * P /\ E[i] - E[i - 1] = Less(P, z - (i - 1) * P)
        BY <1>3, Zenon DEF Sliced
    <2>2. /\ [from |-> w + E[i - 1] + 1, len |-> E[i] - E[i - 1]] = Blk(G, n + i - 1)
          /\ Blk(G, n + i - 1) \in [from : Nat, len : Nat]
        BY <1>6, <1>7, Marked, Zenon
    <2> QED  BY <2>1, <2>2, Zenon
<1>9. PICK b : b = [i \in 1 .. m |-> Blk(G, n + i - 1)]
    OBVIOUS
<1>10. b \in [1 .. m -> [from : Nat, len : Nat]] /\ \A i \in 1 .. m : b[i] = Blk(G, n + i - 1)
    BY <1>8, <1>9, Zenon
<1>11. b \in Seq([from : Nat, len : Nat]) /\ Len(b) = m
    BY <1>6, <1>10, Tuples, Zenon
<1>12. Blocks(z) = b
    <2>1. Blocks(z) = [i \in 1 .. m |-> [from |-> w + (i - 1) * P + 1, len |-> Less(P, z - (i - 1) * P)]]
        BY <1>1, <1>2, <1>4 DEF Blocks
    <2> QED  BY <1>8, <1>9, <2>1, Zenon
<1>13. G[n + m] = w + z + 1
    <2>1. m \in 0 .. m
        BY <1>6
    <2>2. G[n + m] = w + 1 + z
        BY <1>6, <1>7, <2>1 DEF Extended
    <2> QED  BY <2>2
<1>14. Added(n, m, z, F, G)
    <2>1. Rising(n + m, G) /\ \A i \in 0 .. n : G[i] = F[i]
        BY <1>7 DEF Extended
    <2>2. m <= z /\ G[n + m] = written + z + 1
        BY <1>2, <1>4, <1>13
    <2>3. /\ Blocks(z) \in Seq([from : Nat, len : Nat]) /\ Len(Blocks(z)) = m
          /\ \A i \in 1 .. m : Blocks(z)[i] = Blk(G, n + i - 1)
        BY <1>10, <1>11, <1>12, Zenon
    <2> QED  BY <2>1, <2>2, <2>3, Zenon DEF Added
<1> QED  BY <1>6, <1>14, Zenon

LEMMA WriteInv ==
    ASSUME NEW n \in Nat, NEW c \in Nat, NEW a \in Nat, NEW d \in Nat, NEW r \in Nat, NEW k \in Nat,
           NEW h \in Nat, NEW f \in Nat, NEW l \in Nat, NEW s \in Nat, NEW F,
           Sound(n, c, a, d, r, k, h, f, l, s, F), NEW len \in WriteSizes, Write(len)
    PROVE  Inv'
<1>0. Ordered(n, c, a, d, r, k, h, f, s)
    BY Order, Zenon
<1> USE DEF Sound, Ordered
<1>1. PICK z \in Nat \ {0} : /\ sndBuf' = sndBuf \o Blocks(z) /\ written' = written + z
                            /\ written + z <= MaxBytes
    <2> DEFINE size == Less(len, (SndBufSize - Len(sndBuf)) * Payload)
    <2>1. size > 0 /\ sndBuf' = sndBuf \o Blocks(size) /\ written' = written + size /\ written + size <= MaxBytes
        BY DEF Write
    <2>2. len \in Int /\ SndBufSize \in Int /\ Len(sndBuf) \in Int /\ Payload \in Int
        BY TransferAssumption DEF Sender
    <2>3. PICK t \in Int : t = (SndBufSize - Len(sndBuf)) * Payload
        BY <2>2
    <2>4. size \in Int
        BY <2>2, <2>3 DEF Less
    <2> HIDE DEF size
    <2>5. size \in Nat \ {0}
        BY <2>1, <2>4
    <2> QED  BY <2>1, <2>5
<1>2. UNCHANGED <<sent, sndCurr, sndLastAck, sndLastDataAck, sndLoss, taken, bufVars, rcvVars, net>>
    BY DEF Write, netVars
<1>6. PICK w \in Nat : w = written /\ n <= w /\ w + z <= MaxBytes
    BY <1>1 DEF Stream
<1>5. PICK m \in Nat : \E G : Added(n, m, z, F, G)
    BY WriteAdds
<1>7. PICK G : Added(n, m, z, F, G)
    BY <1>5
<1>8. /\ Rising(n + m, G) /\ m <= z /\ G[n + m] = w + z + 1
      /\ \A i \in 0 .. n : G[i] = F[i]
    BY <1>6, <1>7 DEF Added
<1>9. PICK nn \in Nat : nn = n + m /\ n <= nn /\ nn <= w + z /\ nn <= MaxBytes
    BY <1>0, <1>6, <1>8
<1>10. ASSUME NEW i \in 0 .. n - 1 PROVE Blk(G, i) = Blk(F, i)
    <2>1. i \in 0 .. n /\ i + 1 \in 0 .. n
        OBVIOUS
    <2> QED  BY <1>8, <2>1 DEF Blk
<1>11. Stream(nn, G)'
    <2>1. 0 \in 0 .. n /\ F[0] = 1
        BY DEF Stream
    <2>2. G[0] = 1 /\ G[nn] = w + z + 1
        BY <1>8, <1>9, <2>1
    <2>3. written' = w + z
        BY <1>1, <1>6
    <2>4. G \in [0 .. nn -> Nat] /\ \A i, j \in 0 .. nn : i < j => G[i] < G[j]
        BY <1>8, <1>9 DEF Rising
    <2>5. w + z \in Nat
        OBVIOUS
    <2> QED  BY <1>6, <1>9, <2>2, <2>3, <2>4, <2>5 DEF Stream
<1>12. PICK b : /\ b = Blocks(z) /\ b \in Seq([from : Nat, len : Nat]) /\ Len(b) = m
                /\ \A i \in 1 .. m : b[i] = Blk(G, n + i - 1)
    BY <1>7 DEF Added
<1>13. PICK y \in Nat : y = n - d /\ y + m = nn - d
    BY <1>0, <1>9
<1>14. /\ sndBuf' \in Seq([from : Nat, len : Nat]) /\ Len(sndBuf') = nn - d
       /\ \A j \in 1 .. nn - d : sndBuf'[j] = Blk(G, d + j - 1)
    <2>1. sndBuf \in Seq([from : Nat, len : Nat]) /\ Len(sndBuf) = y
        BY <1>13 DEF Sender
    <2>2. /\ sndBuf \o b \in Seq([from : Nat, len : Nat]) /\ Len(sndBuf \o b) = y + m
          /\ \A j \in 1 .. y + m : (sndBuf \o b)[j] = IF j <= y THEN sndBuf[j] ELSE b[j - y]
        <3>1. Joins([from : Nat, len : Nat], sndBuf \o b, sndBuf, b, Len(sndBuf), Len(b))
            BY <1>12, <2>1, Joined, Zenon
        <3>2. Joins([from : Nat, len : Nat], sndBuf \o b, sndBuf, b, y, m)
            BY <1>12, <2>1, <3>1, Zenon
        <3> QED  BY <3>2, Zenon DEF Joins
    <2>3. sndBuf' = sndBuf \o b
        BY <1>1, <1>12
    <2>5. ASSUME NEW j \in 1 .. y + m PROVE (sndBuf \o b)[j] = Blk(G, d + j - 1)
        <3>1. CASE j <= y
            <4>1. j \in 1 .. n - d /\ d + j - 1 \in 0 .. n - 1
                BY <1>0, <1>13, <3>1
            <4>2. sndBuf[j] = Blk(F, d + j - 1)
                BY <4>1 DEF Sender
            <4> QED  BY <1>10, <2>2, <3>1, <4>1, <4>2
        <3>2. CASE ~(j <= y)
            <4>1. j - y \in 1 .. m /\ n + (j - y) - 1 = d + j - 1
                BY <1>0, <1>13, <3>2
            <4>2. b[j - y] = Blk(G, n + (j - y) - 1)
                BY <1>12, <4>1
            <4> QED  BY <2>2, <3>2, <4>1, <4>2
        <3> QED  BY <3>1, <3>2
    <2> QED  BY <1>13, <2>2, <2>3, <2>5
<1>15. Sender(nn, c, a, d, G)'
    <2>1. c <= nn
        BY <1>0, <1>9
    <2> QED  BY <1>2, <1>14, <2>1 DEF Sender, N, Prev, Num, Blk, None
<1>16. Receiver(c, r, k, h, f, s)'
    BY <1>2, ReceiverStays DEF bufVars, rcvVars
<1>17. Buffer(r, h, s, G)'
    <2>1. ASSUME NEW i \in h .. h + s - 1 PROVE Held(r, F, i) = Held(r, G, i)
        <3>1. i < r => i \in 0 .. n - 1
            BY <1>0
        <3> QED  BY <1>10, <3>1 DEF Held
    <2>2. Buffer(r, h, s, G)
        BY <2>1 DEF Buffer
    <2> QED  BY <1>2, <2>2, BufferStays DEF bufVars, rcvVars
<1>18. Application(k, h, f, l, s, G)'
    <2>1. h \in 0 .. n /\ (h < k => h + 1 \in 0 .. n)
        BY <1>0
    <2>2. G[h] = F[h] /\ (h < k => G[h + 1] = F[h + 1])
        BY <1>8, <2>1
    <2>3. Application(k, h, f, l, s, G)
        BY <2>2 DEF Application
    <2> QED  BY <1>2, <2>3, ApplicationStays DEF bufVars
<1>19. Flight(c, r, k, G)'
    <2>1. ASSUME NEW p, Packet(p, c, r, k, F) PROVE Packet(p, c, r, k, G)
        <3>1. \A j \in 0 .. c - 1 : Blk(G, j) = Blk(F, j)
            BY <1>0, <1>10
        <3> QED  BY <2>1, <3>1, Zenon DEF Packet
    <2>2. Flight(c, r, k, G)
        BY <2>1 DEF Flight
    <2>3. net' \subseteq net
        BY <1>2
    <2> QED  BY <2>2, <2>3, FlightStays
<1> QED  BY <1>0, <1>9, <1>11, <1>15, <1>16, <1>17, <1>18, <1>19, Witnessed
-----------------------------------------------------------------------------
(* Every step keeps the invariant *)

LEMMA IdleInv ==
    ASSUME NEW n \in Nat, NEW c \in Nat, NEW a \in Nat, NEW d \in Nat, NEW r \in Nat, NEW k \in Nat,
           NEW h \in Nat, NEW f \in Nat, NEW l \in Nat, NEW s \in Nat, NEW F,
           Sound(n, c, a, d, r, k, h, f, l, s, F), UNCHANGED vars
    PROVE  Inv'
<1>1. /\ UNCHANGED written /\ UNCHANGED sndVars /\ UNCHANGED <<rcvCurr, rcvLastAck, rcvLoss, start, lastPos>>
      /\ UNCHANGED <<units, rcvLoss>> /\ UNCHANGED <<notch, read, reading>> /\ net' \subseteq net
    BY DEF vars, sndVars, bufVars, rcvVars, netVars
<1>2. /\ s > 1 /\ Stream(n, F) /\ Sender(n, c, a, d, F) /\ Receiver(c, r, k, h, f, s)
      /\ Buffer(r, h, s, F) /\ Application(k, h, f, l, s, F) /\ Flight(c, r, k, F)
    BY DEF Sound
<1>3. Stream(n, F)' /\ Sender(n, c, a, d, F)' /\ Receiver(c, r, k, h, f, s)'
    BY <1>1, <1>2, StreamStays, SenderStays, ReceiverStays, Zenon
<1>4. Buffer(r, h, s, F)' /\ Application(k, h, f, l, s, F)' /\ Flight(c, r, k, F)'
    BY <1>1, <1>2, BufferStays, ApplicationStays, FlightStays, Zenon
<1> QED  BY <1>2, <1>3, <1>4, Witnessed, Zenon

LEMMA NextInv == Inv /\ [Next]_vars => Inv'
<1> SUFFICES ASSUME Inv, [Next]_vars PROVE Inv'
    OBVIOUS
<1>0. PICK n \in Nat, c \in Nat, a \in Nat, d \in Nat, r \in Nat, k \in Nat,
           h \in Nat, f \in Nat, l \in Nat, s \in Nat : \E F : Sound(n, c, a, d, r, k, h, f, l, s, F)
    BY Zenon DEF Inv
<1>1. PICK F : Sound(n, c, a, d, r, k, h, f, l, s, F)
    BY <1>0, Zenon
<1>2. CASE UNCHANGED vars
    BY <1>1, <1>2, IdleInv, Zenon
<1>3. ASSUME NEW i \in WriteSizes, Write(i) PROVE Inv'
    BY <1>1, <1>3, WriteInv, Zenon
<1>4. ASSUME NEW i \in ReadSizes, BeginRead(i) PROVE Inv'
    BY <1>1, <1>4, BeginReadInv, Zenon
<1>5. CASE ReadOn
    BY <1>1, <1>5, ReadOnInv, Zenon
<1>6. CASE EndRead
    BY <1>1, <1>6, EndReadInv, Zenon
<1>7. CASE TakeLost
    BY <1>1, <1>7, TakeLostInv, Zenon
<1>8. CASE Resend
    BY <1>1, <1>8, ResendInv, Zenon
<1>9. CASE SendNew
    BY <1>1, <1>9, SendNewInv, Zenon
<1>10. ASSUME NEW p \in net, ToSender(p) PROVE Inv'
    <2>1. CASE OnAck(p)
        BY <1>1, <2>1, OnAckInv, Zenon
    <2>2. CASE OnLiteAck(p)
        BY <1>1, <2>2, OnLiteAckInv, Zenon
    <2>3. CASE OnLossReport(p)
        BY <1>1, <2>3, OnLossReportInv, Zenon
    <2>4. CASE OnKeepAlive(p)
        BY <1>1, <2>4, OnKeepAliveInv, Zenon
    <2> QED  BY <1>10, <2>1, <2>2, <2>3, <2>4, Zenon DEF ToSender
<1>11. ASSUME NEW p \in net, ToReceiver(p) PROVE Inv'
    <2>1. CASE OnData(p)
        BY <1>1, <2>1, OnDataInv, Zenon
    <2>2. CASE OnAck2(p)
        BY <1>1, <2>2, OnAck2Inv, Zenon
    <2>3. CASE OnKeepAlive(p)
        BY <1>1, <2>3, OnKeepAliveInv, Zenon
    <2> QED  BY <1>11, <2>1, <2>2, <2>3, Zenon DEF ToReceiver
<1>12. ASSUME NEW p \in net, Lose(p) PROVE Inv'
    BY <1>1, <1>12, LoseInv, Zenon
<1>13. CASE AckTimer
    BY <1>1, <1>13, AckTimerInv, Zenon
<1>14. CASE LiteAckTimer
    BY <1>1, <1>14, LiteAckTimerInv, Zenon
<1>15. ASSUME NEW e \in {"s", "r"}, Expire(e) PROVE Inv'
    BY <1>1, <1>15, ExpireInv, Zenon
<1> QED  BY <1>2, <1>3, <1>4, <1>5, <1>6, <1>7, <1>8, <1>9, <1>10, <1>11, <1>12, <1>13, <1>14, <1>15, Zenon DEF Next

LEMMA TransferInvariant == Spec => []Inv
<1>1. Spec => Init /\ [][Next]_vars
    BY DEF Spec
<1> QED  BY <1>1, InitInv, NextInv, PTL

-----------------------------------------------------------------------------
(* What it says of the stream *)

LEMMA ReadIsWritten ==
    ASSUME NEW n \in Nat, NEW c \in Nat, NEW a \in Nat, NEW d \in Nat, NEW r \in Nat, NEW k \in Nat,
           NEW h \in Nat, NEW f \in Nat, NEW l \in Nat, NEW s \in Nat, NEW F,
           Sound(n, c, a, d, r, k, h, f, l, s, F)
    PROVE  StreamIntact
<1>1. Ordered(n, c, a, d, r, k, h, f, s)
    BY Order, Zenon
<1>2. Stream(n, F) /\ Application(k, h, f, l, s, F)
    BY DEF Sound
<1>3. h <= k /\ k <= n
    BY <1>1 DEF Ordered
<1>4. PICK w \in Nat : w = written /\ F[n] = w + 1
    BY <1>2 DEF Stream
<1>5. \A i, j \in 0 .. n : F[i] \in Nat /\ (i < j => F[i] < F[j])
    BY <1>2 DEF Stream
<1>6. PICK m \in Nat : m = notch /\ (m # 0 => h < k /\ m < F[h + 1] - F[h]) /\ Len(read) = F[h] - 1 + m
    BY <1>2 DEF Application
<1>7. PICK u \in Nat : u = F[h] /\ u <= w + 1
    <2>1. h \in 0 .. n /\ n \in 0 .. n /\ (h = n \/ h < n)
        BY <1>3
    <2> QED  BY <1>4, <1>5, <2>1
<1>8. u - 1 + m <= w
    <2>1. CASE m = 0
        BY <1>7, <2>1
    <2>2. CASE m # 0
        <3>1. h + 1 \in 0 .. n /\ n \in 0 .. n /\ (h + 1 = n \/ h + 1 < n)
            BY <1>3, <1>6, <2>2
        <3>2. PICK v \in Nat : v = F[h + 1] /\ v <= w + 1
            BY <1>4, <1>5, <3>1
        <3>3. m < F[h + 1] - F[h]
            BY <1>6, <2>2, Zenon
        <3>4. m < v - u
            BY <1>7, <3>2, <3>3, Zenon
        <3> QED  BY <3>2, <3>4
    <2> QED  BY <2>1, <2>2
<1>9. Len(read) <= written
    BY <1>4, <1>6, <1>7, <1>8
<1>10. DOMAIN read = 1 .. Len(read) /\ \A i \in 1 .. Len(read) : read[i] = i
    BY <1>2 DEF Application
<1> QED  BY <1>9, <1>10 DEF StreamIntact

LEMMA AckedIsHeld ==
    ASSUME NEW n \in Nat, NEW c \in Nat, NEW a \in Nat, NEW d \in Nat, NEW r \in Nat, NEW k \in Nat,
           NEW h \in Nat, NEW f \in Nat, NEW l \in Nat, NEW s \in Nat, NEW F,
           Sound(n, c, a, d, r, k, h, f, l, s, F)
    PROVE  AckedUnitsPresent
<1>1. Ordered(n, c, a, d, r, k, h, f, s)
    BY Order, Zenon
<1>2. /\ Stream(n, F) /\ Receiver(c, r, k, h, f, s) /\ Buffer(r, h, s, F) /\ Application(k, h, f, l, s, F)
      /\ s \in Nat \ {0}
    BY DEF Sound
<1>3. h <= k /\ k <= r /\ r <= n /\ f <= h /\ k < h + s /\ r \in Ind
    BY <1>1 DEF Ordered
<1>4. ReadPos = h % s
    <2>1. CASE reading = NotReading
        BY <1>2, <2>1 DEF ReadPos, Application, Receiver
    <2>2. CASE reading # NotReading
        <3>1. reading = [pos |-> h % s, left |-> reading.left, last |-> l % s]
            BY <1>2, <2>2 DEF Application
        <3> QED  BY <2>2, <3>1 DEF ReadPos
    <2> QED  BY <2>1, <2>2
<1>5. lastPos = k % s /\ DOMAIN units = 0 .. s - 1 /\ rcvBufSize = s
    BY <1>2, BufferSize DEF Receiver, Buffer
<1>6. ASSUME NEW j \in Nat, h <= j, j < h + s PROVE ((j % s) - (h % s)) % s = j - h
    BY <1>2, <1>6, ModApart, Zenon
<1>7. ASSUME NEW i \in Between(ReadPos, lastPos) PROVE units[i] # Nothing
    <2>1. i \in 0 .. s - 1 /\ (i - (h % s)) % s < ((k % s) - (h % s)) % s
        BY <1>4, <1>5 DEF Between
    <2>2. PICK j \in h .. h + s - 1 : i = j % s
        BY <1>2, <2>1, ModCovers, Zenon
    <2>3. j \in Nat /\ h <= j /\ j < h + s
        OBVIOUS
    <2>4. (i - (h % s)) % s = j - h
        BY <1>6, <2>2, <2>3
    <2>5. ((k % s) - (h % s)) % s = k - h
        BY <1>3, <1>6
    <2>6. j < k
        <3>1. j - h < k - h
            BY <2>1, <2>4, <2>5
        <3> QED  BY <2>3, <3>1
    <2>7. N(j) \notin rcvLoss
        <3>1. ASSUME N(j) \in rcvLoss PROVE FALSE
            <4>1. PICK g \in k .. r - 1 : N(j) = N(g)
                BY <1>2, <3>1 DEF Receiver, Num
            <4>2. j \in Ind /\ g \in Ind
                BY <1>3, <2>3, <2>6, Consts DEF Ind
            <4>3. j = g
                BY <4>1, <4>2, NumOff
            <4> QED  BY <2>6, <4>3
        <3> QED  BY <3>1
    <2>8. units[i] = Held(r, F, j)
        BY <1>2, <2>2 DEF Buffer
    <2>9. j < r /\ j \in 0 .. n - 1
        BY <1>3, <2>3, <2>6
    <2>10. units[i] = Blk(F, j)
        BY <2>7, <2>8, <2>9 DEF Held
    <2> QED  BY <1>2, <2>9, <2>10, BlockReal
<1> QED  BY <1>7, Zenon DEF AckedUnitsPresent

LEMMA SentIsKept ==
    ASSUME NEW n \in Nat, NEW c \in Nat, NEW a \in Nat, NEW d \in Nat, NEW r \in Nat, NEW k \in Nat,
           NEW h \in Nat, NEW f \in Nat, NEW l \in Nat, NEW s \in Nat, NEW F,
           Sound(n, c, a, d, r, k, h, f, l, s, F)
    PROVE  BlocksAccountedFor
<1>1. Ordered(n, c, a, d, r, k, h, f, s)
    BY Order, Zenon
<1>2. Sender(n, c, a, d, F)
    BY DEF Sound
<1>3. d <= c /\ c <= n /\ c \in Ind /\ d \in Ind
    BY <1>1 DEF Ordered
<1>4. incseq(sndCurr) = N(c) /\ sndLastDataAck = N(d) /\ sent = c - d /\ Len(sndBuf) = n - d
    BY <1>2, <1>3, NumStep DEF Sender
<1>5. sent = seqoff(sndLastDataAck, incseq(sndCurr)) /\ sent <= Len(sndBuf)
    BY <1>3, <1>4, NumOff
<1>6. ASSUME NEW q \in sndLoss PROVE seqoff(sndLastDataAck, q) \in 0 .. sent - 1
    <2>1. PICK i \in d .. c - 1 : q = N(i)
        BY <1>2 DEF Sender, Num
    <2>2. i \in Ind /\ i \in Nat
        BY <1>3, Consts DEF Ind
    <2>3. seqoff(N(d), N(i)) = i - d
        BY <1>3, <2>2, NumOff
    <2> QED  BY <1>3, <1>4, <2>1, <2>2, <2>3
<1> QED  BY <1>5, <1>6 DEF BlocksAccountedFor

LEMMA InvStream ==
    ASSUME Inv
    PROVE  StreamIntact /\ read \in Seq(Nat) /\ written \in Nat
<1>0. PICK n \in Nat, c \in Nat, a \in Nat, d \in Nat, r \in Nat, k \in Nat,
           h \in Nat, f \in Nat, l \in Nat, s \in Nat : \E F : Sound(n, c, a, d, r, k, h, f, l, s, F)
    BY Zenon DEF Inv
<1>1. PICK F : Sound(n, c, a, d, r, k, h, f, l, s, F)
    BY <1>0, Zenon
<1>2. StreamIntact
    BY <1>1, ReadIsWritten, Zenon
<1> QED  BY <1>1, <1>2 DEF Sound, Stream, Application

(* What recv() has copied to the application is what send() took from it: the bytes written,
   each once and in order, although packets are lost, repeated and reordered, units are read
   in part, the receiving thread adds units while readBuffer() copies others, positions turn
   around the buffer and sequence numbers pass the end of their range. *)
THEOREM ReadsWhatWasWritten == Spec => []StreamIntact
<1>1. Inv => StreamIntact
    BY ReadIsWritten, Zenon DEF Inv
<1> QED  BY <1>1, TransferInvariant, PTL

(* readBuffer() follows m_pUnit up to the last acknowledged position without a test: each of
   these positions holds a unit, whatever the receiving thread does meanwhile. *)
THEOREM AckedArePresent == Spec => []AckedUnitsPresent
<1>1. Inv => AckedUnitsPresent
    BY AckedIsHeld, Zenon DEF Inv
<1> QED  BY <1>1, TransferInvariant, PTL

(* The send buffer, its current block and the send loss list agree: a number that packData()
   takes from the list is an offset of readData() inside what was sent. *)
THEOREM LostAreInBuffer == Spec => []BlocksAccountedFor
<1>1. Inv => BlocksAccountedFor
    BY SentIsKept, Zenon DEF Inv
<1> QED  BY <1>1, TransferInvariant, PTL

(* An end is broken by its expiration timer only: no acknowledgement and no loss report that
   a peer sends, however late, makes processCtrl() take the peer for an attacker. *)
OnlyTimeBreaks == [][\A e \in broken' \ broken : exp[e] > ExpMax]_vars

(* processCtrl()'s two tests for "attack or bug" never succeed between these peers, so that
   m_bBroken is set by checkTimers() alone. *)
THEOREM PeerIsNoAttacker == Spec => OnlyTimeBreaks
<1>1. ASSUME Inv, Next PROVE \A e \in broken' \ broken : exp[e] > ExpMax
    <2>0. PICK n \in Nat, c \in Nat, a \in Nat, d \in Nat, r \in Nat, k \in Nat,
               h \in Nat, f \in Nat, l \in Nat, s \in Nat : \E F : Sound(n, c, a, d, r, k, h, f, l, s, F)
        BY <1>1, Zenon DEF Inv
    <2>1. PICK F : Sound(n, c, a, d, r, k, h, f, l, s, F)
        BY <2>0, Zenon
    <2>2. ASSUME NEW p, ToSender(p) PROVE UNCHANGED broken
        <3>1. CASE OnAck(p)
            BY <2>1, <3>1, OnAckInv, Zenon
        <3>2. CASE OnLossReport(p)
            BY <2>1, <3>2, OnLossReportInv, Zenon
        <3>3. CASE OnLiteAck(p) \/ OnKeepAlive(p)
            BY <3>3, Zenon DEF OnLiteAck, OnKeepAlive
        <3> QED  BY <2>2, <3>1, <3>2, <3>3, Zenon DEF ToSender
    <2>3. ASSUME NEW p, ToReceiver(p) PROVE UNCHANGED broken
        BY <2>3, Zenon DEF ToReceiver, OnData, OnAck2, OnKeepAlive
    <2>4. ASSUME NEW p, Lose(p) PROVE UNCHANGED broken
        BY <2>4, Zenon DEF Lose, connVars
    <2>5. ASSUME NEW i, Write(i) \/ BeginRead(i) PROVE UNCHANGED broken
        BY <2>5, Zenon DEF Write, BeginRead, CopyUnit, connVars
    <2>6. ASSUME ReadOn \/ EndRead \/ TakeLost \/ Resend \/ SendNew \/ AckTimer \/ LiteAckTimer
          PROVE  UNCHANGED broken
        BY <2>6, Zenon DEF ReadOn, CopyUnit, EndRead, TakeLost, Resend, SendNew, AckTimer, LiteAckTimer, connVars
    <2>7. ASSUME NEW e \in {"s", "r"}, Expire(e) PROVE UNCHANGED broken \/ (broken' = broken \cup {e} /\ exp[e] > ExpMax)
        BY <2>7, Zenon DEF Expire, Break
    <2>8. UNCHANGED broken \/ \E e \in {"s", "r"} : broken' = broken \cup {e} /\ exp[e] > ExpMax
        BY <1>1, <2>2, <2>3, <2>4, <2>5, <2>6, <2>7, Zenon DEF Next
    <2> QED  BY <2>8
<1>2. Spec => [][Next]_vars
    BY DEF Spec
<1> QED  BY <1>1, <1>2, TransferInvariant, PTL DEF OnlyTimeBreaks

-----------------------------------------------------------------------------
(* What it promises *)

Promise == INSTANCE ByteStream

(* The steps that the applications notice: a write, and a turn of readBuffer(). *)
LEMMA StreamStep ==
    ASSUME Inv, Next
    PROVE  UNCHANGED <<written, read>> \/ (\E i \in WriteSizes : Write(i)) \/ (GoesOn /\ written' = written)
<1>0. PICK n \in Nat, c \in Nat, a \in Nat, d \in Nat, r \in Nat, k \in Nat,
           h \in Nat, f \in Nat, l \in Nat, s \in Nat : \E F : Sound(n, c, a, d, r, k, h, f, l, s, F)
    BY Zenon DEF Inv
<1>1. PICK F : Sound(n, c, a, d, r, k, h, f, l, s, F)
    BY <1>0, Zenon
<1>2. ASSUME NEW i \in ReadSizes, BeginRead(i) PROVE GoesOn /\ written' = written
    <2>1. written' = written
        BY <1>2, Zenon DEF BeginRead, CopyUnit, sndVars
    <2> QED  BY <2>1, <1>1, <1>2, BeginReadInv, Zenon
<1>3. ASSUME ReadOn PROVE GoesOn /\ written' = written
    <2>1. written' = written
        BY <1>3, Zenon DEF ReadOn, CopyUnit, sndVars
    <2> QED  BY <2>1, <1>1, <1>3, ReadOnInv, Zenon
<1>4. ASSUME NEW p \in net, ToSender(p) \/ ToReceiver(p) \/ Lose(p) PROVE UNCHANGED <<written, read>>
    BY <1>4, Zenon DEF ToSender, ToReceiver, Lose, OnAck, OnLiteAck, OnLossReport, OnKeepAlive,
       OnData, OnAck2, sndVars, bufVars
<1>5. ASSUME EndRead \/ TakeLost \/ Resend \/ SendNew \/ AckTimer \/ LiteAckTimer
      PROVE  UNCHANGED <<written, read>>
    BY <1>5, Zenon DEF EndRead, TakeLost, Resend, SendNew, AckTimer, LiteAckTimer, sndVars, bufVars
<1>6. ASSUME NEW e \in {"s", "r"}, Expire(e) PROVE UNCHANGED <<written, read>>
    BY <1>6, Zenon DEF Expire, bufVars
<1> QED  BY <1>2, <1>3, <1>4, <1>5, <1>6, Zenon DEF Next

(* send() takes some bytes. *)
LEMMA WritesMore ==
    ASSUME Inv, NEW i \in WriteSizes, Write(i)
    PROVE  written' \in Nat /\ written' > written /\ UNCHANGED read
<1>0. PICK n \in Nat, c \in Nat, a \in Nat, d \in Nat, r \in Nat, k \in Nat,
           h \in Nat, f \in Nat, l \in Nat, s \in Nat : \E F : Sound(n, c, a, d, r, k, h, f, l, s, F)
    BY Zenon DEF Inv
<1>1. PICK F : Sound(n, c, a, d, r, k, h, f, l, s, F)
    BY <1>0, Zenon
<1>2. written \in Nat /\ Len(sndBuf) \in Nat
    BY <1>1 DEF Sound, Stream, Sender
<1>3. PICK x \in Int : x = (SndBufSize - Len(sndBuf)) * Payload
    BY <1>2, TransferAssumption
<1>4. PICK z \in Int : z = Less(i, x)
    BY TransferAssumption DEF Less
<1>5. z > 0 /\ written' = written + z /\ UNCHANGED read
    BY <1>3, <1>4 DEF Write, bufVars
<1> QED  BY <1>2, <1>5

(* To its two applications the transfer is a stream of bytes: each step writes more, hands
   over the next bytes of those written, or is not noticed; nothing is handed over twice,
   out of order, before it is written, or taken back. *)
THEOREM TransferIsStream == Spec => Promise!SSpec
<1>1. Init => Promise!SInit
    BY Zenon DEF Init, Promise!SInit
<1>2. ASSUME Inv, Inv', [Next]_vars PROVE [Promise!SNext]_(Promise!svars)
    <2>1. CASE UNCHANGED <<written, read>>
        BY <2>1 DEF Promise!svars
    <2>2. ASSUME NEW i \in WriteSizes, Write(i) PROVE Promise!SNext
        BY <1>2, <2>2, WritesMore DEF Promise!SNext, Promise!SWrite
    <2>3. CASE GoesOn /\ written' = written
        <3>1. PICK z \in Nat \ {0} : read' = read \o [i \in 1 .. z |-> Len(read) + i]
            BY <2>3 DEF GoesOn
        <3>2. StreamIntact' /\ read \in Seq(Nat) /\ written \in Nat
            <4>1. StreamIntact'
                BY <1>2, InvStream, PTL
            <4> QED  BY <4>1, <1>2, InvStream
        <3>3. Len(read') = Len(read) + z
            <4>1. PICK m \in Nat : m = Len(read)
                BY <3>2
            <4>2. PICK w : w = [i \in 1 .. z |-> m + i]
                OBVIOUS
            <4>3. w \in Seq(Nat) /\ Len(w) = z
                BY <4>2
            <4>4. Len(read \o w) = Len(read) + Len(w)
                BY <3>2, <4>3
            <4> QED  BY <3>1, <4>1, <4>2, <4>3, <4>4
        <3>4. z \in 1 .. written - Len(read)
            <4>1. PICK m \in Nat : m = Len(read)
                BY <3>2
            <4>2. m + z <= written
                BY <2>3, <3>2, <3>3, <4>1 DEF StreamIntact
            <4> QED  BY <4>1, <4>2, <3>2
        <3> QED  BY <3>1, <3>4, <2>3 DEF Promise!SNext, Promise!SRead
    <2>4. CASE UNCHANGED vars
        BY <2>4 DEF vars, sndVars, bufVars, Promise!svars
    <2> QED  BY <1>2, <2>1, <2>2, <2>3, <2>4, StreamStep
<1>3. Spec => Init /\ [][Next]_vars
    BY DEF Spec
<1> QED  BY <1>1, <1>2, <1>3, TransferInvariant, PTL DEF Promise!SSpec
=============================================================================
