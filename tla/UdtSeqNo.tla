------------------------------ MODULE UdtSeqNo ------------------------------
(***************************************************************************)
(* CSeqNo (src/udt/newlib/common.hpp): sequence numbers 0 .. MaxSeqNo on a *)
(* circle.  The code has MaxSeqNo = 2^31 - 1 and the comparison threshold  *)
(* 2^30 - 1, which is (MaxSeqNo - 1) / 2; here both are parameters.  An    *)
(* answer is right only for numbers less than SeqNoTH steps apart.         *)
(***************************************************************************)
EXTENDS Integers

CONSTANTS MaxSeqNo,  \* m_iMaxSeqNo
          SeqNoTH    \* m_iSeqNoTH

ASSUME SeqNoAssumption == SeqNoTH \in Nat \ {0} /\ MaxSeqNo = 2 * SeqNoTH + 1

SeqNo == 0 .. MaxSeqNo

Distance(a, b) == IF a >= b THEN a - b ELSE b - a

seqcmp(a, b) == IF Distance(a, b) < SeqNoTH THEN a - b ELSE b - a

seqlen(a, b) == IF a <= b THEN b - a + 1 ELSE b - a + MaxSeqNo + 2

seqoff(a, b) ==
    IF Distance(a, b) < SeqNoTH THEN b - a
    ELSE IF a < b THEN b - a - MaxSeqNo - 1
    ELSE b - a + MaxSeqNo + 1

incseq(a) == IF a = MaxSeqNo THEN 0 ELSE a + 1

decseq(a) == IF a = 0 THEN MaxSeqNo ELSE a - 1

(* incseq(seq, inc) *)
incseqBy(a, n) == IF MaxSeqNo - a >= n THEN a + n ELSE a - MaxSeqNo + n - 1
=============================================================================
