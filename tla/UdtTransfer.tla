---------------------------- MODULE UdtTransfer -----------------------------
(***************************************************************************)
(* One direction of a connected UDT stream (src/udt/newlib/core.cpp,       *)
(* buffer.cpp, window.cpp): the sending CUDT "s", its CSndBuffer, the      *)
(* receiving CUDT "r", its CRcvBuffer and CACKWindow, and the UDP network  *)
(* between them, which loses, repeats and reorders packets.                *)
(*                                                                         *)
(* The stream is the bytes 1, 2, 3, ...; a block [from, len] of the send   *)
(* buffer, or a unit of the receive buffer, is a piece of it.  The loss    *)
(* lists are the sets UdtLossLists shows them to be; an ACK, and the ACK2  *)
(* that answers it, are named by what they acknowledge instead of by a     *)
(* number that the CACKWindow translates.  Timers fire at any time, except *)
(* as Quiet says.  The congestion window (at least 16 by CUDTCC) never     *)
(* binds beside a smaller flow window.                                     *)
(***************************************************************************)
EXTENDS UdtSeqNo, Sequences, FiniteSets

CONSTANTS Isn,         \* m_iISN
          Payload,     \* m_iPayloadSize
          SndBufSize,  \* m_iSndBufSize, blocks
          RcvBufSizes, \* m_iRcvBufSize, units, one always empty
          ExpMax,      \* m_iEXPMaxCounter
          WriteSizes,  \* sizes of the application's writes
          ReadSizes,   \* and of its reads
          MaxBytes,    \* bound on the bytes written
          NetCap,      \* bound on the packets in flight when a timer adds another
          MaxFaults    \* bound on losses and repetitions

ASSUME TransferAssumption ==
    /\ Isn \in SeqNo /\ MaxBytes \in Nat /\ MaxBytes < SeqNoTH
    /\ {Payload, SndBufSize, NetCap, ExpMax} \subseteq Nat \ {0}
    /\ RcvBufSizes \subseteq Nat \ {0, 1} /\ WriteSizes \cup ReadSizes \subseteq Nat \ {0} /\ MaxFaults \in Nat

VARIABLES written,        \* bytes the application has written
          sndBuf,         \* blocks from m_pFirstBlock to m_pLastBlock
          sent,           \* how many of them are before m_pCurrBlock
          sndCurr,        \* m_iSndCurrSeqNo
          sndLastAck,     \* m_iSndLastAck
          sndLastDataAck, \* m_iSndLastDataAck
          flow,           \* m_iFlowWindowSize
          sndLoss,        \* m_pSndLossList
          taken,          \* packData() is between getLostSeq() and m_AckLock with this number
          units,          \* m_pUnit
          start, lastPos, \* m_iStartPos, m_iLastAckPos
          notch,          \* m_iNotch
          reading,        \* recv() is in readBuffer(): its p, rs and lastack
          rcvCurr,        \* m_iRcvCurrSeqNo
          rcvLastAck,     \* m_iRcvLastAck
          rcvLastAckAck,  \* m_iRcvLastAckAck
          rcvLoss,        \* m_pRcvLossList
          exp,            \* end -> m_iEXPCount
          broken,         \* the ends with m_bBroken
          read,           \* bytes the application has read, in order
          net, faults

sndVars  == <<written, sndBuf, sent, sndCurr, sndLastAck, sndLastDataAck, flow, sndLoss, taken>>
bufVars  == <<units, start, lastPos, notch, reading, read>>
rcvVars  == <<rcvCurr, rcvLastAck, rcvLastAckAck, rcvLoss>>
connVars == <<exp, broken>>
netVars  == <<net, faults>>
vars == <<sndVars, bufVars, rcvVars, connVars, netVars>>

None == -1
rcvBufSize == Cardinality(DOMAIN units)
Nothing == [from |-> 0, len |-> 0]
NotReading == [pos |-> None, left |-> 0, last |-> None]
Less(a, b) == IF a <= b THEN a ELSE b
Numbers(a, b) == {incseqBy(a, n) : n \in 0 .. seqlen(a, b) - 1}
First(S) == CHOOSE a \in S : \A b \in S : seqcmp(a, b) <= 0

(* connect(): the peer's window is its whole buffer, a unit more than it holds. *)
Init ==
    /\ written = 0 /\ sndBuf = <<>> /\ sent = 0 /\ sndCurr = Isn - 1
    /\ sndLastAck = Isn /\ sndLastDataAck = Isn /\ sndLoss = {} /\ taken = None
    /\ \E n \in RcvBufSizes : flow = n /\ units = [i \in 0 .. n - 1 |-> Nothing]
    /\ start = 0 /\ lastPos = 0 /\ notch = 0 /\ reading = NotReading
    /\ rcvCurr = Isn - 1 /\ rcvLastAck = Isn /\ rcvLastAckAck = Isn /\ rcvLoss = {}
    /\ exp = [e \in {"s", "r"} |-> 1] /\ broken = {}
    /\ read = <<>> /\ net = {} /\ faults = 0

-----------------------------------------------------------------------------
(* The network *)

(* sendto(): the packet p, for the end `to', is in flight beside the others. *)
Data(s, b)      == [to |-> "r", kind |-> "data", seq |-> s, block |-> b]
Ack(a, w)       == [to |-> "s", kind |-> "ack", ack |-> a, window |-> w]
LiteAck(a)      == [to |-> "s", kind |-> "lite", ack |-> a]
Ack2(a)         == [to |-> "r", kind |-> "ack2", ack |-> a]
LossReport(a, b) == [to |-> "s", kind |-> "nak", a |-> a, b |-> b]
KeepAlive(e)    == [to |-> IF e = "s" THEN "r" ELSE "s", kind |-> "keepalive"]

Room == Cardinality(net) < NetCap

Lose(p) ==
    /\ p \in net /\ faults < MaxFaults
    /\ net' = net \ {p} /\ faults' = faults + 1
    /\ UNCHANGED <<sndVars, bufVars, rcvVars, connVars>>

(* p is received; it may be received again. *)
Received(p, sends) ==
    /\ p \in net
    /\ \/ net' = (net \ {p}) \cup sends /\ UNCHANGED faults
       \/ net' = net \cup sends /\ faults < MaxFaults /\ faults' = faults + 1

-----------------------------------------------------------------------------
(* The application *)

Blocks(n) ==
    [i \in 1 .. (n + Payload - 1) \div Payload |->
        [from |-> written + (i - 1) * Payload + 1, len |-> Less(Payload, n - (i - 1) * Payload)]]

(* send() and addBuffer(): as much as there is room for, in blocks of the payload size. *)
Write(len) ==
    LET size == Less(len, (SndBufSize - Len(sndBuf)) * Payload)
    IN  /\ "s" \notin broken /\ size > 0 /\ written + size <= MaxBytes
        /\ sndBuf' = sndBuf \o Blocks(size)
        /\ written' = written + size
        /\ UNCHANGED <<sent, sndCurr, sndLastAck, sndLastDataAck, flow, sndLoss, taken>>
        /\ UNCHANGED <<bufVars, rcvVars, connVars, netVars>>

DataSize == IF lastPos >= start THEN lastPos - start ELSE rcvBufSize + lastPos - start
AvailBufSize == rcvBufSize - DataSize - 1

(* A turn of the loop of readBuffer(): a unit is copied, or the first bytes of it that are
   asked for; one that was read to its end is given back. *)
CopyUnit(r) ==
    LET u == units[r.pos]
        size == Less(u.len - notch, r.left)
        whole == size = u.len - notch
    IN  /\ r.pos # r.last /\ r.left > 0
        /\ read' = read \o [i \in 1 .. size |-> u.from + notch + i - 1]
        /\ units' = IF whole THEN [units EXCEPT ![r.pos] = Nothing] ELSE units
        /\ notch' = IF whole THEN 0 ELSE notch + r.left
        /\ reading' = [pos  |-> IF whole THEN (r.pos + 1) % rcvBufSize ELSE r.pos,
                       left |-> r.left - size,
                       last |-> r.last]
        /\ UNCHANGED <<start, lastPos, sndVars, rcvVars, connVars, netVars>>

(* recv() finds data and begins: the positions are read, and the first turn made (no other
   thread touches what it touches). *)
BeginRead(len) ==
    /\ reading = NotReading /\ DataSize > 0
    /\ CopyUnit([pos |-> start, left |-> len, last |-> lastPos])

(* The other turns: between them the receiving queue's thread goes on. *)
ReadOn == reading # NotReading /\ CopyUnit(reading)

(* The loop ends, and the place of what was read is free. *)
EndRead ==
    /\ reading # NotReading /\ (reading.pos = reading.last \/ reading.left = 0)
    /\ start' = reading.pos /\ reading' = NotReading
    /\ UNCHANGED <<units, lastPos, notch, read, sndVars, rcvVars, connVars, netVars>>

-----------------------------------------------------------------------------
(* The sending queue's thread: packData() *)

(* getLostSeq(): "Loss retransmission always has higher priority." *)
TakeLost ==
    /\ "s" \notin broken /\ taken = None /\ sndLoss # {}
    /\ taken' = First(sndLoss) /\ sndLoss' = sndLoss \ {First(sndLoss)}
    /\ UNCHANGED <<written, sndBuf, sent, sndCurr, sndLastAck, sndLastDataAck, flow>>
    /\ UNCHANGED <<bufVars, rcvVars, connVars, netVars>>

(* The packet may have been acknowledged since. *)
Resendable == seqoff(sndLastDataAck, taken) >= 0

\* Fault: the walk from the first block takes a step too many.
BlockAtNext(off) == sndBuf[IF off + 2 <= Len(sndBuf) THEN off + 2 ELSE 1]

(* readData(offset) *)
BlockAt(off) == sndBuf[off + 1]

Resend ==
    /\ taken # None
    /\ taken' = None
    /\ IF Resendable
       THEN net' = net \cup {Data(taken, BlockAt(seqoff(sndLastDataAck, taken)))}
       ELSE UNCHANGED net
    /\ UNCHANGED <<written, sndBuf, sent, sndCurr, sndLastAck, sndLastDataAck, flow, sndLoss>>
    /\ UNCHANGED <<bufVars, rcvVars, connVars, faults>>

(* readData(): the first block that has not been sent *)
CurrBlock == sndBuf[sent + 1]

WindowOpen == flow >= seqlen(sndLastAck, incseq(sndCurr))

SendNew ==
    /\ "s" \notin broken /\ taken = None /\ sndLoss = {}
    /\ WindowOpen /\ sent < Len(sndBuf)
    /\ sent' = sent + 1 /\ sndCurr' = incseq(sndCurr)
    /\ net' = net \cup {Data(sndCurr', CurrBlock)}
    /\ UNCHANGED <<written, sndBuf, sndLastAck, sndLastDataAck, flow, sndLoss, taken>>
    /\ UNCHANGED <<bufVars, rcvVars, connVars, faults>>

-----------------------------------------------------------------------------
(* The receiving queue's thread at the sender: processCtrl() *)

Heard(e) == exp' = [exp EXCEPT ![e] = 1]

(* "this should not happen: attack or bug" *)
Break(e) == broken' = broken \cup {e}

\* Fault: the next number to be sent is compared as if it had been sent.
AckValidLess(ack) == seqcmp(ack, sndCurr) <= 0

(* "check the validation of the ack" *)
AckValid(ack) == seqcmp(ack, incseq(sndCurr)) <= 0

(* An acknowledgement.  The second acknowledgement goes out unless one did just before. *)
OnAck(p) ==
    LET valid == AckValid(p.ack)
        new == seqcmp(p.ack, sndLastAck) >= 0
        off == seqoff(sndLastDataAck, p.ack)
    IN  /\ p.kind = "ack" /\ "s" \notin broken
        /\ \E sends \in {{}, {Ack2(p.ack)}} : Received(p, sends)
        /\ Heard("s")
        /\ IF valid THEN UNCHANGED broken ELSE Break("s")
        /\ IF valid /\ new THEN sndLastAck' = p.ack /\ flow' = p.window ELSE UNCHANGED <<sndLastAck, flow>>
        /\ IF valid /\ off > 0
           THEN /\ sndBuf' = SubSeq(sndBuf, off + 1, Len(sndBuf)) /\ sent' = sent - off
                /\ sndLastDataAck' = p.ack
                /\ sndLoss' = {s \in sndLoss : seqcmp(s, p.ack) >= 0}
           ELSE UNCHANGED <<sndBuf, sent, sndLastDataAck, sndLoss>>
        /\ UNCHANGED <<written, sndCurr, taken, bufVars, rcvVars>>

OnLiteAck(p) ==
    /\ p.kind = "lite" /\ "s" \notin broken
    /\ Received(p, {}) /\ Heard("s")
    /\ IF seqcmp(p.ack, sndLastAck) >= 0
       THEN flow' = flow - seqoff(sndLastAck, p.ack) /\ sndLastAck' = p.ack
       ELSE UNCHANGED <<flow, sndLastAck>>
    /\ UNCHANGED <<written, sndBuf, sent, sndCurr, sndLastDataAck, sndLoss, taken, broken, bufVars, rcvVars>>

\* Fault: a loss that is acknowledged already is entered again.
ReportedAll(p) == Numbers(p.a, p.b)

(* What of a reported range has not been acknowledged. *)
Reported(p) == {s \in Numbers(p.a, p.b) : seqcmp(s, sndLastAck) >= 0}

OnLossReport(p) ==
    /\ p.kind = "nak" /\ "s" \notin broken
    /\ Received(p, {}) /\ Heard("s")
    /\ IF seqcmp(p.b, sndCurr) > 0
       THEN Break("s") /\ UNCHANGED sndLoss
       ELSE sndLoss' = sndLoss \cup Reported(p) /\ UNCHANGED broken
    /\ UNCHANGED <<written, sndBuf, sent, sndCurr, sndLastAck, sndLastDataAck, flow, taken, bufVars, rcvVars>>

OnKeepAlive(p) ==
    /\ p.kind = "keepalive" /\ p.to \notin broken
    /\ Received(p, {}) /\ Heard(p.to)
    /\ UNCHANGED <<sndVars, bufVars, rcvVars, broken>>

-----------------------------------------------------------------------------
(* The receiving queue's thread at the receiver *)

(* Where addData() puts a unit. *)
Position(off) == (lastPos + off) % rcvBufSize

(* processData() and addData(), which keeps the unit that is there. *)
OnData(p) ==
    LET off == seqoff(rcvLastAck, p.seq)
        pos == Position(off)
        kept == off >= 0 /\ off < AvailBufSize /\ units[pos] = Nothing
        gap == kept /\ seqcmp(p.seq, incseq(rcvCurr)) > 0
        missed == Numbers(incseq(rcvCurr), decseq(p.seq))
    IN  /\ p.kind = "data" /\ "r" \notin broken
        /\ Received(p, IF gap THEN {LossReport(incseq(rcvCurr), decseq(p.seq))} ELSE {})
        /\ Heard("r")
        /\ units' = IF kept THEN [units EXCEPT ![pos] = p.block] ELSE units
        /\ rcvLoss' = CASE gap -> rcvLoss \cup missed
                        [] kept /\ ~gap -> rcvLoss \ {p.seq}
                        [] OTHER -> rcvLoss
        /\ rcvCurr' = IF kept /\ seqcmp(p.seq, rcvCurr) > 0 THEN p.seq ELSE rcvCurr
        /\ UNCHANGED <<sndVars, start, lastPos, notch, reading, read, rcvLastAck, rcvLastAckAck, broken>>

\* Fault: only what arrived in a row since the last packet counts.
NextAckNoLoss == incseq(rcvCurr)

(* "Otherwise it is the smallest sequence number in the receiver loss list." *)
NextAck == IF rcvLoss = {} THEN incseq(rcvCurr) ELSE First(rcvLoss)

AckDue == NextAck # rcvLastAckAck /\ seqcmp(NextAck, rcvLastAck) >= 0
                /\ seqcmp(NextAck, rcvLastAckAck) > 0

(* "a minimum flow window of 2 is used, even if buffer is full, to break potential deadlock" *)
Window(avail) == IF avail < 2 THEN 2 ELSE avail

(* checkTimers(), sendCtrl(2): the ACK timer. *)
AckTimer ==
    LET pos == Position(seqoff(rcvLastAck, NextAck))
        size == IF pos >= start THEN pos - start ELSE rcvBufSize + pos - start
    IN  /\ "r" \notin broken /\ AckDue /\ (NextAck = rcvLastAck => Room)
        /\ lastPos' = pos /\ rcvLastAck' = NextAck
        /\ net' = net \cup {Ack(NextAck, Window(rcvBufSize - size - 1))}
        /\ UNCHANGED <<sndVars, units, start, notch, reading, read, rcvCurr, rcvLastAckAck, rcvLoss, connVars, faults>>

(* sendCtrl(2, NULL, NULL, 4): every 64 packets between two ACKs. *)
LiteAckTimer ==
    /\ "r" \notin broken /\ NextAck # rcvLastAckAck /\ Room
    /\ net' = net \cup {LiteAck(NextAck)}
    /\ UNCHANGED <<sndVars, bufVars, rcvVars, connVars, faults>>

(* ACK2.  It does not count when the ACK it answers has been overwritten in the CACKWindow,
   or when the measured round-trip time is 0. *)
OnAck2(p) ==
    /\ p.kind = "ack2" /\ "r" \notin broken
    /\ Received(p, {}) /\ Heard("r")
    /\ rcvLastAckAck' \in {rcvLastAckAck, IF seqcmp(p.ack, rcvLastAckAck) > 0 THEN p.ack ELSE rcvLastAckAck}
    /\ UNCHANGED <<sndVars, bufVars, rcvCurr, rcvLastAck, rcvLoss, broken>>

-----------------------------------------------------------------------------
(* checkTimers(): nothing was heard for a while.  The first expiry may race with an answer.
   The following ones take so long that what was under way has arrived or is lost, and as the
   intervals grow with the count, the end that has expired less often expires first. *)
Quiet ==
    /\ net = {} /\ ~AckDue /\ taken = None /\ sndLoss = {}
    /\ ~(WindowOpen /\ sent < Len(sndBuf))

Overdue(e) == exp[e] > 1 => Quiet /\ \A f \in DOMAIN exp \ broken : exp[e] <= exp[f]

\* Fault: the numbers sent are not entered in the loss list.
UnackedNone == {}

(* "resend all unacknowledged packets on timeout, but only if there is no packet in the
   loss list" *)
Unacked ==
    IF sndBuf # <<>> /\ incseq(sndCurr) # sndLastAck /\ sndLoss = {}
    THEN Numbers(sndLastAck, sndCurr) ELSE {}

Expire(e) ==
    /\ e \notin broken /\ Overdue(e)
    /\ IF exp[e] > ExpMax
       THEN Break(e) /\ UNCHANGED <<exp, sndLoss, net>>
       ELSE /\ exp' = [exp EXCEPT ![e] = @ + 1]
            /\ sndLoss' = IF e = "s" THEN sndLoss \cup Unacked ELSE sndLoss
            /\ IF e = "s" /\ sndBuf # <<>> THEN UNCHANGED net
               ELSE Room /\ net' = net \cup {KeepAlive(e)}
            /\ UNCHANGED broken
    /\ UNCHANGED <<written, sndBuf, sent, sndCurr, sndLastAck, sndLastDataAck, flow, taken>>
    /\ UNCHANGED <<bufVars, rcvVars, faults>>

ToSender(p)   == OnAck(p) \/ OnLiteAck(p) \/ OnLossReport(p) \/ (p.to = "s" /\ OnKeepAlive(p))
ToReceiver(p) == OnData(p) \/ OnAck2(p) \/ (p.to = "r" /\ OnKeepAlive(p))

Next ==
    \/ \E n \in WriteSizes : Write(n)
    \/ (\E n \in ReadSizes : BeginRead(n)) \/ ReadOn \/ EndRead
    \/ TakeLost \/ Resend \/ SendNew
    \/ \E p \in net : ToSender(p) \/ ToReceiver(p) \/ Lose(p)
    \/ AckTimer \/ LiteAckTimer
    \/ \E e \in {"s", "r"} : Expire(e)

(* The threads run, the timers fire, the application reads, and a packet that stays in
   flight is received: each data packet, and of the others some. *)
Fairness ==
    /\ WF_vars(TakeLost) /\ WF_vars(Resend) /\ SF_vars(SendNew) /\ SF_vars(AckTimer)
    /\ WF_vars(\E n \in ReadSizes : BeginRead(n)) /\ WF_vars(ReadOn) /\ WF_vars(EndRead)
    /\ \A e \in {"s", "r"} : WF_vars(Expire(e))
    /\ \A k \in {"ack", "lite", "nak", "ack2", "keepalive"} :
           WF_vars(\E p \in net : p.kind = k /\ (ToSender(p) \/ ToReceiver(p)))
    /\ \A s \in Numbers(Isn, incseqBy(Isn, MaxBytes)) :
           WF_vars(\E p \in net : p.kind = "data" /\ p.seq = s /\ OnData(p))

Spec == Init /\ [][Next]_vars /\ Fairness
-----------------------------------------------------------------------------
(* The application reads the stream that was written: every byte once and in order, however
   packets are lost, repeated and reordered, blocks are read in part, and the sequence
   numbers pass the end of their range. *)
StreamIntact == Len(read) <= written /\ \A i \in DOMAIN read : read[i] = i

(* The positions from p on before q, and where the reading stands. *)
Between(p, q) == {i \in DOMAIN units : (i - p) % rcvBufSize < (q - p) % rcvBufSize}
ReadPos == IF reading = NotReading THEN start ELSE reading.pos

(* readBuffer() follows m_pUnit up to the last acknowledged position without a test. *)
AckedUnitsPresent == \A i \in Between(ReadPos, lastPos) : units[i] # Nothing

(* The peer is not taken for an attacker, and a connection that hears from its peer is not
   given up, whatever is late. *)
NeverBroken == broken = {}

(* A number that the sender believes to be unacknowledged has its block in the buffer. *)
BlocksAccountedFor ==
    /\ sent = seqoff(sndLastDataAck, incseq(sndCurr))
    /\ sent <= Len(sndBuf)
    /\ \A s \in sndLoss : seqoff(sndLastDataAck, s) \in 0 .. sent - 1

(* Whatever was lost, all that was written is read in the end: a loss that no report told
   of is found by the timer, and a full receive buffer does not stop the stream. *)
AllRead == []<>(Len(read) = written)
=============================================================================
