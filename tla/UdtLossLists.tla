---------------------------- MODULE UdtLossLists ----------------------------
(***************************************************************************)
(* CSndLossList and CRcvLossList (src/udt/newlib/list.cpp): sets of        *)
(* sequence numbers kept as sorted lists of ranges inside static arrays,   *)
(* where a range that starts `off' behind the head's lives `off' slots     *)
(* behind it.  The callers are those of core.cpp: losses are reported      *)
(* inside the window of unacknowledged packets, which moves around the     *)
(* circle of sequence numbers.                                             *)
(*                                                                         *)
(* A list is a record [d1, d2, next, head, len] of m_piData1, m_piData2,   *)
(* m_piNext, m_iHead, m_iLength and, by kind, m_iLastInsertPos or m_iTail  *)
(* with m_piPrior.  The pointers of a free slot are never read before they *)
(* are written, so that Tidy forgets them.                                 *)
(***************************************************************************)
EXTENDS UdtSeqNo, FiniteSets, Sequences

LOCAL INSTANCE SequencesExt

CONSTANT Window  \* m_iFlowWindowSize of the sender, m_iFlightFlagSize of the receiver

ASSUME LossAssumption == Window \in Nat \ {0} /\ Window < SeqNoTH

VARIABLES side,  \* "snd" or "rcv": whose list this is
          base,  \* m_iSndLastAck, m_iRcvLastAck: the window starts here
          top,   \* m_iSndCurrSeqNo, m_iRcvCurrSeqNo
          list,  \* CSndLossList or CRcvLossList
          lost,  \* the numbers reported lost and not settled since
          kept   \* numbers that a drop request asked to remove and remove() passed over

vars == <<side, base, top, list, lost, kept>>

None == -1
SndSize == 2 * Window
RcvSize == Window

Numbers(a, b) == {x \in SeqNo : \E n \in 0 .. seqlen(a, b) - 1 : x = incseqBy(a, n)}

Tidy(l) == [l EXCEPT !.next = [i \in DOMAIN @ |-> IF l.d1[i] = None THEN None ELSE @[i]]]

-----------------------------------------------------------------------------
(* CSndLossList *)

EmptySnd == [d1 |-> [i \in 0 .. SndSize - 1 |-> None], d2 |-> [i \in 0 .. SndSize - 1 |-> None],
             next |-> [i \in 0 .. SndSize - 1 |-> None], head |-> None, last |-> None, len |-> 0]

(* A new node: d2 is written only for a range of more than one number. *)
Put(l, at, a, b, nxt) ==
    [l EXCEPT !.d1[at] = a, !.d2[at] = IF a # b THEN b ELSE @, !.next[at] = nxt]

\* Fault: the end of the range stays behind in the free slot.
FreeKeepingEnd(l, at) == [l EXCEPT !.d1[at] = None]

Free(l, at) == [l EXCEPT !.d1[at] = None, !.d2[at] = None]

RECURSIVE Prior(_, _, _)
(* The last node from i on that starts before s. *)
Prior(l, i, s) ==
    IF l.next[i] # None /\ seqcmp(l.d1[l.next[i]], s) < 0 THEN Prior(l, l.next[i], s) ELSE i

(* The node a range that starts at s is put behind: lastInsertPos is a hint. *)
PriorFrom(l, s) ==
    Prior(l, IF l.last # None /\ seqcmp(l.d1[l.last], s) < 0 THEN l.last ELSE l.head, s)

\* Fault: the range that follows is taken in but not counted.
JoinNextUncounted(l, at, i) ==
    Free([l EXCEPT !.d2[at] = IF l.d2[i] # None /\ seqcmp(l.d2[i], @) > 0 THEN l.d2[i] ELSE @,
                   !.next[at] = l.next[i]], i)

(* [3, 7], [6, 9] becomes [3, 9]: the node i behind `at' starts within or just behind it. *)
JoinNext(l, at, i) ==
    LET single == l.d2[i] = None
        longer == ~single /\ seqcmp(l.d2[i], l.d2[at]) > 0
        taken  == CASE longer /\ seqcmp(l.d2[at], l.d1[i]) >= 0 -> seqlen(l.d1[i], l.d2[at])
                    [] ~single /\ ~longer                       -> seqlen(l.d1[i], l.d2[i])
                    [] single /\ l.d1[i] # incseq(l.d2[at])     -> 1
                    [] OTHER                                    -> 0
    IN  Free([l EXCEPT !.d2[at] = CASE longer -> l.d2[i]
                                    [] single /\ l.d1[i] = incseq(l.d2[at]) -> l.d1[i]
                                    [] OTHER -> @,
                       !.next[at] = l.next[i],
                       !.len = @ - taken], i)

RECURSIVE Coalesce(_, _)
Coalesce(l, at) ==
    IF l.next[at] # None /\ l.d2[at] # None /\ seqcmp(l.d1[l.next[at]], incseq(l.d2[at])) <= 0
    THEN Coalesce(JoinNext(l, at, l.next[at]), at)
    ELSE l

(* Node `at' starts at the inserted range's start or before: its end becomes b if that is
   behind it, and the ranges that it then meets are joined. *)
Extend(l, at, a, b) ==
    CASE l.d2[at] = None /\ b # a ->
             Coalesce([l EXCEPT !.d2[at] = b, !.len = @ + seqlen(a, b) - 1], at)
      [] l.d2[at] # None /\ seqcmp(b, l.d2[at]) > 0 ->
             Coalesce([l EXCEPT !.d2[at] = b, !.len = @ + seqlen(l.d2[at], b) - 1], at)
      [] OTHER -> l

(* insert(seqno1, seqno2) *)
SndInserted(l, a, b) ==
    LET off == seqoff(l.d1[l.head], a)
        loc == (l.head + off + SndSize) % SndSize
        i   == PriorFrom(l, a)
        more(x) == [x EXCEPT !.len = @ + seqlen(a, b)]
    IN  CASE l.len = 0 -> more([Put(l, 0, a, b, None) EXCEPT !.head = 0, !.last = 0])
          [] l.len > 0 /\ off < 0 ->
                 Coalesce(more([Put(l, loc, a, b, l.head) EXCEPT !.head = loc, !.last = loc]), loc)
          [] l.len > 0 /\ off >= 0 /\ l.d1[loc] = a -> Extend([l EXCEPT !.last = loc], loc, a, b)
          [] OTHER ->
                 IF l.d2[i] = None \/ seqcmp(l.d2[i], a) < 0
                 THEN Coalesce(more([Put(l, loc, a, b, l.next[i]) EXCEPT !.next[i] = loc, !.last = loc]), loc)
                 ELSE Extend([l EXCEPT !.last = i], i, a, b)

RECURSIVE Drop(_, _)
(* "Remove all nodes prior to the new head". *)
Drop(l, h) ==
    IF h = l.head THEN l
    ELSE LET n == IF l.d2[h] # None THEN seqlen(l.d1[h], l.d2[h]) ELSE 1
         IN  Drop([Free(l, h) EXCEPT !.len = @ - n, !.last = IF @ = h THEN None ELSE @], l.next[h])

(* Node i is cut behind s: what is left of it moves to slot `to'. *)
Cut(l, i, s, to) ==
    LET e == l.d2[i]
        rest == Put([l EXCEPT !.d2[i] = IF l.d1[i] = s THEN None ELSE s], to, incseq(s),
                    IF seqcmp(e, incseq(s)) > 0 THEN e ELSE incseq(s), l.next[i])
    IN  [rest EXCEPT !.next[i] = to, !.head = to]

(* remove(seqno): all numbers up to it *)
SndRemoved(l, s) ==
    LET off == seqoff(l.d1[l.head], s)
        loc == (l.head + off + SndSize) % SndSize
        i   == IF l.d1[loc] = s THEN loc ELSE Prior(l, l.head, s)
        to  == (loc + 1) % SndSize
    IN  IF l.len = 0 \/ off < 0 THEN l
        ELSE IF l.d2[i] # None /\ seqcmp(l.d2[i], s) > 0
             THEN Drop(Cut(l, i, s, to), l.head)
             ELSE Drop([l EXCEPT !.head = l.next[i]], l.head)

(* getLostSeq(): takes the first number out; Shifted is the list that is left. *)
FirstLost(l) == l.d1[l.head]

Shifted(l) ==
    LET m == [l EXCEPT !.last = IF @ = l.head THEN None ELSE @, !.len = @ - 1]
        to == (l.head + 1) % SndSize
        s == incseq(FirstLost(l))
    IN  IF l.d2[l.head] = None
        THEN [Free(m, l.head) EXCEPT !.head = l.next[l.head]]
        ELSE [Put(Free(m, l.head), to, s, IF seqcmp(l.d2[l.head], s) > 0 THEN l.d2[l.head] ELSE s,
                  l.next[l.head])
              EXCEPT !.head = to]

-----------------------------------------------------------------------------
(* CRcvLossList *)

EmptyRcv == [d1 |-> [i \in 0 .. RcvSize - 1 |-> None], d2 |-> [i \in 0 .. RcvSize - 1 |-> None],
             next |-> [i \in 0 .. RcvSize - 1 |-> None], prior |-> [i \in 0 .. RcvSize - 1 |-> None],
             head |-> None, tail |-> None, len |-> 0]

TidyRcv(l) ==
    [Tidy(l) EXCEPT !.prior = [i \in DOMAIN @ |-> IF l.d1[i] = None THEN None ELSE @[i]]]

(* insert(seqno1, seqno2): behind all that is in the list *)
RcvInserted(l, a, b) ==
    LET loc == (l.head + seqoff(l.d1[l.head], a)) % RcvSize
        m == [l EXCEPT !.len = @ + seqlen(a, b)]
    IN  CASE l.len = 0 ->
                 [Put(m, 0, a, b, None) EXCEPT !.head = 0, !.tail = 0, !.prior[0] = None]
          [] l.len > 0 /\ l.d2[l.tail] # None /\ incseq(l.d2[l.tail]) = a -> [m EXCEPT !.d2[l.tail] = b]
          [] OTHER ->
                 [Put(m, loc, a, b, None) EXCEPT !.next[l.tail] = loc, !.prior[loc] = l.tail, !.tail = loc]

(* Node i has no number left. *)
Unlink(l, i) ==
    IF l.head = i
    THEN [Free(l, i) EXCEPT !.head = l.next[i],
                            !.prior = [k \in DOMAIN @ |-> IF k = l.next[i] THEN None ELSE @[k]]]
    ELSE [Free(l, i) EXCEPT !.next[l.prior[i]] = l.next[i],
                            !.prior = [k \in DOMAIN @ |-> IF k = l.next[i] THEN l.prior[i] ELSE @[k]],
                            !.tail = IF l.next[i] = None THEN l.prior[i] ELSE @]

(* Node i, of more than one number, loses its first: it moves to the next slot. *)
Advance(l, i) ==
    LET to == (i + 1) % RcvSize
        s == incseq(l.d1[i])
        m == [Put(Free(l, i), to, s, IF seqcmp(l.d2[i], s) > 0 THEN l.d2[i] ELSE s, l.next[i])
              EXCEPT !.prior[to] = l.prior[i]]
        left  == IF l.head = i THEN [m EXCEPT !.head = to] ELSE [m EXCEPT !.next[l.prior[i]] = to]
    IN  IF l.tail = i THEN [left EXCEPT !.tail = to] ELSE [left EXCEPT !.prior[l.next[i]] = to]

(* Node i ends before s. *)
Shorten(l, i, s) == [l EXCEPT !.d2[i] = IF s = incseq(l.d1[i]) THEN None ELSE decseq(s)]

(* s is inside node i: what follows it becomes a node of its own, in slot `to'. *)
Split(l, i, s, to) ==
    LET t == incseq(s)
        m == [Put(Shorten(l, i, s), to, t, IF seqcmp(l.d2[i], t) > 0 THEN l.d2[i] ELSE t, l.next[i])
              EXCEPT !.next[i] = to, !.prior[to] = i]
    IN  IF l.tail = i THEN [m EXCEPT !.tail = to] ELSE [m EXCEPT !.prior[l.next[i]] = to]

RECURSIVE Occupied(_, _)
(* The first slot at or before i that holds a node. *)
Occupied(l, i) == IF l.d1[i] = None THEN Occupied(l, (i - 1 + RcvSize) % RcvSize) ELSE i

(* remove(seqno) *)
RcvRemoved(l, s) ==
    LET off == seqoff(l.d1[l.head], s)
        loc == (l.head + off) % RcvSize
        less == [l EXCEPT !.len = @ - 1]
    IN  CASE l.len = 0 \/ off < 0 -> l
          [] l.len > 0 /\ off >= 0 /\ l.d1[loc] = s ->
                 IF l.d2[loc] = None THEN Unlink(less, loc) ELSE Advance(less, loc)
          [] OTHER ->
                 LET j == Occupied(l, (loc - 1 + RcvSize) % RcvSize)
                 IN  IF l.d2[j] = None \/ seqcmp(s, l.d2[j]) > 0 THEN l
                     ELSE IF s = l.d2[j] THEN Shorten(less, j, s)
                     ELSE Split(less, j, s, (loc + 1) % RcvSize)

(* remove(seqno1, seqno2): number by number; around the end of the circle the loop stops
   short of MaxSeqNo. *)
RemovedNumbers(a, b) ==
    IF a <= b THEN [i \in 1 .. b - a + 1 |-> a + i - 1]
    ELSE [i \in 1 .. MaxSeqNo - a |-> a + i - 1] \o [i \in 1 .. b + 1 |-> i - 1]

RcvRemovedRange(l, a, b) == FoldLeft(RcvRemoved, l, RemovedNumbers(a, b))

-----------------------------------------------------------------------------
(* The callers, in core.cpp *)

Init ==
    /\ side \in {"snd", "rcv"}
    /\ base \in SeqNo /\ top = decseq(base)
    /\ list = (IF side = "snd" THEN EmptySnd ELSE EmptyRcv)
    /\ lost = {} /\ kept = {}

(* Numbers of the window from base on, n of them at most. *)
InWindow(n) == {incseqBy(base, k) : k \in 0 .. n - 1}
SentNumbers == InWindow(seqoff(base, top) + 1)

(* packData() sends a new packet. *)
SendNew ==
    /\ side = "snd" /\ seqlen(base, incseq(top)) <= Window
    /\ top' = incseq(top)
    /\ UNCHANGED <<side, base, list, lost, kept>>

(* processCtrl() of a loss report, and checkTimers() after EXP: a lost range that was sent
   and is not acknowledged. *)
ReportLoss(a, b) ==
    /\ side = "snd" /\ a \in SentNumbers /\ b \in SentNumbers /\ seqcmp(a, b) <= 0
    /\ list' = Tidy(SndInserted(list, a, b))
    /\ lost' = lost \cup Numbers(a, b)
    /\ UNCHANGED <<side, base, top, kept>>

(* processCtrl() of an acknowledgement of all before s. *)
Acknowledged(s) ==
    /\ side = "snd" /\ s \in {incseq(x) : x \in SentNumbers}
    /\ base' = s
    /\ list' = Tidy(SndRemoved(list, decseq(s)))
    /\ lost' = lost \ Numbers(base, decseq(s))
    /\ UNCHANGED <<side, top, kept>>

(* packData() takes the first lost number. *)
Retransmit ==
    /\ side = "snd" /\ list.len > 0
    /\ list' = Tidy(Shifted(list))
    /\ lost' = lost \ {FirstLost(list)}
    /\ UNCHANGED <<side, base, top, kept>>

(* packData() gives an expired message up: it removes all up to one number behind it. *)
GiveUp(s) ==
    /\ side = "snd" /\ s \in InWindow(Window) /\ top # decseq(base)
    /\ list' = Tidy(SndRemoved(list, s))
    /\ lost' = lost \ Numbers(base, s)
    /\ UNCHANGED <<side, base, top, kept>>

(* processData() *)
Arrive(s) ==
    /\ side = "rcv" /\ s \in InWindow(Window)
    /\ LET gap == seqcmp(s, incseq(top)) > 0
       IN  /\ list' = TidyRcv(CASE gap -> RcvInserted(list, incseq(top), decseq(s))
                                [] seqcmp(s, top) > 0 -> list
                                [] OTHER -> RcvRemoved(list, s))
           /\ lost' = IF gap THEN lost \cup Numbers(incseq(top), decseq(s)) ELSE lost \ {s}
           /\ top' = IF seqcmp(s, top) > 0 THEN s ELSE top
    /\ kept' = kept \ {s}
    /\ UNCHANGED <<side, base>>

(* sendCtrl() of an acknowledgement: up to the first lost number. *)
SendAck ==
    /\ side = "rcv" /\ top # decseq(base)
    /\ base' = (IF list.len = 0 THEN incseq(top) ELSE list.d1[list.head])
    /\ UNCHANGED <<side, top, list, lost, kept>>

(* processCtrl() of a drop request *)
DropRequest(a, b) ==
    /\ side = "rcv" /\ a \in InWindow(Window) /\ b \in InWindow(Window + 1) /\ seqcmp(a, b) <= 0
    /\ list' = TidyRcv(RcvRemovedRange(list, a, b))
    /\ lost' = lost \ Numbers(a, b)
    /\ kept' = (kept \ ToSet(RemovedNumbers(a, b))) \cup (lost \cap (Numbers(a, b) \ ToSet(RemovedNumbers(a, b))))
    /\ top' = IF seqcmp(a, incseq(top)) <= 0 /\ seqcmp(b, top) > 0 THEN b ELSE top
    /\ UNCHANGED <<side, base>>

Next ==
    \/ SendNew \/ Retransmit \/ SendAck
    \/ \E s \in SeqNo : Acknowledged(s) \/ GiveUp(s) \/ Arrive(s)
    \/ \E a, b \in SeqNo : ReportLoss(a, b) \/ DropRequest(a, b)

Spec == Init /\ [][Next]_vars

-----------------------------------------------------------------------------
RECURSIVE Chain(_, _, _)
(* The nodes from i on, n at most. *)
Chain(l, i, n) == IF i = None \/ n = 0 THEN <<>> ELSE <<i>> \o Chain(l, l.next[i], n - 1)

Nodes == Chain(list, IF list.len = 0 THEN None ELSE list.head, SndSize)
EndOf(i) == IF list.d2[i] = None THEN list.d1[i] ELSE list.d2[i]

(* The list of ranges stands for exactly the numbers reported and not yet acknowledged,
   retransmitted, received or dropped, wherever the window stands on the circle; getLossLength()
   is their number, and the number retransmitted or acknowledged next is the first.  One number
   may outlive what should have removed it: the greatest, in a receiver's list, after a drop
   request whose range goes around the end of the circle. *)
ListExact ==
    /\ lost \cup kept = UNION {Numbers(list.d1[i], EndOf(i)) : i \in ToSet(Nodes)}
    /\ list.len = Cardinality(lost \cup kept)
    /\ list.len > 0 => \A s \in lost \cup kept : seqoff(base, FirstLost(list)) <= seqoff(base, s)
    /\ kept \subseteq {MaxSeqNo} /\ lost \cap kept = {} /\ (side = "snd" => kept = {})

(* The layout insert() and remove() rely on: the nodes are in order and apart, each in the
   slot its distance from the head says, slots without a node are clear, prior and tail
   agree with next, and the position of the last insertion is a node's. *)
ListWellFormed ==
    LET ns == Nodes
        used == ToSet(ns)
    IN  /\ \A k \in 1 .. Len(ns) - 1 : seqcmp(EndOf(ns[k]), list.d1[ns[k + 1]]) < 0
        /\ \A i \in used : i = (list.head + seqoff(list.d1[list.head], list.d1[i])) % Cardinality(DOMAIN list.d1)
        /\ \A i \in DOMAIN list.d1 \ used : list.d1[i] = None /\ list.d2[i] = None
        /\ side = "snd" => list.last \in used \cup {None}
        /\ side = "rcv" /\ ns # <<>> =>
               /\ list.tail = ns[Len(ns)]
               /\ \A k \in 1 .. Len(ns) : list.prior[ns[k]] = IF k = 1 THEN None ELSE ns[k - 1]
=============================================================================
