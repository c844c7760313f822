--------------------- MODULE PriorityWriterQueue_proofs ---------------------
(***************************************************************************)
(* Proofs about priority_writer_queue, for any number of priorities, any   *)
(* frame limits, any message sizes and any frame size.                     *)
(*                                                                         *)
(* shift() copies whole queues over one another, so nothing can be said of *)
(* a queue by its place.  What survives the copies is said of its          *)
(* contents: every element is (a copy of) a message that was enqueued, and *)
(* its cursor lies within it, and a queue's counter lies within a limit of *)
(* the calculator that travels with it.  This makes every frame a piece of *)
(* a real message, although a short write makes n = taken - header_size()  *)
(* wrap around.                                                            *)
(***************************************************************************)
EXTENDS PriorityWriterQueue, SequenceTheorems, WellFoundedInduction, TLAPS

(* Messages of those enqueued, sent in part. *)
Live(sz) == {e \in Elem : e.id \in 1 .. Len(sz) /\ sz[e.id] = e.size /\ e.cursor < e.size}

Limits == {Limit[k] : k \in Queues}

(* The queues that _qp may hold. *)
Queue(sz) == [q : Seq(Live(sz)), limit : Limits, counter : Nat]
Pool(sz) == {x \in Queue(sz) : x.counter <= x.limit}

(* Frames that announce, and carry the beginning of, a piece of an enqueued message. *)
Piece(sz) ==
    {f \in [priority : Queues, size : 1 .. FrameSize - HeaderSize, bytes : Seq(Nat \X Nat)] :
        /\ \A k \in DOMAIN f.bytes : f.bytes[k] = <<f.bytes[1][1], f.bytes[1][2] + k - 1>>
        /\ f.bytes # <<>> => /\ f.bytes[1][1] \in 1 .. Len(sz)
                             /\ f.bytes[1][2] + f.size - 1 <= sz[f.bytes[1][1]]}

Inv ==
    /\ cursor \in Queues /\ total \in 0 .. SizeMod - 1
    /\ fault \in {"none", "empty_front", "fix_shift"}
    /\ sizes \in Seq(Size) /\ Len(sizes) <= MaxMessages
    /\ qp \in [Queues -> Pool(sizes)]
    /\ wire \in Seq(Piece(sizes))
    /\ fault = "none" => qp[cursor].counter > 0

(* The least element of a set of queues. *)
LEMMA MinOfQueues == ASSUME NEW S \in SUBSET Nat, S # {} PROVE Min(S) \in S /\ \A y \in S : Min(S) =< y
<1>1. PICK x \in S : \A y \in S : ~(<<y, x>> \in OpToRel(<, Nat))
    BY NatLessThanWellFounded, WFMin
<1>2. \A y \in S : ~(y < x)
    BY <1>1 DEF OpToRel
<1>3. \A y \in S : x =< y
    BY <1>2
<1> QED  BY <1>3 DEF Min

LEMMA Positive == Size \subseteq Nat \ {0} /\ SizeMod \in Nat \ {0}
BY QueueAssumption

(* std::size_t arithmetic stays within its width. *)
LEMMA ModRange == ASSUME NEW a \in Int PROVE a % SizeMod \in 0 .. SizeMod - 1
<1>1. \A m \in Nat \ {0} : a % m \in 0 .. m - 1
    OBVIOUS
<1> QED  BY <1>1, Positive

LEMMA LimitsPositive == Limits \subseteq Nat \ {0}
BY QueueAssumption DEF Limits, Queues

LEMMA PoolFields ==
    ASSUME NEW sz, NEW x \in Pool(sz)
    PROVE  /\ x.q \in Seq(Live(sz)) /\ x.limit \in Limits /\ x.counter \in Nat
           /\ x.limit \in Nat \ {0} /\ x.counter <= x.limit
BY LimitsPositive DEF Pool, Queue

LEMMA LiveFields ==
    ASSUME NEW sz, NEW e \in Live(sz)
    PROVE  /\ e.id \in Nat /\ e.size \in Nat /\ e.cursor \in Nat
           /\ e.id \in 1 .. Len(sz) /\ sz[e.id] = e.size /\ e.cursor < e.size
<1>1. e \in Elem /\ e.id \in 1 .. Len(sz) /\ sz[e.id] = e.size /\ e.cursor < e.size
    BY DEF Live
<1>2. e.id \in 1 .. MaxMessages /\ e.size \in Size /\ e.cursor \in 0 .. SizeMod - 1
    BY <1>1 DEF Elem
<1>3. e.size \in Nat /\ MaxMessages \in Nat /\ SizeMod \in Nat
    BY <1>2, QueueAssumption
<1> QED  BY <1>1, <1>2, <1>3

(* An element whose cursor moves within its message. *)
LEMMA MovedCursor ==
    ASSUME NEW sz, NEW e \in Live(sz), NEW c \in 0 .. SizeMod - 1, c < e.size
    PROVE  [e EXCEPT !.cursor = c] \in Live(sz)
BY DEF Live, Elem

(* shift() leaves messages, of the queue it serves, that were enqueued; its counter falls. *)
LEMMA AdvanceSound ==
    ASSUME NEW sz, NEW x \in Pool(sz), x.q # <<>>, x.counter > 0, NEW n \in Nat
    PROVE  Advance(x, n) \in Pool(sz)
<1> DEFINE c == (Head(x.q).cursor + n) % SizeMod
           r == IF c >= Head(x.q).size THEN Tail(x.q) ELSE [x.q EXCEPT ![1].cursor = c]
<1>1. x.q \in Seq(Live(sz)) /\ x.counter \in Nat /\ x.counter <= x.limit /\ x.limit \in Nat
    BY PoolFields
<1>2. Head(x.q) \in Live(sz) /\ Tail(x.q) \in Seq(Live(sz)) /\ Head(x.q) = x.q[1]
    BY <1>1, HeadTailProperties
<1>3. Len(x.q) \in Nat /\ 1 \in 1 .. Len(x.q)
    BY <1>1, EmptySeq, LenProperties
<1>4. Head(x.q).cursor \in Nat /\ Head(x.q).size \in Nat
    BY <1>2, LiveFields
<1>5. c \in 0 .. SizeMod - 1
    <2>1. Head(x.q).cursor + n \in Int
        BY <1>4
    <2> QED  BY <2>1, ModRange
<1>6. r \in Seq(Live(sz))
    <2>1. CASE c >= Head(x.q).size
        BY <1>2, <2>1
    <2>2. CASE ~(c >= Head(x.q).size)
        <3>1. [x.q[1] EXCEPT !.cursor = c] \in Live(sz)
            <4> HIDE DEF c
            <4> QED  BY <1>2, <1>4, <1>5, <2>2, MovedCursor
        <3>2. [x.q EXCEPT ![1] = [x.q[1] EXCEPT !.cursor = c]] \in Seq(Live(sz))
            <4> HIDE DEF c
            <4> QED  BY <1>1, <1>3, <3>1, ExceptSeq
        <3> QED  BY <2>2, <3>2
    <2> QED  BY <2>1, <2>2
<1>7. Advance(x, n) = [x EXCEPT !.q = r, !.counter = x.counter - 1]
    BY DEF Advance
<1>8. x.counter - 1 \in Nat /\ x.counter - 1 <= x.limit
    BY <1>1
<1> HIDE DEF r
<1> DEFINE y == [x EXCEPT !.q = r, !.counter = x.counter - 1]
<1>9. x \in Queue(sz)
    BY DEF Pool
<1>10. y \in Queue(sz) /\ y.counter = x.counter - 1 /\ y.limit = x.limit
    BY <1>6, <1>8, <1>9 DEF Queue
<1> HIDE DEF y
<1>11. y \in Pool(sz)
    BY <1>8, <1>10 DEF Pool
<1> QED  BY <1>7, <1>11 DEF y

LEMMA CopySound ==
    ASSUME NEW sz, NEW p \in [Queues -> Pool(sz)], NEW i \in Queues, NEW k \in Queues
    PROVE  /\ CopyOver(p, i, k) \in [Queues -> Pool(sz)]
           /\ CopyOver(p, i, k)[k] = p[k]
BY DEF CopyOver

LEMMA ResetSound ==
    ASSUME NEW sz, NEW p \in [Queues -> Pool(sz)]
    PROVE  /\ ResetPhase(p) \in [Queues -> Pool(sz)]
           /\ \A i \in Queues : ResetPhase(p)[i].counter > 0
<1>1. ASSUME NEW i \in Queues
      PROVE  /\ [p[i] EXCEPT !.counter = p[i].limit] \in Pool(sz)
             /\ [p[i] EXCEPT !.counter = p[i].limit].counter > 0
    <2>1. p[i] \in Pool(sz)
        OBVIOUS
    <2>2. p[i].q \in Seq(Live(sz)) /\ p[i].limit \in Nat \ {0}
        BY <2>1, PoolFields
    <2> DEFINE y == [p[i] EXCEPT !.counter = p[i].limit]
    <2>3. p[i] \in Queue(sz)
        BY <2>1 DEF Pool
    <2>4. y \in Queue(sz) /\ y.counter = p[i].limit /\ y.limit = p[i].limit
        BY <2>2, <2>3 DEF Queue
    <2> HIDE DEF y
    <2>5. y \in Pool(sz) /\ y.counter > 0
        BY <2>2, <2>4 DEF Pool
    <2> QED  BY <2>5 DEF y
<1> QED  BY <1>1 DEF ResetPhase

(* The search for the next queue ends on one whose phase is not over, or in the assertion. *)
LEMMA FindSound ==
    ASSUME Inv, NEW p \in [Queues -> Pool(sizes)], NEW old \in Queues,
           NEW r, r = FindQueue(p, old)
    PROVE  /\ r.qp \in [Queues -> Pool(sizes)] /\ r.cursor \in Queues
           /\ r.fault \in {"none", "fix_shift"}
           /\ r.fault = "none" => r.qp[r.cursor].counter > 0
<1> DEFINE first == Later(p, old)
           copied == IF old < N-1 THEN CopyOver(p, old, N-1) ELSE p
           reset == ResetPhase(copied)
           again == Suitable(reset, old)
<1>1. old \in Nat /\ N \in Nat /\ N-1 \in Queues /\ old <= N-1 /\ Queues \subseteq Nat
    BY QueueAssumption DEF Queues
<1>2. first \subseteq Queues /\ again \subseteq Queues
    BY <1>1 DEF Later, Suitable, Queues
<1>3. CASE first # {}
    <2>1. Min(first) \in first
        BY <1>1, <1>2, <1>3, MinOfQueues
    <2>2. Min(first) \in Queues /\ p[Min(first)].counter # 0
        BY <1>2, <2>1 DEF Later
    <2>3. p[Min(first)] \in Pool(sizes)
        BY <2>2
    <2>4. p[Min(first)].counter > 0
        BY <2>2, <2>3, PoolFields
    <2>5. r = [qp |-> CopyOver(p, old, Min(first)), cursor |-> Min(first), fault |-> "none"]
        BY <1>3 DEF FindQueue
    <2>6. r.qp = CopyOver(p, old, Min(first)) /\ r.cursor = Min(first) /\ r.fault = "none"
        BY <2>5
    <2> HIDE DEF first
    <2>7. r.qp \in [Queues -> Pool(sizes)] /\ r.qp[r.cursor] = p[Min(first)]
        BY <2>2, <2>6, CopySound
    <2> QED  BY <2>2, <2>4, <2>6, <2>7
<1>4. CASE first = {} /\ again # {}
    <2>1. copied \in [Queues -> Pool(sizes)]
        BY <1>1, CopySound
    <2>2. reset \in [Queues -> Pool(sizes)] /\ \A i \in Queues : reset[i].counter > 0
        <3> HIDE DEF copied
        <3> QED  BY <2>1, ResetSound
    <2>3. Min(again) \in Queues
        BY <1>1, <1>2, <1>4, MinOfQueues
    <2>4. r = [qp |-> CopyOver(reset, old, Min(again)), cursor |-> Min(again), fault |-> "none"]
        BY <1>4 DEF FindQueue
    <2>5. r.qp = CopyOver(reset, old, Min(again)) /\ r.cursor = Min(again) /\ r.fault = "none"
        BY <2>4
    <2> HIDE DEF again, reset
    <2>6. r.qp \in [Queues -> Pool(sizes)] /\ r.qp[r.cursor] = reset[Min(again)]
        BY <2>2, <2>3, <2>5, CopySound
    <2> QED  BY <2>2, <2>3, <2>5, <2>6
<1>5. CASE first = {} /\ again = {}
    <2>1. r = [qp |-> p, cursor |-> old, fault |-> "fix_shift"]
        BY <1>5 DEF FindQueue
    <2> QED  BY <2>1
<1> QED  BY <1>3, <1>4, <1>5

(* What was true of the messages and the frames stays true when a message is added. *)
LEMMA MoreMessages ==
    ASSUME NEW sz \in Seq(Size), NEW n \in Size, NEW more, more = Append(sz, n)
    PROVE  /\ more \in Seq(Size) /\ Len(more) = Len(sz) + 1 /\ more[Len(sz) + 1] = n
           /\ Live(sz) \subseteq Live(more) /\ Pool(sz) \subseteq Pool(more)
           /\ Piece(sz) \subseteq Piece(more)
<1>1. /\ more \in Seq(Size) /\ Len(more) = Len(sz) + 1 /\ more[Len(sz) + 1] = n /\ Len(sz) \in Nat
      /\ \A i \in 1 .. Len(sz) : more[i] = sz[i]
    BY AppendProperties, LenProperties
<1>2. 1 .. Len(sz) \subseteq 1 .. Len(more)
    BY <1>1
<1>3. Live(sz) \subseteq Live(more)
    BY <1>1, <1>2 DEF Live
<1>4. Seq(Live(sz)) \subseteq Seq(Live(more))
    BY <1>3, SeqMonotonic
<1>5. Pool(sz) \subseteq Pool(more)
    BY <1>4 DEF Pool, Queue
<1>6. Piece(sz) \subseteq Piece(more)
    <2> SUFFICES ASSUME NEW f \in Piece(sz) PROVE f \in Piece(more)
        OBVIOUS
    <2>1. f.bytes # <<>> => /\ f.bytes[1][1] \in 1 .. Len(sz)
                            /\ f.bytes[1][2] + f.size - 1 <= sz[f.bytes[1][1]]
        BY DEF Piece
    <2>2. f.bytes # <<>> => /\ f.bytes[1][1] \in 1 .. Len(more)
                            /\ f.bytes[1][2] + f.size - 1 <= more[f.bytes[1][1]]
        BY <1>1, <1>2, <2>1
    <2> QED  BY <2>2 DEF Piece
<1> QED  BY <1>1, <1>3, <1>5, <1>6

LEMMA InitInv == Init => Inv
<1> SUFFICES ASSUME Init PROVE Inv
    OBVIOUS
<1>1. cursor \in Queues /\ total \in 0 .. SizeMod - 1 /\ fault = "none"
    BY QueueAssumption DEF Init, Queues
<1>2. sizes \in Seq(Size) /\ Len(sizes) = 0 /\ wire \in Seq(Piece(sizes))
    BY DEF Init
<1>3. ASSUME NEW i \in Queues PROVE qp[i] \in Pool(sizes) /\ qp[i].counter > 0
    <2>1. Limit[i] \in Limits /\ Limit[i] \in Nat \ {0}
        BY LimitsPositive DEF Limits
    <2>2. qp[i] = [q |-> <<>>, limit |-> Limit[i], counter |-> Limit[i]]
        BY DEF Init
    <2>3. <<>> \in Seq(Live(sizes))
        OBVIOUS
    <2>4. qp[i] \in Queue(sizes) /\ qp[i].counter = Limit[i] /\ qp[i].limit = Limit[i]
        BY <2>1, <2>2, <2>3 DEF Queue
    <2> QED  BY <2>1, <2>4 DEF Pool
<1>4. qp \in [Queues -> Pool(sizes)]
    BY <1>3 DEF Init
<1>5. MaxMessages \in Nat
    BY QueueAssumption
<1> QED  BY <1>1, <1>2, <1>3, <1>4, <1>5 DEF Inv

LEMMA EnqueueStep == ASSUME Inv, NEW p \in Priority, NEW n \in Size, Enqueue(p, n) PROVE Inv'
<1>1. sizes \in Seq(Size) /\ sizes' = Append(sizes, n) /\ Len(sizes) \in Nat /\ Len(sizes) + 1 <= MaxMessages
    BY LenProperties, QueueAssumption DEF Inv, Enqueue
<1>2. /\ sizes' \in Seq(Size) /\ Len(sizes') = Len(sizes) + 1 /\ sizes'[Len(sizes) + 1] = n
      /\ Live(sizes) \subseteq Live(sizes') /\ Pool(sizes) \subseteq Pool(sizes')
      /\ Piece(sizes) \subseteq Piece(sizes')
    BY <1>1, MoreMessages
<1>3. total' \in 0 .. SizeMod - 1
    <2>1. total \in Int /\ n \in Int
        BY Positive DEF Inv
    <2>2. total + n \in Int
        BY <2>1
    <2> QED  BY <2>2, ModRange DEF Enqueue
<1>4. wire' \in Seq(Piece(sizes'))
    BY <1>2, SeqMonotonic DEF Inv, Enqueue
<1>5. p \in Queues
    BY QueueAssumption DEF Queues
<1> DEFINE e == [id |-> Len(sizes) + 1, size |-> n, cursor |-> 0]
           q == Append(qp[p].q, e)
           y == [qp[p] EXCEPT !.q = q]
<1>6. e \in Live(sizes')
    <2>1. e \in Elem
        BY <1>1, Positive DEF Elem
    <2>2. e.id \in 1 .. Len(sizes') /\ sizes'[e.id] = e.size /\ e.cursor < e.size
        BY <1>1, <1>2, Positive
    <2> HIDE DEF e
    <2> QED  BY <2>1, <2>2 DEF Live
<1>7. \A i \in Queues : qp[i] \in Pool(sizes')
    BY <1>2 DEF Inv
<1>8. q \in Seq(Live(sizes'))
    <2>1. qp[p].q \in Seq(Live(sizes'))
        BY <1>5, <1>7, PoolFields
    <2> HIDE DEF e
    <2> QED  BY <1>6, <2>1, AppendProperties
<1>9. y \in Pool(sizes') /\ y.counter = qp[p].counter
    <2> HIDE DEF q
    <2>1. qp[p] \in Queue(sizes') /\ qp[p].counter <= qp[p].limit
        BY <1>5, <1>7 DEF Pool
    <2>2. y \in Queue(sizes') /\ y.counter = qp[p].counter /\ y.limit = qp[p].limit
        BY <1>8, <2>1 DEF Queue
    <2> HIDE DEF y
    <2> QED  BY <2>1, <2>2 DEF Pool
<1>10. qp' = [qp EXCEPT ![p] = y]
    BY DEF Enqueue
<1> HIDE DEF y
<1>11. qp' \in [Queues -> Pool(sizes')] /\ \A i \in Queues : qp'[i].counter = qp[i].counter
    BY <1>5, <1>7, <1>9, <1>10 DEF Inv
<1> QED  BY <1>1, <1>2, <1>3, <1>4, <1>11 DEF Inv, Enqueue

(* A frame, however much of it was taken, is a piece of the message at the front. *)
LEMMA FrameIsPiece ==
    ASSUME Inv, qp[cursor].q # <<>>, NEW taken \in 1 .. FrameLen
    PROVE  Frame(taken) \in Piece(sizes)
<1> DEFINE m == taken - HeaderSize
           b == [i \in 1 .. m |-> <<Front.id, Front.cursor + i>>]
           f == Frame(taken)
<1>1. cursor \in Queues /\ qp[cursor] \in Pool(sizes)
    BY DEF Inv
<1>2. Front \in Live(sizes)
    <2>1. qp[cursor].q \in Seq(Live(sizes))
        BY <1>1, PoolFields
    <2> QED  BY <2>1, HeadTailProperties DEF Front
<1>3. /\ Front.id \in Nat /\ Front.size \in Nat /\ Front.cursor \in Nat
      /\ Front.id \in 1 .. Len(sizes) /\ sizes[Front.id] = Front.size /\ Front.cursor < Front.size
    BY <1>2, LiveFields
<1>4. FrameSize \in Nat /\ FrameSize > HeaderSize /\ HeaderSize = 3
    BY QueueAssumption DEF HeaderSize
<1>5. /\ FrameLen \in Nat /\ FrameLen > HeaderSize
      /\ FrameLen <= FrameSize /\ FrameLen <= Front.size - Front.cursor + HeaderSize
    <2> DEFINE S == {Front.size - Front.cursor + HeaderSize, FrameSize}
    <2>1. S \in SUBSET Nat /\ S # {} /\ \A x \in S : x > HeaderSize
        BY <1>3, <1>4
    <2>2. Min(S) \in S /\ \A y \in S : Min(S) =< y
        <3> HIDE DEF S
        <3> QED  BY <2>1, MinOfQueues
    <2>3. FrameLen \in S /\ \A y \in S : FrameLen =< y
        BY <2>2 DEF FrameLen
    <2> QED  BY <2>1, <2>3
<1>6. m \in Int /\ taken \in Nat /\ taken <= FrameLen
    BY <1>4, <1>5
<1>7. f.priority = cursor /\ f.size = FrameLen - HeaderSize /\ f.bytes = b
    BY DEF Frame
<1>8. f.size \in 1 .. FrameSize - HeaderSize
    BY <1>4, <1>5, <1>7
<1>9. CASE m < 1
    <2>1. 1 .. m = {}
        BY <1>6, <1>9
    <2>2. b = <<>>
        BY <2>1
    <2>3. f \in [priority : Queues, size : 1 .. FrameSize - HeaderSize, bytes : Seq(Nat \X Nat)]
        <3> HIDE DEF b
        <3>1. f = [priority |-> cursor, size |-> FrameLen - HeaderSize, bytes |-> b]
            BY DEF Frame, b
        <3> QED  BY <1>1, <1>7, <1>8, <2>2, <3>1
    <2> HIDE DEF f, b
    <2>4. DOMAIN f.bytes = {} /\ f.bytes = <<>>
        BY <1>7, <2>2
    <2>5. f \in Piece(sizes)
        BY <2>3, <2>4 DEF Piece
    <2> QED  BY <2>5 DEF f
<1>10. CASE m >= 1
    <2>1. m \in Nat /\ 1 \in 1 .. m
        BY <1>6, <1>10
    <2>2. \A i \in 1 .. m : b[i] = <<Front.id, Front.cursor + i>> /\ b[i] \in Nat \X Nat
        BY <1>3, <2>1
    <2>3. b \in Seq(Nat \X Nat) /\ DOMAIN b = 1 .. m
        <3>1. b \in [1 .. m -> Nat \X Nat]
            BY <2>2
        <3> HIDE DEF b, m
        <3> QED  BY <2>1, <3>1, IsASeq
    <2>4. b[1][1] = Front.id /\ b[1][2] = Front.cursor + 1
        BY <2>1, <2>2
    <2>5. \A k \in DOMAIN b : b[k] = <<b[1][1], b[1][2] + k - 1>>
        <3> HIDE DEF b
        <3> SUFFICES ASSUME NEW k \in 1 .. m PROVE b[k] = <<b[1][1], b[1][2] + k - 1>>
            BY <2>3
        <3>1. b[k] = <<Front.id, Front.cursor + k>>
            BY <2>2
        <3>2. Front.cursor + k = (Front.cursor + 1) + k - 1
            BY <1>3, <2>1
        <3> QED  BY <2>4, <3>1, <3>2
    <2>6. f \in [priority : Queues, size : 1 .. FrameSize - HeaderSize, bytes : Seq(Nat \X Nat)]
        <3> HIDE DEF b
        <3>1. f = [priority |-> cursor, size |-> FrameLen - HeaderSize, bytes |-> b]
            BY DEF Frame, b
        <3> QED  BY <1>1, <1>7, <1>8, <2>3, <3>1
    <2>7. b[1][2] + f.size - 1 <= sizes[b[1][1]] /\ b[1][1] \in 1 .. Len(sizes)
        <3> HIDE DEF b, f
        <3> QED  BY <1>3, <1>4, <1>5, <1>7, <2>4
    <2> HIDE DEF b, f
    <2>8. f \in Piece(sizes)
        BY <1>7, <2>5, <2>6, <2>7 DEF Piece
    <2> QED  BY <2>8 DEF f
<1> QED  BY <1>6, <1>9, <1>10

LEMMA SendStep == ASSUME Inv, NEW taken \in 1 .. FrameSize, Send(taken) PROVE Inv'
<1> DEFINE n    == (taken - HeaderSize) % SizeMod
           left == (total - n) % SizeMod
           x    == Advance(qp[cursor], n)
           p    == [qp EXCEPT ![cursor] = x]
           y    == [x EXCEPT !.counter = 0]
           p0   == [p EXCEPT ![cursor].counter = 0]
           next == FindQueue(p0, cursor)
<1>1. /\ cursor \in Queues /\ qp \in [Queues -> Pool(sizes)] /\ qp[cursor] \in Pool(sizes)
      /\ qp[cursor].counter > 0 /\ qp[cursor].q # <<>> /\ fault = "none" /\ sizes' = sizes
    BY DEF Inv, Send
<1>2. n \in Nat /\ left \in 0 .. SizeMod - 1
    <2>1. taken - HeaderSize \in Int
        BY QueueAssumption DEF HeaderSize
    <2>2. n \in 0 .. SizeMod - 1
        BY <2>1, ModRange
    <2>3. total \in Int /\ SizeMod \in Nat
        BY Positive DEF Inv
    <2> HIDE DEF n
    <2>4. total - n \in Int /\ n \in Nat
        BY <2>2, <2>3
    <2> QED  BY <2>4, ModRange
<1>3. x \in Pool(sizes)
    <2> HIDE DEF n
    <2> QED  BY <1>1, <1>2, AdvanceSound
<1>4. p \in [Queues -> Pool(sizes)] /\ p[cursor] = x
    <2> HIDE DEF x
    <2> QED  BY <1>1, <1>3
<1>5. p0 \in [Queues -> Pool(sizes)]
    <2> HIDE DEF x
    <2>1. x \in Queue(sizes) /\ x.limit \in Nat
        BY <1>3, PoolFields DEF Pool
    <2>2. y \in Queue(sizes) /\ y.counter = 0 /\ y.limit = x.limit
        BY <2>1 DEF Queue
    <2>3. y \in Pool(sizes)
        <3> HIDE DEF y
        <3> QED  BY <2>1, <2>2 DEF Pool
    <2>4. p0 = [p EXCEPT ![cursor] = y]
        <3> HIDE DEF p
        <3> QED  BY <1>4
    <2> HIDE DEF y, p
    <2> QED  BY <1>4, <2>3, <2>4
<1>6. wire' \in Seq(Piece(sizes'))
    <2>1. Frame(taken) \in Piece(sizes)
        BY <1>1, FrameIsPiece DEF Send
    <2> QED  BY <1>1, <2>1, AppendProperties DEF Inv, Send
<1>7. /\ total' = left
      /\ \/ PhaseGoesOn(x) /\ qp' = p /\ UNCHANGED <<cursor, fault>>
         \/ ~PhaseGoesOn(x) /\ left = 0 /\ cursor' = 0 /\ qp' = ResetPhase(p) /\ UNCHANGED fault
         \/ ~PhaseGoesOn(x) /\ left # 0 /\ qp' = next.qp /\ cursor' = next.cursor /\ fault' = next.fault
    BY DEF Send, Shift
<1> HIDE DEF left, p, p0, x
<1>8. /\ cursor' \in Queues /\ qp' \in [Queues -> Pool(sizes)]
      /\ fault' \in {"none", "fix_shift"}
      /\ fault' = "none" => qp'[cursor'].counter > 0
    <2>1. CASE PhaseGoesOn(x) /\ qp' = p /\ UNCHANGED <<cursor, fault>>
        BY <1>1, <1>4, <2>1 DEF PhaseGoesOn
    <2>2. CASE cursor' = 0 /\ qp' = ResetPhase(p) /\ UNCHANGED fault
        <3>1. 0 \in Queues
            BY QueueAssumption DEF Queues
        <3> QED  BY <1>1, <1>4, <2>2, <3>1, ResetSound
    <2>3. CASE qp' = next.qp /\ cursor' = next.cursor /\ fault' = next.fault
        BY <1>1, <1>5, <2>3, FindSound
    <2> QED  BY <1>7, <2>1, <2>2, <2>3
<1> QED  BY <1>1, <1>2, <1>6, <1>7, <1>8 DEF Inv

LEMMA NextInv == Inv /\ [Next]_vars => Inv'
<1> SUFFICES ASSUME Inv, [Next]_vars PROVE Inv'
    OBVIOUS
<1>1. CASE SendFromEmpty
    BY <1>1 DEF Inv, SendFromEmpty
<1>2. CASE UNCHANGED vars
    BY <1>2 DEF Inv, vars
<1> QED  BY <1>1, <1>2, EnqueueStep, SendStep DEF Next

(* writer_pool::send puts on the wire only frames that announce, and carry bytes of, one
   enqueued message, whatever queues shift() copied and however short the writes were. *)
THEOREM FramesAreGenuine == Spec => []FramesGenuine
<1>1. Inv => FramesGenuine
    <2> SUFFICES ASSUME Inv, NEW i \in DOMAIN wire
                 PROVE  LET b == wire[i].bytes
                        IN  /\ wire[i].size \in 1 .. FrameSize - HeaderSize
                            /\ \A k \in DOMAIN b : b[k] = <<b[1][1], b[1][2] + k - 1>>
                            /\ b # <<>> => b[1][2] + wire[i].size - 1 <= sizes[b[1][1]]
        BY DEF FramesGenuine
    <2>1. wire[i] \in Piece(sizes)
        BY ElementOfSeq, LenProperties DEF Inv
    <2> QED  BY <2>1 DEF Piece
<1> QED  BY <1>1, InitInv, NextInv, PTL DEF Spec
=============================================================================
