-------------------------- MODULE WriterPool_proofs --------------------------
(***************************************************************************)
(* Proofs about writer_pool with writer_queue, for any set of sockets, any *)
(* message sizes, any frame size and any number of bytes.  That frames     *)
(* continue what was taken follows from QueuesIntact, which is inductive   *)
(* only together with the facts that accounts belong to open sockets and   *)
(* that a descriptor that is not open has an empty queue.                  *)
(***************************************************************************)
EXTENDS WriterPool, SequenceTheorems, FiniteSetTheorems,
        WellFoundedInduction, TLAPS

Shape ==
    /\ open \subseteq Sid /\ writable \subseteq accounts
    /\ queue \in [Sid -> Seq(Elem)]
    /\ queued \in [Sid -> Nat] /\ taken \in [Sid -> Nat]
    /\ torn \in BOOLEAN

ClosedAreEmpty == \A s \in Sid \ open : queue[s] = <<>>

IInv == Shape /\ AccountsWatched /\ ClosedAreEmpty /\ QueuesIntact /\ SentInOrder

(* enqueue() appends the next bytes. *)
LEMMA AppendContiguous ==
    ASSUME NEW q \in Seq(Elem), NEW first \in Nat, NEW last \in Nat, NEW n \in Nat \ {0},
           Contiguous(q, first, last),
           NEW e, e = [from |-> last + 1, size |-> n, cursor |-> 0],
           NEW r, r = Append(q, e)
    PROVE  r \in Seq(Elem) /\ Contiguous(r, first, last + n)
<1>1. e \in Elem
    BY DEF Elem
<1>2. /\ r \in Seq(Elem) /\ Len(r) = Len(q) + 1 /\ Len(q) \in Nat
      /\ \A i \in 1 .. Len(q) : r[i] = q[i]
      /\ r[Len(q) + 1] = e
    BY <1>1, AppendProperties, LenProperties
<1>3. \A i \in 1 .. Len(q) : q[i] \in Elem
    BY ElementOfSeq
<1>4. CASE q = <<>>
    <2>1. Len(q) = 0
        BY <1>4, EmptySeq
    <2>2. Len(r) = 1 /\ r[1] = e
        <3>1. Len(q) + 1 = 1
            BY <2>1
        <3> QED
            BY <1>2, <3>1
    <2>3. first = last + 1
        BY <1>4 DEF Contiguous
    <2>4. r # <<>>
        BY <2>2, EmptySeq
    <2>5. r[1].from + r[1].cursor = first /\ r[1].from + r[1].size = last + n + 1
        BY <2>2, <2>3
    <2>6. \A i \in 1 .. Len(r) : i = 1 /\ r[i].cursor < r[i].size
        BY <2>2
    <2>7. 1 .. Len(r) - 1 = {}
        BY <2>2
    <2> QED
        BY <1>2, <2>2, <2>4, <2>5, <2>6, <2>7 DEF Contiguous
<1>5. CASE q # <<>>
    <2>1. Len(q) \in Nat \ {0}
        BY <1>5, EmptySeq, <1>2
    <2>2. r # <<>> /\ r[1] = q[1]
        BY <1>2, <2>1, EmptySeq
    <2>3. /\ q[1].from + q[1].cursor = first
          /\ q[Len(q)].from + q[Len(q)].size = last + 1
          /\ \A i \in 1 .. Len(q) : q[i].cursor < q[i].size /\ (i > 1 => q[i].cursor = 0)
          /\ \A i \in 1 .. Len(q) - 1 : q[i + 1].from = q[i].from + q[i].size
        BY <1>5 DEF Contiguous
    <2>4. r[1].from + r[1].cursor = first
        BY <2>2, <2>3
    <2>5. r[Len(r)].from + r[Len(r)].size = last + n + 1
        BY <1>2
    <2>6. \A i \in 1 .. Len(r) : r[i].cursor < r[i].size /\ (i > 1 => r[i].cursor = 0)
        <3> TAKE i \in 1 .. Len(r)
        <3>1. CASE i \in 1 .. Len(q)
            BY <3>1, <1>2, <2>3
        <3>2. CASE i = Len(q) + 1
            BY <3>2, <1>2
        <3> QED
            BY <3>1, <3>2, <1>2
    <2>7. \A i \in 1 .. Len(r) - 1 : r[i + 1].from = r[i].from + r[i].size
        <3> TAKE i \in 1 .. Len(r) - 1
        <3>1. CASE i \in 1 .. Len(q) - 1
            <4>1. i \in 1 .. Len(q) /\ i + 1 \in 1 .. Len(q)
                BY <3>1, <1>2
            <4> QED
                BY <3>1, <4>1, <1>2, <2>3
        <3>2. CASE i = Len(q)
            <4>1. r[i] = q[Len(q)] /\ r[i + 1] = e
                BY <3>2, <1>2, <2>1
            <4>0. Len(q) \in 1 .. Len(q)
                BY <2>1
            <4>2. q[Len(q)].from \in Nat /\ q[Len(q)].size \in Nat
                BY <1>3, <4>0 DEF Elem
            <4> QED
                BY <4>1, <4>2, <2>3, SMTT(20)
        <3> QED
            BY <3>1, <3>2, <1>2
    <2> QED
        BY <1>2, <2>2, <2>4, <2>5, <2>6, <2>7 DEF Contiguous
<1> QED
    BY <1>2, <1>4, <1>5

(* shift() takes n bytes of the front message. *)
LEMMA ShiftContiguous ==
    ASSUME NEW q \in Seq(Elem), NEW first \in Nat, NEW last \in Nat, NEW n \in Nat \ {0},
           Contiguous(q, first, last), q # <<>>, n <= Head(q).size - Head(q).cursor
    PROVE  Shift(q, n) \in Seq(Elem) /\ Contiguous(Shift(q, n), first + n, last)
<1>1. Len(q) \in Nat \ {0} /\ \A i \in 1 .. Len(q) : q[i] \in Elem
    BY EmptySeq, LenProperties, ElementOfSeq
<1>2. Head(q) = q[1] /\ q[1] \in Elem
    BY <1>1, HeadTailProperties
<1>3. /\ q[1].from + q[1].cursor = first
      /\ q[Len(q)].from + q[Len(q)].size = last + 1
      /\ \A i \in 1 .. Len(q) : q[i].cursor < q[i].size /\ (i > 1 => q[i].cursor = 0)
      /\ \A i \in 1 .. Len(q) - 1 : q[i + 1].from = q[i].from + q[i].size
    BY DEF Contiguous
<1>4. \A i \in 1 .. Len(q) : q[i].from \in Nat /\ q[i].size \in Nat /\ q[i].cursor \in Nat
    BY <1>1 DEF Elem
<1>a. q[1].from \in Nat /\ q[1].size \in Nat \ {0} /\ q[1].cursor \in Nat
    BY <1>2 DEF Elem
<1>b. n <= q[1].size - q[1].cursor
    BY <1>2
<1>c. q[1].from + q[1].cursor = first
    BY <1>3
<1>5. CASE q[1].cursor + n >= q[1].size
    <2>0. PICK r : r = Tail(q)
        OBVIOUS
    <2>1. Shift(q, n) = r /\ q[1].cursor + n = q[1].size
        <3>1. Shift(q, n) = r
            BY <2>0, <1>5, <1>2 DEF Shift
        <3>2. q[1].cursor + n = q[1].size
            BY <1>5, <1>a, <1>b
        <3> QED
            BY <3>1, <3>2
    <2>2. r \in Seq(Elem) /\ Len(r) = Len(q) - 1 /\ \A i \in 1 .. Len(r) : r[i] = q[i + 1]
        BY <2>0, HeadTailProperties
    <2>3. first + n = q[1].from + q[1].size
        <3>1. q[1].from + q[1].cursor = first /\ q[1].cursor + n = q[1].size
            BY <1>c, <2>1
        <3> QED
            BY <3>1, <1>a, SMTT(20)
    <2>4. CASE Len(q) = 1
        <3>1. r = <<>>
            BY <2>2, <2>4, EmptySeq
        <3>2. first + n = last + 1
            BY <2>3, <2>4, <1>3
        <3>3. Len(r) = 0
            BY <2>2, <2>4
        <3> QED
            BY <3>1, <3>2, <3>3, <2>1, <2>2 DEF Contiguous
    <2>5. CASE Len(q) > 1
        <3>1. Len(r) \in Nat \ {0} /\ r # <<>>
            BY <2>2, <2>5, <1>1, EmptySeq
        <3>2. r[1] = q[2] /\ q[2].cursor = 0 /\ q[2].from = q[1].from + q[1].size
            BY <2>2, <2>5, <1>1, <1>3, <3>1
        <3>3. r[Len(r)] = q[Len(q)]
            BY <2>2, <3>1, <1>1
        <3>4. \A i \in 1 .. Len(r) : r[i].cursor < r[i].size /\ (i > 1 => r[i].cursor = 0)
            <4> TAKE i \in 1 .. Len(r)
            <4>1. i + 1 \in 1 .. Len(q) /\ i + 1 > 1
                BY <2>2, <1>1
            <4> QED
                BY <4>1, <2>2, <1>3
        <3>5. \A i \in 1 .. Len(r) - 1 : r[i + 1].from = r[i].from + r[i].size
            <4> TAKE i \in 1 .. Len(r) - 1
            <4>1. i + 1 \in 1 .. Len(q) - 1 /\ i \in 1 .. Len(r) /\ i + 1 \in 1 .. Len(r)
                BY <2>2, <1>1
            <4> QED
                BY <4>1, <2>2, <1>3
        <3>6. r[1].from + r[1].cursor = first + n
            BY <3>2, <2>3, <1>4, <2>5
        <3>7. r[Len(r)].from + r[Len(r)].size = last + 1
            BY <3>3, <1>3
        <3> QED
            BY <3>1, <3>4, <3>5, <3>6, <3>7, <2>1, <2>2 DEF Contiguous
    <2>6. Len(q) = 1 \/ Len(q) > 1
        <3>1. Len(q) \in Nat \ {0}
            BY <1>1
        <3>2. \A k \in Nat \ {0} : k = 1 \/ k > 1
            OBVIOUS
        <3> QED
            BY <3>1, <3>2
    <2> QED
        BY <2>4, <2>5, <2>6
<1>6. CASE ~(q[1].cursor + n >= q[1].size)
    <2>a. PICK e : e = [q[1] EXCEPT !.cursor = @ + n]
        OBVIOUS
    <2>b. PICK r : r = [q EXCEPT ![1].cursor = @ + n]
        OBVIOUS
    <2>1. Shift(q, n) = r
        BY <2>b, <1>6, <1>2 DEF Shift
    <2>c. e = [from |-> q[1].from, size |-> q[1].size, cursor |-> q[1].cursor + n]
        BY <2>a, <1>2 DEF Elem
    <2>2. e \in Elem /\ e.from = q[1].from /\ e.size = q[1].size /\ e.cursor = q[1].cursor + n
        BY <2>c, <1>a, SMTT(20) DEF Elem
    <2>3. r = [q EXCEPT ![1] = e]
        BY <2>a, <2>b
    <2>4. r \in Seq(Elem) /\ Len(r) = Len(q) /\ \A i \in 1 .. Len(q) : r[i] = IF i = 1 THEN e ELSE q[i]
        BY <2>2, <2>3, <1>1, ExceptSeq
    <2>5. r # <<>> /\ r[1] = e
        BY <2>4, <1>1, EmptySeq
    <2>6. \A i \in 1 .. Len(r) : /\ r[i].from = q[i].from /\ r[i].size = q[i].size
                                 /\ i > 1 => r[i].cursor = q[i].cursor
        BY <2>4, <2>2
    <2>7. \A i \in 1 .. Len(r) : r[i].cursor < r[i].size /\ (i > 1 => r[i].cursor = 0)
        <3> TAKE i \in 1 .. Len(r)
        <3>1. CASE i = 1
            BY <3>1, <2>5, <2>2, <1>6, <1>a
        <3>2. CASE i # 1
            BY <3>2, <2>4, <1>3
        <3> QED
            BY <3>1, <3>2
    <2>8. \A i \in 1 .. Len(r) - 1 : r[i + 1].from = r[i].from + r[i].size
        <3> TAKE i \in 1 .. Len(r) - 1
        <3>1. i \in 1 .. Len(r) /\ i + 1 \in 1 .. Len(r) /\ i \in 1 .. Len(q) - 1
            BY <2>4, <1>1
        <3> QED
            BY <3>1, <2>6, <1>3
    <2>9. r[1].from + r[1].cursor = first + n
        BY <2>5, <2>2, <1>c, <1>a
    <2>10. r[Len(r)].from + r[Len(r)].size = last + 1
        BY <2>6, <2>4, <1>3, <1>1
    <2> QED
        BY <2>1, <2>4, <2>5, <2>7, <2>8, <2>9, <2>10 DEF Contiguous
<1> QED
    BY <1>5, <1>6

-----------------------------------------------------------------------------
LEMMA InitIInv == Init => IInv
<1> SUFFICES ASSUME Init PROVE IInv
    OBVIOUS
<1>1. Shape /\ AccountsWatched /\ ClosedAreEmpty /\ SentInOrder
    <2>1. <<>> \in Seq(Elem)
        BY EmptySeq
    <2> QED
        BY <2>1 DEF Init, Shape, AccountsWatched, ClosedAreEmpty, SentInOrder
<1>2. QueuesIntact
    BY DEF Init, QueuesIntact
<1> QED
    BY <1>1, <1>2 DEF IInv

(* A socket just opened has nothing queued and nothing taken. *)
LEMMA OpenSocketIInv == ASSUME IInv, NEW s \in Sid, OpenSocket(s) PROVE IInv'
<1> USE DEF IInv
<1>1. Shape' /\ AccountsWatched' /\ ClosedAreEmpty' /\ SentInOrder'
    BY DEF OpenSocket, poolVars, Shape, AccountsWatched, ClosedAreEmpty, SentInOrder
<1>2. QueuesIntact'
    <2> SUFFICES ASSUME NEW t \in open' PROVE Contiguous(queue[t], taken'[t] + 1, queued'[t])
        BY DEF QueuesIntact, OpenSocket, poolVars
    <2>1. CASE t = s
        <3>1. queue[t] = <<>> /\ taken'[t] = 0 /\ queued'[t] = 0
            BY <2>1 DEF OpenSocket, ClosedAreEmpty, Shape
        <3>2. Len(<<>>) = 0
            BY EmptySeq
        <3> QED
            BY <3>1, <3>2 DEF Contiguous
    <2>2. CASE t # s
        BY <2>2 DEF OpenSocket, QueuesIntact, Shape
    <2> QED
        BY <2>1, <2>2
<1> QED
    BY <1>1, <1>2

LEMMA EnqueueIInv == ASSUME IInv, NEW s \in Sid, NEW n \in Size, Enqueue(s, n) PROVE IInv'
<1> USE DEF IInv
<1>0. n \in Nat \ {0}
    BY WriterPoolAssumption
<1>1. s \in open /\ queue[s] \in Seq(Elem) /\ queued[s] \in Nat /\ taken[s] + 1 \in Nat
    BY DEF Enqueue, Shape
<1>2. Contiguous(queue[s], taken[s] + 1, queued[s])
    BY <1>1 DEF QueuesIntact
<1>3. queue'[s] \in Seq(Elem) /\ Contiguous(queue'[s], taken[s] + 1, queued[s] + n)
    <2>1. queue'[s] = Append(queue[s], [from |-> queued[s] + 1, size |-> n, cursor |-> 0])
        BY DEF Enqueue, Shape
    <2> QED
        BY <1>0, <1>1, <1>2, <2>1, AppendContiguous
<1>4. Shape'
    BY <1>0, <1>1, <1>3 DEF Enqueue, EnsureAccount, Shape
<1>5. AccountsWatched' /\ ClosedAreEmpty' /\ SentInOrder'
    BY <1>1 DEF Enqueue, EnsureAccount, Shape, AccountsWatched, ClosedAreEmpty, SentInOrder
<1>6. QueuesIntact'
    <2> SUFFICES ASSUME NEW t \in open PROVE Contiguous(queue'[t], taken[t] + 1, queued'[t])
        BY DEF QueuesIntact, Enqueue
    <2>1. CASE t = s
        BY <2>1, <1>3 DEF Enqueue, Shape
    <2>2. CASE t # s
        BY <2>2 DEF Enqueue, QueuesIntact, Shape
    <2> QED
        BY <2>1, <2>2
<1> QED
    BY <1>4, <1>5, <1>6

(* The frame starts with the byte after those taken, and what is taken of it is
   taken off the front message. *)
LEMMA SendGoodIInv == ASSUME IInv, NEW s \in Sid, NEW n \in 0 .. FrameSize, SendGood(s, n) PROVE IInv'
<1> USE DEF IInv
<1>0. n \in Nat /\ FrameSize \in Nat
    BY WriterPoolAssumption
<1>1. /\ s \in open /\ queue[s] \in Seq(Elem) /\ queue[s] # <<>>
      /\ queued[s] \in Nat /\ taken[s] \in Nat
    BY DEF SendGood, Shape, AccountsWatched
<1>2. Contiguous(queue[s], taken[s] + 1, queued[s])
    BY <1>1 DEF QueuesIntact
<1>3. Head(queue[s]) = queue[s][1] /\ queue[s][1] \in Elem
    <2>1. Len(queue[s]) \in Nat \ {0}
        BY <1>1, EmptySeq, LenProperties
    <2>2. 1 \in 1 .. Len(queue[s])
        BY <2>1
    <2> QED
        BY <1>1, <2>2, HeadTailProperties, ElementOfSeq
<1>4. Head(queue[s]).from + Head(queue[s]).cursor = taken[s] + 1
    BY <1>1, <1>2, <1>3 DEF Contiguous
<1>5. n <= Head(queue[s]).size - Head(queue[s]).cursor
    <2>1. Head(queue[s]).size \in Nat /\ Head(queue[s]).cursor \in Nat
        BY <1>3 DEF Elem
    <2>2. n <= Min2(Head(queue[s]).size - Head(queue[s]).cursor, FrameSize)
        BY DEF SendGood, Frame
    <2> QED
        BY <2>1, <2>2, <1>0 DEF Min2
<1>6. SentInOrder'
    BY <1>4 DEF SendGood, Frame, SentInOrder
<1>7. queue'[s] \in Seq(Elem) /\ Contiguous(queue'[s], taken[s] + n + 1, queued[s])
    <2>1. CASE n = 0
        <3>1. queue'[s] = queue[s] /\ taken[s] + n + 1 = taken[s] + 1
            BY <2>1, <1>1 DEF SendGood, Shape
        <3> QED
            BY <3>1, <1>1, <1>2
    <2>2. CASE n # 0
        <3>1. queue'[s] = Shift(queue[s], n)
            BY <2>2, <1>0 DEF SendGood, Shape
        <3>2. n \in Nat \ {0} /\ taken[s] + 1 \in Nat /\ taken[s] + 1 + n = taken[s] + n + 1
            BY <2>2, <1>0, <1>1
        <3>3. Shift(queue[s], n) \in Seq(Elem) /\ Contiguous(Shift(queue[s], n), taken[s] + 1 + n, queued[s])
            BY <3>2, <1>1, <1>2, <1>5, ShiftContiguous
        <3> QED
            BY <3>1, <3>2, <3>3
    <2> QED
        BY <2>1, <2>2
<1>8. Shape'
    <2>1. queue' \in [Sid -> Seq(Elem)]
        BY <1>7 DEF SendGood, Shape
    <2>2. taken' \in [Sid -> Nat]
        BY <1>0, <1>1 DEF SendGood, Shape
    <2>3. torn' \in BOOLEAN
        BY DEF SendGood
    <2> QED
        BY <2>1, <2>2, <2>3 DEF SendGood, Shape
<1>9. AccountsWatched' /\ ClosedAreEmpty'
    BY <1>1 DEF SendGood, Shape, AccountsWatched, ClosedAreEmpty
<1>10. QueuesIntact'
    <2> SUFFICES ASSUME NEW t \in open PROVE Contiguous(queue'[t], taken'[t] + 1, queued[t])
        BY DEF QueuesIntact, SendGood
    <2>1. CASE t = s
        BY <2>1, <1>7 DEF SendGood, Shape
    <2>2. CASE t # s
        BY <2>2 DEF SendGood, QueuesIntact, Shape
    <2> QED
        BY <2>1, <2>2
<1> QED
    BY <1>6, <1>8, <1>9, <1>10

(* What is removed is removed from the pool, the poller and the socket pool alike. *)
LEMMA ApplyRemoveIInv == ASSUME IInv, ApplyRemove PROVE IInv'
<1> USE DEF IInv
<1>1. Shape'
    <2>1. <<>> \in Seq(Elem)
        BY EmptySeq
    <2> QED
        BY <2>1 DEF ApplyRemove, Shape
<1>2. AccountsWatched' /\ ClosedAreEmpty' /\ SentInOrder'
    BY DEF ApplyRemove, Shape, AccountsWatched, ClosedAreEmpty, SentInOrder
<1>3. QueuesIntact'
    <2> SUFFICES ASSUME NEW t \in open \ removable PROVE Contiguous(queue'[t], taken[t] + 1, queued[t])
        BY DEF QueuesIntact, ApplyRemove
    <2>1. queue'[t] = queue[t]
        BY DEF ApplyRemove, Shape
    <2> QED
        BY <2>1 DEF QueuesIntact
<1> QED
    BY <1>1, <1>2, <1>3

(* The other actions leave the queues and the counts of bytes alone. *)
LEMMA QuietIInv ==
    ASSUME IInv, UNCHANGED <<open, queue, queued, taken, torn>>,
           accounts' \subseteq polled', polled' \subseteq open, writable' \subseteq accounts'
    PROVE  IInv'
<1> USE DEF IInv
<1>1. Shape' /\ AccountsWatched' /\ ClosedAreEmpty' /\ SentInOrder'
    BY DEF Shape, AccountsWatched, ClosedAreEmpty, SentInOrder
<1>2. QueuesIntact'
    BY DEF QueuesIntact
<1> QED
    BY <1>1, <1>2

LEMMA NextIInv == IInv /\ [Next]_vars => IInv'
<1> SUFFICES ASSUME IInv, [Next]_vars PROVE IInv'
    OBVIOUS
<1>0. writable \subseteq accounts /\ accounts \subseteq polled /\ polled \subseteq open
    BY DEF IInv, Shape, AccountsWatched
<1>1. CASE UNCHANGED vars
    BY <1>0, <1>1, QuietIInv DEF vars, poolVars
<1>2. ASSUME NEW s \in Sid, OpenSocket(s) PROVE IInv'
    BY <1>2, OpenSocketIInv
<1>a. ASSUME NEW s \in Sid, AddAccount(s) PROVE IInv'
    BY <1>0, <1>a, QuietIInv DEF AddAccount, EnsureAccount
<1>3. ASSUME NEW s \in Sid, RemoveLater(s) \/ Skip(s) \/ SendFailure(s) \/ PollFailure(s) PROVE IInv'
    BY <1>0, <1>3, QuietIInv DEF RemoveLater, Skip, SendFailure, PollFailure, poolVars
<1>4. ASSUME NEW s \in Sid, SendAgain(s) PROVE IInv'
    BY <1>0, <1>4, QuietIInv DEF SendAgain
<1>5. ASSUME NEW s \in Sid, CanWrite(s) PROVE IInv'
    BY <1>0, <1>5, QuietIInv DEF CanWrite
<1>6. ASSUME NEW s \in Sid, NEW n \in Size, Enqueue(s, n) PROVE IInv'
    BY <1>6, EnqueueIInv
<1>7. ASSUME NEW s \in Sid, NEW n \in 0 .. FrameSize, SendGood(s, n) PROVE IInv'
    BY <1>7, SendGoodIInv
<1>8. CASE BeginStep \/ PassAgain \/ BeginPoll \/ EndStep
    BY <1>0, <1>8, QuietIInv DEF BeginStep, PassAgain, BeginPoll, EndStep, poolVars
<1>9. CASE ApplyRemove
    BY <1>9, ApplyRemoveIInv
<1> QED
    BY <1>1, <1>2, <1>a, <1>3, <1>4, <1>5, <1>6, <1>7, <1>8, <1>9 DEF Next

LEMMA PoolIInv == Spec => []IInv
<1> QED
    BY InitIInv, NextIInv, PTL DEF Spec

(* What a socket takes is what was enqueued on it, in order and once, for every cut into
   frames and every short write. *)
THEOREM WriterInOrder == Spec => []SentInOrder
<1>1. IInv => SentInOrder
    BY DEF IInv
<1> QED
    BY <1>1, PoolIInv, PTL

(* A queue holds exactly the bytes enqueued and not yet taken, none lost or doubled by
   shift() or by the removal of other sockets. *)
THEOREM WriterQueues == Spec => []QueuesIntact
<1>1. IInv => QueuesIntact
    BY DEF IInv
<1> QED
    BY <1>1, PoolIInv, PTL

(* The pass over the accounts always finds their sockets, and the poller watches them. *)
THEOREM WriterAccounts == Spec => []AccountsWatched
<1>1. IInv => AccountsWatched
    BY DEF IInv
<1> QED
    BY <1>1, PoolIInv, PTL

-----------------------------------------------------------------------------
(***************************************************************************)
(* The count of the bytes that remain.  A socket without an account has    *)
(* nothing queued, so the account that enqueue() makes for it brings no    *)
(* bytes but those enqueued; what is taken was outstanding, because the    *)
(* queue is intact.  Removal only takes bytes away.                        *)
(***************************************************************************)
NoAccountEmpty == \A s \in Sid \ accounts : queue[s] = <<>>

Counted == IsFiniteSet(Outstanding) /\ RemainCovers

CInv == IInv /\ TypeOK /\ NoAccountEmpty /\ Counted

(* The bytes outstanding are those of the accounts' sockets between taken and queued. *)
LEMMA InOutstanding ==
    \A x : x \in Outstanding <=> \E s \in accounts : \E b \in taken[s] + 1 .. queued[s] : x = <<s, b>>
BY DEF Outstanding

LEMMA OutstandingInit == Init => CInv
<1> SUFFICES ASSUME Init PROVE CInv
    OBVIOUS
<1>1. IInv
    BY InitIInv
<1>2. Outstanding = {}
    BY DEF Init, Outstanding
<1>3. Counted
    BY <1>2, FS_EmptySet DEF Counted, RemainCovers, Init
<1>4. TypeOK /\ NoAccountEmpty
    BY <1>1 DEF Init, TypeOK, NoAccountEmpty, IInv, Shape
<1> QED  BY <1>1, <1>3, <1>4 DEF CInv

(* A step that adds no byte and counts none. *)
LEMMA FewerOutstanding ==
    ASSUME CInv, Outstanding' \subseteq Outstanding, remain' = remain
    PROVE  Counted'
<1>1. /\ IsFiniteSet(Outstanding') /\ Cardinality(Outstanding') <= Cardinality(Outstanding)
      /\ Cardinality(Outstanding) \in Nat /\ Cardinality(Outstanding') \in Nat
    BY FS_Subset, FS_CardinalityType DEF CInv, Counted
<1> QED  BY <1>1 DEF CInv, Counted, RemainCovers, TypeOK

(* An open socket without an account has no byte between taken and queued. *)
LEMMA NothingOwed ==
    ASSUME CInv, NEW s \in open \ accounts
    PROVE  taken[s] = queued[s] /\ taken[s] \in Nat
<1>1. s \in Sid /\ queue[s] = <<>> /\ taken[s] \in Nat /\ queued[s] \in Nat
    BY DEF CInv, TypeOK, NoAccountEmpty
<1>2. Contiguous(queue[s], taken[s] + 1, queued[s])
    BY DEF CInv, IInv, QueuesIntact
<1>3. taken[s] + 1 = queued[s] + 1
    BY <1>1, <1>2 DEF Contiguous
<1> QED  BY <1>1, <1>3

(* Each message of a queue ends no later than the last one: no more was taken than was queued. *)
LEMMA ContiguousOrdered ==
    ASSUME NEW q \in Seq(Elem), NEW done \in Nat, NEW last \in Nat, Contiguous(q, done + 1, last)
    PROVE  done <= last
<1>1. CASE q = <<>>
    BY <1>1 DEF Contiguous
<1>2. CASE q # <<>>
    <2>1. Len(q) \in Nat \ {0}
        BY <1>2, EmptySeq, LenProperties
    <2>2. /\ q[1].from + q[1].cursor = done + 1 /\ q[1].cursor < q[1].size
          /\ q[Len(q)].from + q[Len(q)].size = last + 1
          /\ \A i \in 1 .. Len(q) - 1 : q[i + 1].from = q[i].from + q[i].size
        BY <1>2, <2>1 DEF Contiguous
    <2>3. \A i \in 1 .. Len(q) : q[i].from \in Nat /\ q[i].size \in Nat /\ q[i].cursor \in Nat
        <3>1. \A i \in 1 .. Len(q) : q[i] \in Elem
            BY ElementOfSeq
        <3> QED  BY <3>1 DEF Elem
    <2> DEFINE End(i) == q[i].from + q[i].size
               Bad == {k \in Nat : k < Len(q) /\ ~(End(Len(q) - k) <= last + 1)}
    <2>4. Bad = {}
        <3> SUFFICES ASSUME Bad # {} PROVE FALSE
            OBVIOUS
        <3>1. PICK k \in Bad : \A m \in Bad : ~(<<m, k>> \in OpToRel(<, Nat))
            <4>1. Bad \subseteq Nat
                OBVIOUS
            <4> HIDE DEF Bad
            <4> QED  BY <4>1, NatLessThanWellFounded, WFMin
        <3>2. k \in Nat /\ k < Len(q) /\ \A m \in Bad : ~(m < k)
            BY <3>1 DEF OpToRel
        <3>3. k # 0
            <4> SUFFICES ASSUME k = 0 PROVE FALSE
                OBVIOUS
            <4>1. Len(q) - k = Len(q) /\ last + 1 <= last + 1
                BY <2>1
            <4>2. End(Len(q) - k) = last + 1
                BY <2>2, <4>1
            <4> QED  BY <3>1, <4>1, <4>2
        <3>4. PICK i \in 1 .. Len(q) - 1 : i = Len(q) - k
            <4>1. \A n \in Nat, m \in Nat \ {0} : m < n => n - m \in 1 .. n - 1
                OBVIOUS
            <4>2. k \in Nat \ {0} /\ k < Len(q) /\ Len(q) \in Nat
                BY <2>1, <3>2, <3>3
            <4>3. Len(q) - k \in 1 .. Len(q) - 1
                <5> HIDE DEF Bad
                <5> QED  BY <4>1, <4>2
            <4> QED  BY <4>3
        <3>5. Len(q) - (k - 1) = i + 1 /\ k - 1 \in Nat /\ k - 1 < Len(q) /\ k - 1 < k
            BY <2>1, <3>2, <3>3, <3>4
        <3>6. End(i + 1) <= last + 1
            BY <3>2, <3>5
        <3>7. q[i + 1].from = q[i].from + q[i].size /\ q[i + 1].size \in Nat /\ q[i].from + q[i].size \in Nat
            <4>1. i \in 1 .. Len(q) /\ i + 1 \in 1 .. Len(q)
                BY <2>1
            <4>2. q[i].from \in Nat /\ q[i].size \in Nat /\ q[i + 1].size \in Nat
                BY <2>3, <4>1
            <4>3. q[i + 1].from = q[i].from + q[i].size
                BY <2>2
            <4> HIDE DEF Bad
            <4>4. \A a, b \in Nat : a + b \in Nat
                OBVIOUS
            <4>5. q[i].from + q[i].size \in Nat
                BY <4>2, <4>4, Zenon
            <4> QED  BY <4>2, <4>3, <4>5, Zenon
        <3>8. End(i) <= last + 1
            BY <3>6, <3>7
        <3> QED  BY <3>1, <3>4, <3>8
    <2>5. End(1) <= last + 1
        <3>1. Len(q) - 1 \in Nat /\ Len(q) - 1 < Len(q) /\ Len(q) - (Len(q) - 1) = 1
            BY <2>1
        <3>2. Len(q) - 1 \notin Bad
            BY <2>4
        <3> QED  BY <3>1, <3>2
    <2>6. q[1].from \in Nat /\ q[1].size \in Nat /\ q[1].cursor \in Nat
        BY <2>1, <2>3
    <2>7. \A f, n, c \in Nat : f + c = done + 1 /\ c < n /\ f + n <= last + 1 => done <= last
        OBVIOUS
    <2>8. q[1].from + q[1].cursor = done + 1 /\ q[1].cursor < q[1].size /\ q[1].from + q[1].size <= last + 1
        BY <2>2, <2>5
    <2> QED  BY <2>6, <2>7, <2>8
<1> QED  BY <1>1, <1>2

LEMMA CountEnqueue == ASSUME CInv, NEW s \in Sid, NEW n \in Size, Enqueue(s, n) PROVE Counted' /\ remain' \in Nat
<1> DEFINE New == {s} \X (queued[s] + 1 .. queued[s] + n)
<1>1. /\ n \in Nat \ {0} /\ queued \in [Sid -> Nat] /\ taken \in [Sid -> Nat] /\ remain \in Nat /\ s \in open
      /\ accounts \subseteq Sid /\ accounts' = accounts \cup {s} /\ taken' = taken /\ remain' = remain + n
      /\ queued' = [queued EXCEPT ![s] = queued[s] + n]
    BY WriterPoolAssumption DEF CInv, TypeOK, Enqueue, EnsureAccount
<1>2. IsFiniteSet(New) /\ Cardinality(New) = n
    <2>1. queued[s] + 1 \in Int /\ queued[s] + n \in Int /\ queued[s] + 1 <= queued[s] + n
        BY <1>1
    <2>2. /\ IsFiniteSet(queued[s] + 1 .. queued[s] + n)
          /\ Cardinality(queued[s] + 1 .. queued[s] + n) = n
        BY <1>1, <2>1, FS_Interval
    <2>3. IsFiniteSet({s}) /\ Cardinality({s}) = 1
        BY FS_Singleton
    <2>4. IsFiniteSet(New) /\ Cardinality(New) = 1 * n
        BY <2>2, <2>3, FS_Product, ZenonT(40)
    <2> QED  BY <1>1, <2>4
<1>3. Outstanding' \subseteq Outstanding \cup New
    <2> SUFFICES ASSUME NEW t \in accounts', NEW b \in taken'[t] + 1 .. queued'[t]
                 PROVE  <<t, b>> \in Outstanding \cup New
        BY DEF Outstanding
    <2>1. CASE t = s
        <3>1. b \in Int /\ taken[s] + 1 <= b /\ b <= queued[s] + n
            BY <1>1, <2>1
        <3>2. CASE b > queued[s]
            BY <1>1, <2>1, <3>1, <3>2
        <3>3. CASE b <= queued[s]
            <4>1. b \in taken[s] + 1 .. queued[s]
                BY <1>1, <3>1, <3>3
            <4>2. s \in accounts
                <5> SUFFICES ASSUME s \notin accounts PROVE FALSE
                    OBVIOUS
                <5>1. taken[s] = queued[s]
                    BY <1>1, NothingOwed
                <5> QED  BY <1>1, <3>1, <3>3, <5>1
            <4> QED  BY <2>1, <4>1, <4>2, InOutstanding
        <3> QED  BY <1>1, <3>1, <3>2, <3>3
    <2>2. CASE t # s
        <3>1. t \in accounts /\ b \in taken[t] + 1 .. queued[t]
            BY <1>1, <2>2
        <3> QED  BY <3>1, InOutstanding
    <2> QED  BY <2>1, <2>2
<1>4. IsFiniteSet(Outstanding) /\ Cardinality(Outstanding) <= remain /\ Cardinality(Outstanding) \in Nat
    BY FS_CardinalityType DEF CInv, Counted, RemainCovers
<1> HIDE DEF New
<1>5. /\ IsFiniteSet(Outstanding \cup New) /\ Cardinality(Outstanding \cap New) \in Nat
      /\ Cardinality(Outstanding \cup New) = Cardinality(Outstanding) + n - Cardinality(Outstanding \cap New)
    <2>1. IsFiniteSet(Outstanding \cap New)
        BY <1>2, FS_Subset
    <2> QED  BY <1>2, <1>4, <2>1, FS_Union, FS_CardinalityType
<1>6. IsFiniteSet(Outstanding') /\ Cardinality(Outstanding') <= Cardinality(Outstanding \cup New)
    BY <1>3, <1>5, FS_Subset
<1>7. Cardinality(Outstanding') \in Nat /\ Cardinality(Outstanding') <= remain + n
    <2>1. Cardinality(Outstanding') \in Nat
        BY <1>6, FS_CardinalityType
    <2> QED  BY <1>1, <1>4, <1>5, <1>6, <2>1
<1> QED  BY <1>1, <1>6, <1>7 DEF Counted, RemainCovers

(* What the socket took was outstanding: the front message ends within what was queued. *)
LEMMA CountSendGood ==
    ASSUME CInv, NEW s \in Sid, NEW n \in 0 .. FrameSize, SendGood(s, n), IInv'
    PROVE  Counted' /\ remain' \in Nat
<1> DEFINE Gone == {s} \X (taken[s] + 1 .. taken[s] + n)
<1>1. /\ n \in Nat /\ queued \in [Sid -> Nat] /\ taken \in [Sid -> Nat] /\ remain \in Nat
      /\ s \in accounts /\ s \in open /\ accounts \subseteq Sid /\ accounts' = accounts /\ queued' = queued
      /\ open' = open /\ taken' = [taken EXCEPT ![s] = taken[s] + n] /\ remain' = remain - n
    BY WriterPoolAssumption DEF CInv, TypeOK, SendGood, RemainLess, IInv, AccountsWatched
<1>2. taken[s] + n <= queued[s]
    <2>1. Contiguous(queue'[s], taken'[s] + 1, queued'[s]) /\ queue'[s] \in Seq(Elem)
        BY <1>1 DEF IInv, QueuesIntact, Shape
    <2>2. taken'[s] = taken[s] + n /\ queued'[s] = queued[s]
        BY <1>1
    <2>3. taken'[s] \in Nat /\ queued'[s] \in Nat
        BY <1>1, <2>2
    <2>4. taken'[s] <= queued'[s]
        BY <2>1, <2>3, ContiguousOrdered
    <2> QED  BY <2>2, <2>4
<1>3. IsFiniteSet(Gone) /\ Cardinality(Gone) = n
    <2>1. taken[s] + 1 \in Int /\ taken[s] + n \in Int
        BY <1>1
    <2>2. /\ IsFiniteSet(taken[s] + 1 .. taken[s] + n)
          /\ Cardinality(taken[s] + 1 .. taken[s] + n)
                = IF taken[s] + 1 > taken[s] + n THEN 0 ELSE (taken[s] + n) - (taken[s] + 1) + 1
        BY <2>1, FS_Interval
    <2>5. Cardinality(taken[s] + 1 .. taken[s] + n) = n
        BY <1>1, <2>2
    <2>3. IsFiniteSet({s}) /\ Cardinality({s}) = 1
        BY FS_Singleton
    <2>4. IsFiniteSet(Gone) /\ Cardinality(Gone) = 1 * n
        <3>1. PICK R : R = taken[s] + 1 .. taken[s] + n
            OBVIOUS
        <3>2. IsFiniteSet(R) /\ Cardinality(R) = n /\ Gone = {s} \X R
            BY <2>2, <2>5, <3>1
        <3> HIDE DEF Gone
        <3> QED  BY <2>3, <3>2, FS_Product
    <2> QED  BY <1>1, <2>4
<1>4. Gone \subseteq Outstanding
    <2> SUFFICES ASSUME NEW b \in taken[s] + 1 .. taken[s] + n PROVE <<s, b>> \in Outstanding
        OBVIOUS
    <2>1. b \in taken[s] + 1 .. queued[s]
        BY <1>1, <1>2
    <2> QED  BY <1>1, <2>1, InOutstanding
<1>5. Outstanding' \subseteq Outstanding \ Gone
    <2> SUFFICES ASSUME NEW t \in accounts, NEW b \in taken'[t] + 1 .. queued[t]
                 PROVE  <<t, b>> \in Outstanding /\ <<t, b>> \notin Gone
        BY <1>1 DEF Outstanding
    <2>1. b \in taken[t] + 1 .. queued[t] /\ (t = s => b > taken[s] + n)
        BY <1>1
    <2> QED  BY <1>1, <2>1, InOutstanding
<1>6. IsFiniteSet(Outstanding) /\ Cardinality(Outstanding) <= remain /\ Cardinality(Outstanding) \in Nat
    BY FS_CardinalityType DEF CInv, Counted, RemainCovers
<1> HIDE DEF Gone
<1>7. IsFiniteSet(Outstanding \ Gone) /\ Cardinality(Outstanding \ Gone) = Cardinality(Outstanding) - n
    <2>1. Outstanding \cap Gone = Gone
        BY <1>4
    <2> QED  BY <1>3, <1>6, <2>1, FS_Difference, ZenonT(40)
<1>8. IsFiniteSet(Outstanding') /\ Cardinality(Outstanding') <= Cardinality(Outstanding) - n
    BY <1>5, <1>7, FS_Subset
<1>9. Cardinality(Outstanding') \in Nat
    BY <1>8, FS_CardinalityType
<1> QED  BY <1>1, <1>6, <1>8, <1>9 DEF Counted, RemainCovers

LEMMA NextCInv == CInv /\ [Next]_vars => CInv'
<1> SUFFICES ASSUME CInv, [Next]_vars PROVE CInv'
    OBVIOUS
<1>0. IInv'
    BY NextIInv DEF CInv
<1> DEFINE Fields ==
        /\ open \subseteq Sid /\ accounts \subseteq Sid /\ polled \subseteq Sid /\ removable \subseteq Sid
        /\ phase \in {"idle", "send", "poll", "rest"} /\ todo \subseteq Sid
        /\ NoAccountEmpty
<1>f. Fields
    BY DEF CInv, TypeOK
<1>t. ASSUME Fields', Counted', remain' \in Nat PROVE CInv'
    BY <1>0, <1>t DEF CInv, TypeOK, IInv, Shape
<1>q. ASSUME UNCHANGED <<accounts, queued, taken, remain>> PROVE Counted' /\ remain' \in Nat
    <2>1. Outstanding' = Outstanding
        BY <1>q DEF Outstanding
    <2> QED  BY <1>q, <2>1, FewerOutstanding DEF CInv, TypeOK
<1>1. CASE UNCHANGED vars
    <2>1. Fields'
        BY <1>f, <1>1 DEF vars, poolVars, stepVars, NoAccountEmpty
    <2> QED  BY <1>1, <2>1, <1>q, <1>t DEF vars, poolVars
<1>2. ASSUME NEW s \in Sid, OpenSocket(s) PROVE CInv'
    <2>1. Fields'
        BY <1>f, <1>2 DEF OpenSocket, poolVars, stepVars, NoAccountEmpty
    <2>2. /\ accounts' = accounts /\ remain' = remain /\ s \notin accounts /\ accounts \subseteq Sid
          /\ \A t \in accounts : taken'[t] = taken[t] /\ queued'[t] = queued[t]
        BY <1>2 DEF OpenSocket, poolVars, CInv, IInv, Shape, AccountsWatched, TypeOK
    <2>3. Outstanding' = Outstanding
        BY <2>2 DEF Outstanding
    <2> QED  BY <2>1, <2>2, <2>3, <1>t, FewerOutstanding DEF CInv, TypeOK
<1>3. ASSUME NEW s \in Sid, AddAccount(s) PROVE CInv'
    <2>1. Fields'
        BY <1>f, <1>3 DEF AddAccount, EnsureAccount, stepVars, NoAccountEmpty
    <2>2. /\ accounts' = accounts \cup {s} /\ s \in open /\ taken' = taken /\ queued' = queued /\ remain' = remain
          /\ \A t \in Sid : taken[t] \in Nat /\ queued[t] \in Nat
        BY <1>3 DEF AddAccount, EnsureAccount, CInv, TypeOK
    <2>3. s \notin accounts => taken[s] + 1 .. queued[s] = {}
        <3>1. ASSUME s \notin accounts PROVE taken[s] = queued[s]
            BY <2>2, <3>1, NothingOwed
        <3> QED  BY <2>2, <3>1
    <2>4. Outstanding' \subseteq Outstanding
        BY <2>2, <2>3 DEF Outstanding
    <2> QED  BY <2>1, <2>2, <2>4, <1>t, FewerOutstanding DEF CInv, TypeOK
<1>4. ASSUME NEW s \in Sid, RemoveLater(s) \/ Skip(s) \/ SendFailure(s) \/ PollFailure(s)
      PROVE  CInv'
    <2>1. Fields'
        BY <1>f, <1>4 DEF RemoveLater, Skip, SendFailure, PollFailure, Visit, Report, poolVars, stepVars, NoAccountEmpty
    <2> QED  BY <1>4, <2>1, <1>q, <1>t DEF RemoveLater, Skip, SendFailure, PollFailure, poolVars
<1>5. ASSUME NEW s \in Sid, SendAgain(s) \/ CanWrite(s) PROVE CInv'
    <2>1. Fields'
        BY <1>f, <1>5 DEF SendAgain, CanWrite, Visit, Report, NoAccountEmpty
    <2> QED  BY <1>5, <2>1, <1>q, <1>t DEF SendAgain, CanWrite
<1>6. ASSUME NEW s \in Sid, NEW n \in Size, Enqueue(s, n) PROVE CInv'
    <2>1. Fields'
        BY <1>f, <1>6 DEF Enqueue, EnsureAccount, stepVars, NoAccountEmpty
    <2> QED  BY <1>6, <2>1, <1>t, CountEnqueue
<1>7. ASSUME NEW s \in Sid, NEW n \in 0 .. FrameSize, SendGood(s, n) PROVE CInv'
    <2>1. s \in accounts
        BY <1>7 DEF SendGood, CInv, TypeOK
    <2>2. Fields'
        BY <1>f, <1>7, <2>1 DEF SendGood, Visit, NoAccountEmpty
    <2> QED  BY <1>0, <1>7, <2>2, <1>t, CountSendGood
<1>8. CASE BeginStep \/ PassAgain \/ BeginPoll \/ EndStep
    <2>1. Fields'
        BY <1>f, <1>8 DEF BeginStep, PassAgain, BeginPoll, EndStep, poolVars, NoAccountEmpty
    <2> QED  BY <1>8, <2>1, <1>q, <1>t DEF BeginStep, PassAgain, BeginPoll, EndStep, poolVars
<1>9. CASE ApplyRemove
    <2>1. Fields'
        BY <1>f, <1>9 DEF ApplyRemove, NoAccountEmpty
    <2>2. accounts' \subseteq accounts /\ taken' = taken /\ queued' = queued /\ remain' = remain
        BY <1>9 DEF ApplyRemove
    <2>3. Outstanding' \subseteq Outstanding
        BY <2>2 DEF Outstanding
    <2> QED  BY <2>1, <2>2, <2>3, <1>t, FewerOutstanding DEF CInv, TypeOK
<1> QED
    BY <1>1, <1>2, <1>3, <1>4, <1>5, <1>6, <1>7, <1>8, <1>9 DEF Next

LEMMA PoolCInv == Spec => []CInv
<1> QED
    BY OutstandingInit, NextCInv, PTL DEF Spec

(* The types of the state; in particular _remain_bytes, which is unsigned in the code, is
   never negative. *)
THEOREM WriterTypes == Spec => []TypeOK
<1>1. CInv => TypeOK
    BY DEF CInv
<1> QED
    BY <1>1, PoolCInv, PTL

(* _remain_bytes covers the bytes that the accounts have still to send, for any number of
   sockets and bytes. *)
THEOREM WriterRemain == Spec => []RemainCovers
<1>1. CInv => RemainCovers
    BY DEF CInv, Counted
<1> QED
    BY <1>1, PoolCInv, PTL
=============================================================================
