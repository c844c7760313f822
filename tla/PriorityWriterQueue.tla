------------------------ MODULE PriorityWriterQueue ------------------------
(***************************************************************************)
(* priority_writer_queue<N> (patterns/meshnet/priority_writer_queue.hpp)   *)
(* with the framing of priority_frame.hpp, as writer_pool::send drives it: *)
(* frame(), the socket takes some or all of the frame, shift().            *)
(*                                                                         *)
(* A byte of the k-th enqueued message is <<k, offset>>.  std::size_t      *)
(* arithmetic is modulo SizeMod.                                           *)
(***************************************************************************)
EXTENDS Integers, Sequences, FiniteSetsExt

CONSTANTS N,           \* number of priorities
          Limit,       \* frame_calculator<N>::x, indexed by priority
          Priority,    \* the priorities the senders use
          Size,        \* message sizes, in bytes
          FrameSize,   \* the account's frame_size
          SizeMod,     \* 2^w, w the width of std::size_t
          MaxMessages, \* bound on the number of messages
          MaxFrames    \* bound on the number of frames sent

HeaderSize == 3   \* priority_frame::header_size()

ASSUME QueueAssumption ==
    /\ N \in Nat \ {0} /\ Limit \in [0 .. N-1 -> Nat \ {0}] /\ Priority \subseteq 0 .. N-1
    /\ Size \subseteq Nat \ {0} /\ FrameSize \in Nat /\ FrameSize > HeaderSize
    /\ MaxMessages \in Nat /\ MaxFrames \in Nat
    /\ SizeMod \in Nat \ {0} /\ \A n \in Size : MaxMessages * (n + HeaderSize) < SizeMod

VARIABLES qp,      \* _qp: priority -> [q, limit, counter], q a sequence of [id, size, cursor]
          cursor,  \* _priority_cursor
          total,   \* _total_size
          sizes,   \* the sizes of the messages enqueued, in order
          wire,    \* what the socket took: frames [priority, size, bytes]
          harmed,  \* messages that shift() copied or overwrote, or whose frame lost its header
          fault    \* the assertion or undefined behaviour that ended the process

vars == <<qp, cursor, total, sizes, wire, harmed, fault>>

Queues == 0 .. N-1

Init ==
    /\ qp = [i \in Queues |-> [q |-> <<>>, limit |-> Limit[i], counter |-> Limit[i]]]
    /\ cursor = 0 /\ total = 0
    /\ sizes = <<>> /\ wire = <<>> /\ harmed = {}
    /\ fault = "none"

ResetPhase(p) == [i \in Queues |-> [p[i] EXCEPT !.counter = p[i].limit]]

Enqueue(p, n) ==
    /\ fault = "none" /\ Len(sizes) < MaxMessages
    /\ total' = (total + n) % SizeMod
    /\ qp' = [qp EXCEPT ![p].q = Append(@, [id |-> Len(sizes) + 1, size |-> n, cursor |-> 0])]
    /\ sizes' = Append(sizes, n)
    /\ UNCHANGED <<cursor, wire, harmed, fault>>

(* frame(): the first bytes of the message at the front of the cursor's queue. *)
Front == Head(qp[cursor].q)
FrameLen == Min({Front.size - Front.cursor + HeaderSize, FrameSize})

(***************************************************************************)
(* The search of shift() for the next queue.  In the code `x' is a         *)
(* reference to the queue just served, old, so x = _qp[k] copies queue k   *)
(* over queue old; the copy that remains is that of the last k visited.    *)
(***************************************************************************)
CopyOver(p, old, k) == [p EXCEPT ![old] = p[k]]

(* The first search: the later queues, up to one whose counter is not zero. *)
Later(p, old) == {k \in old + 1 .. N-1 : p[k].counter # 0}

(* The second search, after reset_phase(): all queues, up to one that is not empty.
   When it comes to old > 0, that queue is already a copy of an empty one. *)
Suitable(p, old) == {k \in Queues : p[k].q # <<>> /\ (k = old => old = 0)}

FindQueue(p, old) ==
    LET first == Later(p, old)
        reset == ResetPhase(IF old < N-1 THEN CopyOver(p, old, N-1) ELSE p)
        again == Suitable(reset, old)
    IN  IF first # {} THEN [qp |-> CopyOver(p, old, Min(first)), cursor |-> Min(first), fault |-> "none"]
        ELSE IF again # {} THEN [qp |-> CopyOver(reset, old, Min(again)), cursor |-> Min(again), fault |-> "none"]
        ELSE [qp |-> p, cursor |-> old, fault |-> "fix_shift"]

\* Fault: a message stays queued until its cursor passes its size.
AdvanceLate(x, n) ==
    LET c == (Head(x.q).cursor + n) % SizeMod
    IN  [x EXCEPT !.q = IF c > Head(x.q).size THEN Tail(x.q) ELSE [x.q EXCEPT ![1].cursor = c],
                  !.counter = x.counter - 1]

\* Fault: the cursor that moves is that of a copy of the front message.
AdvanceCopy(x, n) ==
    [x EXCEPT !.q = IF (Head(x.q).cursor + n) % SizeMod >= Head(x.q).size THEN Tail(x.q) ELSE x.q,
              !.counter = x.counter - 1]

(* shift(): n more bytes of the front message are sent, and one frame of the phase. *)
Advance(x, n) ==
    LET c == (Head(x.q).cursor + n) % SizeMod
    IN  [x EXCEPT !.q = IF c >= Head(x.q).size THEN Tail(x.q) ELSE [x.q EXCEPT ![1].cursor = c],
                  !.counter = x.counter - 1]

PhaseGoesOn(x) == x.counter > 0 /\ x.q # <<>>

(* The queues of a pool that hold the message with number id. *)
Places(p, id) == {i \in Queues : \E k \in DOMAIN p[i].q : p[i].q[k].id = id}

(* shift(taken).  Less than a header taken makes n wrap around, and the cursor and the total
   move backwards by what is missing. *)
Shift(taken) ==
    LET n    == (taken - HeaderSize) % SizeMod
        left == (total - n) % SizeMod
        x    == Advance(qp[cursor], n)
        p    == [qp EXCEPT ![cursor] = x]
        next == FindQueue([p EXCEPT ![cursor].counter = 0], cursor)
    IN  /\ total' = left
        /\ \/ /\ PhaseGoesOn(x)
              /\ qp' = p
              /\ UNCHANGED <<cursor, fault>>
           \/ /\ ~PhaseGoesOn(x) /\ left = 0
              /\ cursor' = 0 /\ qp' = ResetPhase(p)
              /\ UNCHANGED fault
           \/ /\ ~PhaseGoesOn(x) /\ left # 0
              /\ qp' = next.qp /\ cursor' = next.cursor /\ fault' = next.fault
        /\ harmed' = harmed \cup {id \in DOMAIN sizes : Places(qp', id) # Places(p, id)}
                            \cup (IF taken < HeaderSize THEN {Front.id} ELSE {})

(* writer_pool::send: a frame is built, the socket takes some bytes of it, shift(). *)
Frame(taken) ==
    [priority |-> cursor,
     size     |-> FrameLen - HeaderSize,
     bytes    |-> [i \in 1 .. taken - HeaderSize |-> <<Front.id, Front.cursor + i>>]]

Send(taken) ==
    /\ fault = "none" /\ Len(wire) < MaxFrames /\ total # 0 /\ qp[cursor].q # <<>>
    /\ taken \in 1 .. FrameLen
    /\ wire' = Append(wire, Frame(taken))
    /\ Shift(taken)
    /\ UNCHANGED sizes

(* frame() of an empty queue: front() of an empty list. *)
SendFromEmpty ==
    /\ fault = "none" /\ total # 0 /\ qp[cursor].q = <<>>
    /\ fault' = "empty_front"
    /\ UNCHANGED <<qp, cursor, total, sizes, wire, harmed>>

Next ==
    \/ \E p \in Priority, n \in Size : Enqueue(p, n)
    \/ \E taken \in 1 .. FrameSize : Send(taken)
    \/ SendFromEmpty

Spec == Init /\ [][Next]_vars

-----------------------------------------------------------------------------
Elem == [id : 1 .. MaxMessages, size : Size, cursor : 0 .. SizeMod - 1]

(* Types of the state; the cursor is the index of a queue of the pool, and a queue that
   may be served has frames left in its phase. *)
TypeOK ==
    /\ cursor \in Queues /\ total \in 0 .. SizeMod - 1
    /\ \A i \in Queues :
          /\ \A k \in DOMAIN qp[i].q : qp[i].q[k] \in Elem
          /\ qp[i].limit \in {Limit[k] : k \in Queues} /\ qp[i].counter \in 0 .. qp[i].limit
    /\ harmed \subseteq DOMAIN sizes
    /\ fault \in {"none", "empty_front", "fix_shift"}

(* The frames that carry bytes of a message, and how many bytes frames carry. *)
Carriers(id) == {i \in DOMAIN wire : wire[i].bytes # <<>> /\ wire[i].bytes[1][1] = id}
Bytes(frames) == MapThenSumSet(LAMBDA i : Len(wire[i].bytes), frames)

(* Where the message is kept: the queue and its place there. *)
Kept(id) ==
    {e \in Queues \X (1 .. Len(sizes)) : e[2] \in DOMAIN qp[e[1]].q /\ qp[e[1]].q[e[2]].id = id}

(* A message that none of shift()'s copies touched and whose frames were not cut within the
   header goes out once, in order, and under one priority, through any interleaving of the
   priorities and any short writes: its frames follow each other without gap or repetition,
   and what they have not carried yet is queued in one place.  While this holds of all
   messages, _total_size is what is left to be sent. *)
SentOnce ==
    /\ TypeOK
    /\ \A id \in DOMAIN sizes \ harmed :
          LET on == Carriers(id)
          IN  /\ \A i \in on : wire[i].bytes[1][2] = Bytes({j \in on : j < i}) + 1
              /\ \A i, j \in on : wire[i].priority = wire[j].priority
              /\ \/ Bytes(on) = sizes[id] /\ Kept(id) = {}
                 \/ \E e \in Kept(id) :
                       /\ Kept(id) = {e} /\ qp[e[1]].q[e[2]].cursor = Bytes(on) /\ Bytes(on) < sizes[id]
                       /\ \A i \in on : wire[i].priority = e[1]
    /\ harmed = {} =>
          total = MapThenSumSet(LAMBDA id : sizes[id], DOMAIN sizes) - Bytes(DOMAIN wire)

(* Every frame put on the wire announces a non-empty piece of one enqueued message, and
   carries bytes of that message only: neither the copies of queues nor a cursor that a
   short write moved backwards make a frame read beyond its message. *)
FramesGenuine ==
    \A i \in DOMAIN wire :
        LET b == wire[i].bytes
        IN  /\ wire[i].size \in 1 .. FrameSize - HeaderSize
            /\ \A k \in DOMAIN b : b[k] = <<b[1][1], b[1][2] + k - 1>>
            /\ b # <<>> => b[1][2] + wire[i].size - 1 <= sizes[b[1][1]]
=============================================================================
