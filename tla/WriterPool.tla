----------------------------- MODULE WriterPool -----------------------------
(***************************************************************************)
(* writer_pool (include/pfs/netty/writer_pool.hpp) with writer_queue       *)
(* (writer_queue.hpp): messages are queued per socket, sent in frames of   *)
(* bounded size while the socket is writable, and a socket that can take   *)
(* no more waits for the writer poller.                                    *)
(*                                                                         *)
(* The bytes queued on a socket since it was opened are numbered from 1; a *)
(* queue element holds those from `from' on, and its cursor.  step() makes *)
(* passes over the accounts that send (the order in which one visits them  *)
(* is that of an unordered map), as many as its time allows, and then the  *)
(* poll; the owner's other pools run after it, and then the removals are   *)
(* applied.                                                                *)
(***************************************************************************)
EXTENDS Integers, Sequences, FiniteSets

CONSTANTS Sid,        \* socket identifiers
          Size,       \* message sizes
          FrameSize,  \* the accounts' frame_size
          MaxBytes,   \* bound on the bytes queued on a socket
          MaxRemain   \* bound on _remain_bytes

ASSUME WriterPoolAssumption ==
    Size \subseteq Nat \ {0} /\ FrameSize \in Nat \ {0} /\ MaxBytes \in Nat /\ MaxRemain \in Nat

VARIABLES open,      \* the sockets that _locate_socket finds
          accounts,  \* _accounts
          writable,  \* accounts whose writable flag is set
          queue,     \* account -> its writer_queue: sequence of [from, size, cursor]
          polled,    \* the sockets the writer poller watches
          removable, \* _removable
          phase,     \* "idle" between two steps, "send", "poll", "rest" of the owner's step
          todo,      \* accounts that the pass or the poll has still to visit
          queued,    \* socket -> bytes enqueued since it was opened
          taken,     \* socket -> bytes the operating system has taken from it
          remain,    \* _remain_bytes
          torn       \* TRUE once a frame did not continue what had been taken before

poolVars == <<accounts, writable, queue, polled, removable, remain>>
stepVars == <<phase, todo>>
vars == <<open, poolVars, stepVars, queued, taken, torn>>

Init ==
    /\ open = {} /\ accounts = {} /\ writable = {} /\ polled = {} /\ removable = {}
    /\ queue = [s \in Sid |-> <<>>]
    /\ phase = "idle" /\ todo = {}
    /\ queued = [s \in Sid |-> 0] /\ taken = [s \in Sid |-> 0]
    /\ remain = 0 /\ torn = FALSE

(* A new connection gets a descriptor that no open socket holds. *)
OpenSocket(s) ==
    /\ phase = "idle" /\ s \notin open
    /\ open' = open \cup {s}
    /\ queued' = [queued EXCEPT ![s] = 0] /\ taken' = [taken EXCEPT ![s] = 0]
    /\ UNCHANGED <<poolVars, stepVars, torn>>

\* Fault: the poller is not told of a new account.
EnsureAccountUnwatched(s) ==
    /\ accounts' = accounts \cup {s}
    /\ UNCHANGED polled

(* ensure_account(): a new account waits for the poller to find it writable. *)
EnsureAccount(s) ==
    /\ accounts' = accounts \cup {s}
    /\ polled' = IF s \in accounts THEN polled ELSE polled \cup {s}

(* enqueue() *)
Enqueue(s, n) ==
    /\ phase \in {"idle", "rest"} /\ s \in open
    /\ queued[s] + n <= MaxBytes /\ remain + n <= MaxRemain
    /\ EnsureAccount(s)
    /\ queue' = [queue EXCEPT ![s] = Append(@, [from |-> queued[s] + 1, size |-> n, cursor |-> 0])]
    /\ queued' = [queued EXCEPT ![s] = @ + n]
    /\ remain' = remain + n
    /\ UNCHANGED <<open, writable, removable, stepVars, taken, torn>>

(* add() *)
AddAccount(s) ==
    /\ phase \in {"idle", "rest"} /\ s \in open
    /\ EnsureAccount(s)
    /\ UNCHANGED <<open, writable, queue, removable, remain, stepVars, queued, taken, torn>>

(* The owner's remove_later(), for a socket that failed elsewhere. *)
RemoveLater(s) ==
    /\ phase = "rest" /\ s \in open
    /\ removable' = removable \cup {s}
    /\ UNCHANGED <<open, accounts, writable, queue, polled, remain, stepVars, queued, taken, torn>>

BeginStep ==
    /\ phase = "idle"
    /\ phase' = "send" /\ todo' = accounts
    /\ UNCHANGED <<open, poolVars, queued, taken, torn>>

Min2(a, b) == IF a <= b THEN a ELSE b

\* Fault: an unsent frame is counted as sent.
RemainLessFrame(s, n) == remain - Min2(Head(queue[s]).size, FrameSize)

(* _remain_bytes after send() took n bytes. *)
RemainLess(s, n) == remain - n

\* Fault: the frame starts at the beginning of the message, sent in part or not.
FrameRestart(s) ==
    LET e == Head(queue[s])
    IN  [first |-> e.from, len |-> Min2(e.size - e.cursor, FrameSize)]

(* writer_queue::frame() *)
Frame(s) ==
    LET e == Head(queue[s])
    IN  [first |-> e.from + e.cursor, len |-> Min2(e.size - e.cursor, FrameSize)]

\* Fault: a message sent in part is taken off the queue.
ShiftDrops(q, n) == Tail(q)

(* writer_queue::shift() *)
Shift(q, n) ==
    IF Head(q).cursor + n >= Head(q).size THEN Tail(q) ELSE [q EXCEPT ![1].cursor = @ + n]

Visit(s) == phase = "send" /\ s \in todo /\ todo' = todo \ {s} /\ UNCHANGED phase

(* The pass has nothing to do for an account. *)
Skip(s) ==
    /\ Visit(s) /\ (s \notin writable \/ queue[s] = <<>>)
    /\ UNCHANGED <<open, poolVars, queued, taken, torn>>

(* Socket::send takes n bytes of the frame. *)
SendGood(s, n) ==
    /\ Visit(s) /\ s \in writable /\ queue[s] # <<>>
    /\ n <= Frame(s).len
    /\ taken' = [taken EXCEPT ![s] = @ + n]
    /\ torn' = (torn \/ Frame(s).first # taken[s] + 1)
    /\ remain' = RemainLess(s, n)
    /\ queue' = [queue EXCEPT ![s] = IF n > 0 THEN Shift(queue[s], n) ELSE queue[s]]
    /\ UNCHANGED <<open, accounts, writable, polled, removable, queued>>

(* Socket::send cannot take any now: EAGAIN, ENOBUFS. *)
SendAgain(s) ==
    /\ Visit(s) /\ s \in writable /\ queue[s] # <<>>
    /\ writable' = writable \ {s}
    /\ polled' = polled \cup {s}
    /\ UNCHANGED <<open, accounts, queue, removable, remain, queued, taken, torn>>

(* Socket::send fails; the owner's callback asks for the removal of the socket too. *)
SendFailure(s) ==
    /\ Visit(s) /\ s \in writable /\ queue[s] # <<>>
    /\ removable' = removable \cup {s}
    /\ UNCHANGED <<open, accounts, writable, queue, polled, remain, queued, taken, torn>>

(* Time is left for another pass. *)
PassAgain ==
    /\ phase = "send" /\ todo = {} /\ accounts # {}
    /\ todo' = accounts
    /\ UNCHANGED <<open, poolVars, phase, queued, taken, torn>>

BeginPoll ==
    /\ phase = "send" /\ todo = {}
    /\ phase' = "poll" /\ todo' = polled
    /\ UNCHANGED <<open, poolVars, queued, taken, torn>>

Report(s) == phase = "poll" /\ s \in todo /\ todo' = todo \ {s} /\ UNCHANGED phase

CanWrite(s) ==
    /\ Report(s)
    /\ writable' = IF s \in accounts THEN writable \cup {s} ELSE writable
    /\ UNCHANGED <<open, accounts, queue, polled, removable, remain, queued, taken, torn>>

PollFailure(s) ==
    /\ Report(s)
    /\ removable' = removable \cup {s}
    /\ UNCHANGED <<open, accounts, writable, queue, polled, remain, queued, taken, torn>>

(* The sockets the poll has nothing to say of, and the end of step(). *)
EndStep ==
    /\ phase = "poll"
    /\ phase' = "rest" /\ todo' = {}
    /\ UNCHANGED <<open, poolVars, queued, taken, torn>>

\* Fault: the account of a removed socket is kept.
ApplyRemoveKeepsAccount ==
    /\ phase = "rest" /\ phase' = "idle"
    /\ polled' = polled \ removable
    /\ removable' = {}
    /\ open' = open \ removable
    /\ UNCHANGED <<accounts, writable, queue, remain, todo, queued, taken, torn>>

(* apply_remove(), and then that of the socket pool, which closes the sockets. *)
ApplyRemove ==
    /\ phase = "rest" /\ phase' = "idle"
    /\ polled' = polled \ removable
    /\ accounts' = accounts \ removable
    /\ writable' = writable \ removable
    /\ queue' = [s \in Sid |-> IF s \in removable THEN <<>> ELSE queue[s]]
    /\ removable' = {}
    /\ open' = open \ removable
    /\ UNCHANGED <<remain, todo, queued, taken, torn>>

Next ==
    \/ \E s \in Sid : OpenSocket(s) \/ AddAccount(s) \/ RemoveLater(s) \/ Skip(s) \/ SendAgain(s) \/ SendFailure(s)
                      \/ CanWrite(s) \/ PollFailure(s)
    \/ \E s \in Sid, n \in Size : Enqueue(s, n)
    \/ \E s \in Sid, n \in 0 .. FrameSize : SendGood(s, n)
    \/ BeginStep \/ PassAgain \/ BeginPoll \/ EndStep \/ ApplyRemove

Spec == Init /\ [][Next]_vars

(***************************************************************************)
(* The owner calls step() and apply_remove() for ever, and the time for    *)
(* the passes of one step runs out.  A socket that does                    *)
(* not fail becomes writable again and again, which a level-triggered      *)
(* poller reports, and then takes at least one byte again and again.       *)
(***************************************************************************)
Progress(s) == \E n \in 1 .. FrameSize : SendGood(s, n)

Fairness ==
    /\ WF_vars(BeginStep) /\ SF_vars(BeginPoll) /\ WF_vars(EndStep) /\ WF_vars(ApplyRemove)
    /\ \A s \in Sid : /\ WF_vars(Skip(s) \/ SendAgain(s) \/ SendFailure(s) \/ Progress(s))
                      /\ SF_vars(CanWrite(s)) /\ SF_vars(Progress(s))

LiveSpec == Spec /\ Fairness

-----------------------------------------------------------------------------
Elem == [from : Nat, size : Nat \ {0}, cursor : Nat]

(* Types of the state. *)
TypeOK ==
    /\ open \subseteq Sid /\ accounts \subseteq Sid /\ polled \subseteq Sid /\ removable \subseteq Sid
    /\ writable \subseteq accounts
    /\ queue \in [Sid -> Seq(Elem)]
    /\ phase \in {"idle", "send", "poll", "rest"} /\ todo \subseteq Sid
    /\ queued \in [Sid -> Nat] /\ taken \in [Sid -> Nat]
    /\ remain \in Nat /\ torn \in BOOLEAN

(* Every account is that of an open socket and is watched by the poller: _locate_socket
   never fails in the pass, and a socket that could take no more is found writable again. *)
AccountsWatched == accounts \subseteq open /\ accounts \subseteq polled /\ polled \subseteq open

(* The bytes of a socket's queue are those that were enqueued and not yet taken, in
   order: the front continues what was taken, every message the one before it, and the
   last ends with the last byte enqueued. *)
Contiguous(q, first, last) ==
    /\ q = <<>> => first = last + 1
    /\ q # <<>> => /\ q[1].from + q[1].cursor = first
                   /\ q[Len(q)].from + q[Len(q)].size = last + 1
    /\ \A i \in 1 .. Len(q) : q[i].cursor < q[i].size /\ (i > 1 => q[i].cursor = 0)
    /\ \A i \in 1 .. Len(q) - 1 : q[i + 1].from = q[i].from + q[i].size

QueuesIntact == \A s \in open : Contiguous(queue[s], taken[s] + 1, queued[s])

(* What a socket takes is what was enqueued on it, in order, without gap or repetition,
   however the frames were cut and however much of a frame each send() took. *)
SentInOrder == ~torn

(* The bytes enqueued on the accounts and not yet taken, each with its socket. *)
Outstanding == UNION {{s} \X (taken[s] + 1 .. queued[s]) : s \in accounts}

(* _remain_bytes never falls below the bytes still to be sent, so it does not wrap: removal
   of an account leaves its bytes in the count, sending takes off exactly what was taken. *)
RemainCovers == Cardinality(Outstanding) <= remain

(* What is queued is sent, or its socket is removed. *)
Drained == \A s \in Sid : queue[s] # <<>> ~> queue[s] = <<>>
=============================================================================
