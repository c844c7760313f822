--------------------------- MODULE ReliableDelivery ---------------------------
(***************************************************************************)
(* Two hosts running the loop of the reliable delivery demo: a discovery   *)
(* engine that dials and expires the other host, a delivery engine that    *)
(* keeps one writer and the accepted readers, the reliable engine that     *)
(* numbers, acknowledges and repeats envelopes, and the persistent storage *)
(* under it.  Each direction is a connection of its own; a channel is      *)
(* established when the writer is connected and a reader has said hello.   *)
(*                                                                         *)
(* Hosts crash and restart with nothing but their storage; connections     *)
(* break and lose what they carry.  An envelope is its number: the payload *)
(* stored under a number never changes.  The queue of a writer account,    *)
(* its raw buffer and the bytes under way are one sequence, of which any   *)
(* suffix is lost when the writer closes.                                  *)
(***************************************************************************)
EXTENDS Integers, Sequences, FiniteSets

CONSTANTS Hosts,          \* the two hosts
          Senders,        \* the hosts whose application enqueues envelopes
          MaxEnvelopes,   \* envelopes enqueued by each sender
          MaxDials,       \* connections each host opens
          MaxFaults       \* crashes, breaks, silences and unreachable dials

ASSUME DeliveryAssumption ==
    /\ IsFiniteSet(Hosts) /\ Cardinality(Hosts) = 2
    /\ Senders \subseteq Hosts
    /\ MaxEnvelopes \in Nat /\ MaxDials \in Nat /\ MaxFaults \in Nat

VARIABLES
    host,       \* host -> the memory of its process
    store,      \* host -> its databases, which survive a crash
    conn,       \* connection -> its two ends and what it carries
    dials,      \* host -> connections it has opened
    delivered,  \* host -> the envelopes given to its application, in order
    repeats,    \* host -> crashes between a delivery and its record
    faults      \* faults so far

vars == <<host, store, conn, dials, delivered, repeats, faults>>

Peer(h) == CHOOSE p \in Hosts : p # h

\* A connection is the host that dialled it and a count.
Conns == Hosts \X (1 .. MaxDials)
NoConn == <<>>
NoEid == -1

Message(t, e) == [type |-> t, eid |-> e]

\* The memory of a process that has just started.
Fresh ==
    [disc |-> FALSE,        \* the other host is among _discovered_peers
     deferred |-> FALSE,    \* ... and among _deferred_expired_peers
     expired |-> FALSE,     \* ... and among _expired_peers
     ignored |-> FALSE,     \* its writer was not created: the dial failed at once
     writer |-> NoConn,     \* the socket of the writer account
     dropR |-> {},          \* readers removed at the end of the next poll
     dropW |-> {},          \* writers removed at the end of the next poll
     eid |-> NoEid]         \* the entry of _peers in the storage object

\* Databases in which the row of `eids' for the other host exists: nothing
\* in the code inserts the first one, and fetch_recent_eid() throws without.
Blank == [row |-> 0, unacked |-> {}, acked |-> {}, recent |-> 0]

Init ==
    /\ host = [h \in Hosts |-> Fresh]
    /\ store = [h \in Hosts |-> Blank]
    /\ conn = <<>>
    /\ dials = [h \in Hosts |-> 0]
    /\ delivered = [h \in Hosts |-> <<>>]
    /\ repeats = [h \in Hosts |-> 0]
    /\ faults = 0

----------------------------------------------------------------------------
(* Sockets: the ends close one by one, a connection is gone with the last. *)
(* w: the writer is open; r: "anon" until the reader account is completed  *)
(* by a hello ("peer"), then "closed"; up: the writer was told that it is  *)
(* connected; once: connect() returned connected and nobody tells it.      *)

Dialled(cs, c, once) ==
    [d \in DOMAIN cs \union {c} |->
        IF d = c THEN [w |-> TRUE, r |-> "anon", up |-> FALSE, once |-> once,
                       cut |-> FALSE, pipe |-> <<>>]
        ELSE cs[d]]

\* How much of its packets a closing writer may have sent.
Sent(cs, c) == IF c \in DOMAIN cs /\ cs[c].up THEN 0 .. Len(cs[c].pipe) ELSE {0}

\* The writer closes after sending n packets.
CloseW(cs, c, n) ==
    [d \in {d \in DOMAIN cs : d # c \/ cs[d].r # "closed"} |->
        IF d = c THEN [cs[d] EXCEPT !.w = FALSE, !.pipe = SubSeq(@, 1, n)] ELSE cs[d]]

CloseR(cs, S) ==
    [d \in {d \in DOMAIN cs : d \notin S \/ cs[d].w} |->
        IF d \in S THEN [cs[d] EXCEPT !.r = "closed", !.pipe = <<>>] ELSE cs[d]]

Down(cs, c) == cs[c].cut \/ ~cs[c].w \/ cs[c].r = "closed"

\* Enqueue in the writer account; there may be none, what is written to a
\* broken connection is lost, and what is queued in an account that is never
\* connected is lost with it.
Post(cs, c, msgs) ==
    IF c = NoConn \/ (c # NoConn /\ (Down(cs, c) \/ cs[c].once)) THEN cs
    ELSE [cs EXCEPT ![c].pipe = @ \o msgs]

Readers(h) == {c \in DOMAIN conn : c[1] = Peer(h) /\ conn[c].r # "closed"}

Named(h) == {c \in Readers(h) : conn[c].r = "peer"}

----------------------------------------------------------------------------
(* The storage *)

Ascending(S) == CHOOSE s \in [1 .. Cardinality(S) -> S] :
                    \A i, j \in DOMAIN s : i < j => s[i] < s[j]

maintain(s) == [s EXCEPT !.acked = {}]

\* Fault: only the newest unacknowledged envelope is sent again.
AgainNewest(s) == Ascending({e \in s.unacked : \A d \in s.unacked : d <= e})

Again(s) == Ascending(s.unacked)

ack(s, e) == IF e \in s.unacked
             THEN [s EXCEPT !.unacked = @ \ {e}, !.acked = @ \union {e}]
             ELSE s

Payloads(es) == [i \in DOMAIN es |-> Message("payload", es[i])]

\* Channel established: forget what is acknowledged, read the number back
\* and repeat the rest.
process_channel_established(h, cs) ==
    /\ store' = [store EXCEPT ![h] = maintain(@)]
    /\ host' = [host EXCEPT ![h].eid = store[h].row]
    /\ conn' = Post(cs, host[h].writer, Payloads(Again(store[h])))

\* The channel is complete when the writer is connected and some reader is
\* named; cs are the connections the check finds.
check_complete_channel(h, cs) ==
    LET c == host[h].writer
        named == {d \in DOMAIN cs : d[1] = Peer(h) /\ cs[d].r = "peer"}
    IN IF c # NoConn /\ (c # NoConn => cs[c].up) /\ named # {}
       THEN process_channel_established(h, cs)
       ELSE conn' = cs /\ UNCHANGED <<host, store>>

----------------------------------------------------------------------------
(* The application *)

Number(h) == IF host[h].eid # NoEid THEN host[h].eid ELSE store[h].row

enqueue(h) ==
    LET e == Number(h) + 1 IN
    /\ h \in Senders /\ e <= MaxEnvelopes
    /\ store' = [store EXCEPT ![h].row = e, ![h].unacked = @ \union {e}]
    /\ host' = [host EXCEPT ![h].eid = e]
    /\ conn' = Post(conn, host[h].writer, <<Message("payload", e)>>)
    /\ UNCHANGED <<dials, delivered, repeats, faults>>

----------------------------------------------------------------------------
(* The discovery engine.  The delivery step that follows a discovery step  *)
(* releases what expired before the next one begins.                       *)

\* A first hello: the writer account is made anew; the socket of an account
\* that is still waiting for its removal is closed by the assignment.  A dial
\* that is connected at once joins the readers of the client poller and not
\* the connecting sockets: connected() is never called for it, no hello goes
\* out, and what is enqueued waits in the account until the socket closes.
Discover(h) ==
    /\ ~host[h].expired /\ ~host[h].disc
    /\ dials[h] < MaxDials /\ dials' = [dials EXCEPT ![h] = @ + 1]
    /\ \E n \in Sent(conn, host[h].writer), once \in BOOLEAN :
         LET c == <<h, dials'[h]>> IN
         /\ conn' = Dialled(CloseW(conn, host[h].writer, n), c, once)
         /\ host' = [host EXCEPT ![h].disc = TRUE, ![h].ignored = FALSE, ![h].writer = c]
    /\ UNCHANGED <<store, delivered, repeats, faults>>

\* The network cannot be reached: the poller refuses the socket and the
\* writer is ignored, but the peer counts as discovered.
DiscoverUnreachable(h) ==
    /\ ~host[h].expired /\ ~host[h].disc
    /\ faults < MaxFaults /\ faults' = faults + 1
    /\ host' = [host EXCEPT ![h].disc = TRUE, ![h].ignored = TRUE]
    /\ UNCHANGED <<store, conn, dials, delivered, repeats>>

\* Fault: an expiry asked for by the delivery engine is forgotten.
ExpiryForgotten(m, late) == m.disc /\ late

\* The peer fell silent, or the delivery engine asked for its expiry.
Expiry(m, late) == m.disc /\ (late \/ m.deferred)

check_expiration(h) ==
    /\ ~host[h].expired
    /\ \E late \in BOOLEAN :
         /\ late => faults < MaxFaults
         /\ late \/ host[h].deferred
         /\ faults' = IF late THEN faults + 1 ELSE faults
         /\ host' = [host EXCEPT
                ![h] = [host[h] EXCEPT !.disc = host[h].disc /\ ~Expiry(host[h], late),
                                       !.expired = Expiry(host[h], late),
                                       !.deferred = FALSE]]
    /\ UNCHANGED <<store, conn, dials, delivered, repeats>>

----------------------------------------------------------------------------
(* The pollers of the delivery engine *)

process_socket_connected(h) ==
    LET c == host[h].writer IN
    /\ c # NoConn /\ ~conn[c].up /\ ~conn[c].once /\ ~Down(conn, c)
    /\ check_complete_channel(h,
         Post([conn EXCEPT ![c].up = TRUE], c, <<Message("hello", 0)>>))
    /\ UNCHANGED <<dials, delivered, repeats, faults>>

\* The connection of the writer is refused, fails or is closed by the other
\* side: the expiry of the peer is deferred and the account is erased.  (A
\* send that fails defers the expiry too; the poll of the same step follows.)
WriterFails(h) ==
    /\ host[h].writer # NoConn /\ Down(conn, host[h].writer)
    /\ host' = [host EXCEPT ![h].writer = NoConn, ![h].deferred = TRUE,
                            ![h].dropW = @ \ {host[h].writer}]
    /\ conn' = CloseW(conn, host[h].writer, Len(conn[host[h].writer].pipe))
    /\ UNCHANGED <<store, dials, delivered, repeats, faults>>

\* A reader is closed by the other side once all it sent has been read.
ReaderFails(h, c) ==
    /\ c \in Readers(h) /\ conn[c].pipe = <<>> /\ Down(conn, c)
    /\ host' = [host EXCEPT ![h].deferred = @ \/ c \in Named(h), ![h].dropR = @ \ {c}]
    /\ conn' = CloseR(conn, {c})
    /\ UNCHANGED <<store, dials, delivered, repeats, faults>>

----------------------------------------------------------------------------
(* Receiving *)

\* A message of a connected writer is next.
Ready(h, c) == c \in Readers(h) /\ conn[c].up /\ conn[c].pipe # <<>>

Taken(c) == [conn EXCEPT ![c].pipe = Tail(@)]

\* Fault: a gap is answered with the number that arrived.
VerdictOnArrival(recent, e) ==
    IF e = recent + 1 THEN Message("ack", e) ELSE Message("nack", e)

\* check_eid_sequence() and the envelope built for its verdict: the request
\* for a repetition goes out as a negative acknowledgement of the recent one.
Verdict(recent, e) ==
    CASE e = recent + 1 -> Message("ack", e)
      [] e <= recent -> Message("nack", e)
      [] OTHER -> Message("nack", recent)

\* Fault: what comes after a gap is taken as the next envelope.
DeliverableAfterGap(h, e) == host[h].writer # NoConn /\ e > store[h].recent

\* An envelope is delivered when its acknowledgement could be enqueued.
Deliverable(h, e) ==
    host[h].writer # NoConn /\ Verdict(store[h].recent, e).type = "ack"

ReadPayload(h, c) ==
    LET e == Head(conn[c].pipe).eid IN
    /\ Ready(h, c) /\ Head(conn[c].pipe).type = "payload"
    /\ conn' = Post(Taken(c), host[h].writer, <<Verdict(store[h].recent, e)>>)
    /\ IF Deliverable(h, e)
       THEN /\ delivered' = [delivered EXCEPT ![h] = Append(@, e)]
            /\ store' = [store EXCEPT ![h].recent = e]
       ELSE UNCHANGED <<delivered, store>>
    /\ UNCHANGED <<host, dials, repeats, faults>>

\* Acknowledgements of either kind settle an envelope.
ReadAck(h, c) ==
    /\ Ready(h, c) /\ Head(conn[c].pipe).type \in {"ack", "nack"}
    /\ conn' = Taken(c)
    /\ store' = [store EXCEPT ![h] = ack(store[h], Head(conn[c].pipe).eid)]
    /\ UNCHANGED <<host, dials, delivered, repeats, faults>>

\* Hello names the reader and may complete the channel.
ReadHello(h, c) ==
    /\ Ready(h, c) /\ Head(conn[c].pipe).type = "hello"
    /\ check_complete_channel(h, [Taken(c) EXCEPT ![c].r = "peer"])
    /\ UNCHANGED <<dials, delivered, repeats, faults>>

----------------------------------------------------------------------------
(* The end of the delivery step *)

\* The pollers drop what the previous step released; then an expired peer is
\* released: a reader that names it and the writer leave at the next poll.
EndStep(h) ==
    LET m == host[h]
        w == IF m.writer \in m.dropW THEN NoConn ELSE m.writer
        named == Named(h) \ m.dropR
    IN
    /\ m.expired \/ m.dropR # {} \/ m.dropW # {}
    /\ \E n \in Sent(conn, m.writer) :
         conn' = CloseR(IF w = m.writer THEN conn ELSE CloseW(conn, m.writer, n), m.dropR)
    /\ \E R \in IF m.expired /\ named # {} THEN {{c} : c \in named} ELSE {{}} :
         host' = [host EXCEPT
            ![h] = [m EXCEPT !.expired = FALSE, !.writer = w, !.dropR = R,
                             !.dropW = IF m.expired THEN {w} \ {NoConn} ELSE {},
                             !.eid = IF m.expired THEN NoEid ELSE m.eid]]
    /\ store' = [store EXCEPT ![h] = IF m.expired THEN maintain(@) ELSE @]
    /\ UNCHANGED <<dials, delivered, repeats, faults>>

----------------------------------------------------------------------------
(* Faults *)

\* The process ends, its sockets close, and it starts again.
Restart(h) ==
    /\ faults < MaxFaults /\ faults' = faults + 1
    /\ host' = [host EXCEPT ![h] = Fresh]
    /\ \E n \in Sent(conn, host[h].writer) :
         conn' = CloseR(CloseW(conn, host[h].writer, n), Readers(h))

Crash(h) ==
    /\ Restart(h)
    /\ UNCHANGED <<store, dials, delivered, repeats>>

\* The crash comes after the application was given an envelope and before
\* its number is recorded.
CrashInDelivery(h, c) ==
    LET e == Head(conn[c].pipe).eid IN
    /\ Ready(h, c) /\ Head(conn[c].pipe).type = "payload" /\ Deliverable(h, e)
    /\ delivered' = [delivered EXCEPT ![h] = Append(@, e)]
    /\ repeats' = [repeats EXCEPT ![h] = @ + 1]
    /\ Restart(h)
    /\ UNCHANGED <<store, dials>>

\* The connection breaks and loses a suffix of what it carries.
Break(c) ==
    /\ faults < MaxFaults /\ faults' = faults + 1
    /\ c \in DOMAIN conn /\ ~Down(conn, c)
    /\ \E n \in Sent(conn, c) :
         conn' = [conn EXCEPT ![c].cut = TRUE, ![c].pipe = SubSeq(@, 1, n)]
    /\ UNCHANGED <<host, store, dials, delivered, repeats>>

----------------------------------------------------------------------------

Next ==
    \/ \E h \in Hosts :
         \/ enqueue(h) \/ Discover(h) \/ DiscoverUnreachable(h) \/ check_expiration(h)
         \/ process_socket_connected(h) \/ WriterFails(h)
         \/ EndStep(h) \/ Crash(h)
         \/ \E c \in Conns : \/ ReaderFails(h, c) \/ ReadPayload(h, c) \/ ReadAck(h, c)
                             \/ ReadHello(h, c) \/ CrashInDelivery(h, c)
    \/ \E c \in Conns : Break(c)

\* What the loop of a host does by itself; expiry by silence is not among it.
Step(h) ==
    \/ Discover(h) \/ EndStep(h) \/ (host[h].deferred /\ check_expiration(h))
    \/ process_socket_connected(h) \/ WriterFails(h)
    \/ \E c \in Conns : ReaderFails(h, c) \/ ReadPayload(h, c) \/ ReadAck(h, c) \/ ReadHello(h, c)

\* Each loop goes on: hellos keep coming, queues are sent and a poll reports the
\* sockets that are ready.  Every step but a fault uses up a dial, a packet, a
\* socket or a flag, so a loop that goes on serves all of them.
Fairness == WF_vars(\E h \in Hosts : Step(h))

Spec == Init /\ [][Next]_vars /\ Fairness

----------------------------------------------------------------------------
(* Properties *)

\* The application is given the envelopes in the order they were enqueued,
\* none skipped, through every break, crash and repetition; one is given
\* again only after a crash between its delivery and its record
\* (reliable_delivery_engine.hpp, check_eid_sequence() and the payload case).
DeliveredInOrder ==
    \A h \in Hosts :
        LET d == delivered[h]
            again == {i \in 2 .. Len(d) : d[i] = d[i - 1]}
        IN /\ \A i \in DOMAIN d : d[i] = IF i = 1 THEN 1
                                         ELSE IF i \in again THEN d[i - 1] ELSE d[i - 1] + 1
           /\ Cardinality(again) <= repeats[h]

\* An envelope is marked acknowledged, or deleted by maintain(), only when
\* the other application has it: what a sender forgets is never lost, though
\* a gap is answered with a negative acknowledgement that settles as well.
ForgottenWereDelivered ==
    \A h \in Hosts : \A e \in 1 .. store[h].row :
        e \in store[h].unacked \/ \E i \in DOMAIN delivered[Peer(h)] : delivered[Peer(h)][i] = e

\* A discovered peer has a writer account, or its expiry is on the way: a
\* host never waits for a peer it will not dial again, because discovery
\* dials only peers it does not know (delivery_engine.hpp, the disconnected,
\* refused and removed callbacks).  The exception is a dial that was
\* unreachable: that writer is ignored and nobody expires the peer.
NeverStranded ==
    \A h \in Hosts : host[h].disc /\ ~host[h].ignored =>
        \/ host[h].writer # NoConn /\ host[h].writer \notin host[h].dropW
        \/ host[h].deferred

\* Both hosts know each other and both directions stand, neither on a dial
\* that was connected at once.
Standing ==
    \A h \in Hosts :
        /\ host[h].disc /\ ~host[h].deferred
        /\ host[h].writer # NoConn
        /\ ~Down(conn, host[h].writer) /\ ~conn[host[h].writer].once

\* If the two connections stand from some point on, every envelope that was
\* saved is delivered and settled, those that were saved before there was a
\* connection and those whose packets were lost with an earlier one included.
\* A connection that connect() reported as connected does not count: its
\* writer account never learns of it (client_poller.hpp, add()), so nothing
\* is sent on it and nothing expires the peer while it stands.
EventuallySettled ==
    <>[]Standing => <>[](\A h \in Hosts : store[h].unacked = {})

=============================================================================
