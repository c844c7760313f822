---------------------------- MODULE MeshChannels ----------------------------
(***************************************************************************)
(* What a meshnet node does to its channels: the verdict of                *)
(* exclusive_handshake on a handshake packet, the completion callback of   *)
(* node.hpp, and close_channel().  Pure operators on the node's two maps,  *)
(* rd = _readers (socket -> node, NoNode if absent) and wr = _writers      *)
(* (node -> socket, NoSid if absent); MeshNode applies them to the sockets *)
(* of one node, Meshnet to the connections of several.                     *)
(***************************************************************************)
EXTENDS Integers

CONSTANTS NoSid, NoNode

\* Fault: the responder compares the identifiers the wrong way round.
VerdictSwapped(self, n, isResponse, isBehindNat) ==
    IF isBehindNat THEN "use"
    ELSE IF isResponse THEN (IF self < n THEN "use" ELSE "unusable")
    ELSE IF self < n THEN "use" ELSE "wait"

\* Fault: no connection is chosen, every one is used.
VerdictAlways(self, n, isResponse, isBehindNat) == "use"

(* exclusive_handshake::handshake_ready at node self, for a packet of node n: of the
   connections a pair of nodes may have, the one dialled by the smaller identifier. *)
Verdict(self, n, isResponse, isBehindNat) ==
    IF isBehindNat THEN "use"
    ELSE IF isResponse THEN (IF self < n THEN "use" ELSE "unusable")
    ELSE IF self > n THEN "use" ELSE "wait"

(***************************************************************************)
(* on_completed(reader) and then on_completed(writer): the two entries are *)
(* set, whatever they were, and on_node_connected is called by each of the *)
(* two that finds the other's entry, the writer's always.                  *)
(***************************************************************************)
Completed(rd, wr, s, n) ==
    [readers |-> [rd EXCEPT ![s] = n],
     writers |-> [wr EXCEPT ![n] = s],
     told    |-> IF wr[n] # NoSid THEN 2 ELSE 1]

ReadersOf(rd, n) == {s \in DOMAIN rd : rd[s] = n}
WritersOn(wr, s) == {n \in DOMAIN wr : wr[n] = s}

Plan(ss, r, w) == [sids |-> ss, dropReaders |-> r, dropWriters |-> w]

\* Fault: the other socket of a channel is closed and its writer not erased.
ClosePlansKeepPartner(rd, wr, s) ==
    LET r == rd[s]
        w == WritersOn(wr, s)
    IN  IF r # NoNode /\ w # {} THEN {Plan({s}, {s}, {n}) : n \in w}
        ELSE IF r # NoNode /\ wr[r] # NoSid THEN {Plan({s, wr[r]}, {s}, {})}
        ELSE IF r # NoNode THEN {Plan({s}, {s}, {})}
        ELSE {Plan({s}, {}, w)}

(***************************************************************************)
(* What closing socket s does to the channels: the sockets closed, and the *)
(* entries of the maps erased.  A set, because find_reader and find_writer *)
(* return the first match of an unordered map.  The cases are those of     *)
(* close_channel(): no entry; reader and writer on s; a writer only, whose *)
(* node's reader, if any, is another socket; a reader only, whose node's   *)
(* writer, if any, is another socket.                                      *)
(***************************************************************************)
ClosePlans(rd, wr, s) ==
    LET r == rd[s]
        w == WritersOn(wr, s)
    IN  IF r = NoNode /\ w = {} THEN {Plan({s}, {}, {})}
        ELSE IF r # NoNode /\ w # {} THEN {Plan({s}, {s}, {n}) : n \in w}
        ELSE IF w # {} THEN
            UNION {IF ReadersOf(rd, n) = {} THEN {Plan({s}, {}, {n})}
                   ELSE {Plan({s, x}, {x}, {n}) : x \in ReadersOf(rd, n)} : n \in w}
        ELSE IF wr[r] # NoSid THEN {Plan({s, wr[r]}, {s}, {r})}
        ELSE {Plan({s}, {s}, {})}

(* close_channel()'s PFS__ASSERT: one socket serves one node. *)
SameNode(rd, wr, s) == rd[s] # NoNode => \A n \in WritersOn(wr, s) : n = rd[s]

ReadersAfter(rd, p) == [x \in DOMAIN rd |-> IF x \in p.dropReaders THEN NoNode ELSE rd[x]]
WritersAfter(wr, p) == [n \in DOMAIN wr |-> IF n \in p.dropWriters THEN NoSid ELSE wr[n]]

(* on_node_connected, called k times, and on_node_disconnected, as the application
   hears them: "twice" and "unheralded" are the calls that do not alternate. *)
Told(a, k) == IF a \in {"down", "unheralded"} /\ k = 1 THEN "up" ELSE "twice"
Lost(a) == IF a \in {"up", "twice"} THEN "down" ELSE "unheralded"

\* Fault: the end of a channel of two sockets is not announced.
DisconnectedOneSocket(p) == IF p.dropReaders # {} /\ p.sids = p.dropReaders THEN p.dropWriters ELSE {}

(* A channel is announced closed when both its entries are erased. *)
Disconnected(p) == IF p.dropReaders # {} THEN p.dropWriters ELSE {}

AnnouncedAfter(ann, p) ==
    [n \in DOMAIN ann |-> IF n \in Disconnected(p) THEN Lost(ann[n]) ELSE ann[n]]
=============================================================================
