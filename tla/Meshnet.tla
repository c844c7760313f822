------------------------------- MODULE Meshnet -------------------------------
(***************************************************************************)
(* Several meshnet nodes over TCP: each dials the hosts it was told of,    *)
(* exchanges handshakes on every connection, keeps the ones                *)
(* exclusive_handshake chooses and dials again what it loses.              *)
(*                                                                         *)
(* MeshNode looks inside the step() of one node; here a step of a node is  *)
(* one event of one connection, and both ends of it are modelled.  A       *)
(* connection is a slot of Conn with two FIFO streams, each of which names *)
(* the packets on their way to one end.  Heartbeats are left out: the loss *)
(* of a connection, however noticed, is the action Break.                  *)
(***************************************************************************)
EXTENDS MeshChannels, Sequences, FiniteSets

CONSTANTS Node,         \* node identifiers, naturals
          Dials,        \* pairs <<a, b>>: a was given b's address, connect_host()
          BehindNat,    \* nodes that say they are behind NAT
          Conn,         \* connection slots
          Repeats,      \* how many times one step() may schedule a lost connection again
          MaxBreaks,    \* bound on the connections the network breaks
          MaxPending,   \* bound on the scheduled dials of one pair
          MaxData       \* bound on the messages on their way

ASSUME MeshnetAssumption ==
    /\ Node \subseteq Nat /\ Dials \subseteq Node \X Node /\ BehindNat \subseteq Node
    /\ NoSid \notin Conn /\ NoNode \notin Node
    /\ Repeats \subseteq Nat \ {0}
    /\ MaxBreaks \in Nat /\ MaxPending \in Nat \ {0} /\ MaxData \in Nat

VARIABLES
    ends,      \* connection -> [client, server]: the nodes at its ends, NoNode if the slot is free
    state,     \* connection, side -> "none", "backlog", "open", "closed"
    broken,    \* connections the network has broken
    inbox,     \* connection, side -> packets on their way to that end
    waiting,   \* _handshake_processor._cache: connections whose client awaits a response
    pending,   \* _deferred_connections: pair -> number of scheduled dials
    readers,   \* node -> _readers
    writers,   \* node -> _writers
    breaks,    \* connections broken so far
    forsaken,  \* dials whose connection was closed and will not be made again
    doubled,   \* dials of which one loss was scheduled more than once
    hasty      \* dials made again before the peer had read what was sent on the lost connection

netVars  == <<ends, state, broken, inbox, breaks>>
nodeVars == <<waiting, pending, readers, writers, forsaken, doubled, hasty>>
vars == <<netVars, nodeVars>>

Side == {"client", "server"}
Other(side) == IF side = "client" THEN "server" ELSE "client"

At(c, side) == ends[c][side]
Peer(c, side) == ends[c][Other(side)]
Open(c, side) == state[c][side] = "open"

Init ==
    /\ ends = [c \in Conn |-> [s \in Side |-> NoNode]]
    /\ state = [c \in Conn |-> [s \in Side |-> "none"]]
    /\ broken = {} /\ breaks = 0 /\ forsaken = {} /\ doubled = {} /\ hasty = {}
    /\ inbox = [c \in Conn |-> [s \in Side |-> <<>>]]
    /\ waiting = {}
    /\ pending = [d \in Dials |-> 1]
    /\ readers = [a \in Node |-> [c \in Conn |-> NoNode]]
    /\ writers = [a \in Node |-> [b \in Node |-> NoSid]]

-----------------------------------------------------------------------------
(* The network *)

(* What is written to an end arrives while it is open and the network holds. *)
Reaches(c, side) == c \notin broken /\ state[c][side] \in {"backlog", "open"}

Put(c, side, pkt) ==
    inbox' = IF Reaches(c, side) THEN [inbox EXCEPT ![c][side] = Append(@, pkt)] ELSE inbox

(* Node a closes its ends of the connections cs; a slot with no open end is free. *)
CloseEnds(a, cs) ==
    LET closes(c) == {s \in Side : c \in cs /\ ends[c][s] = a}
        freed(c)  == \A s \in Side : s \in closes(c) \/ state[c][s] \in {"none", "closed"}
    IN  /\ state' = [c \in Conn |-> [s \in Side |->
                        IF freed(c) THEN "none" ELSE IF s \in closes(c) THEN "closed" ELSE state[c][s]]]
        /\ ends' = [c \in Conn |-> [s \in Side |-> IF freed(c) THEN NoNode ELSE ends[c][s]]]
        /\ inbox' = [c \in Conn |-> [s \in Side |->
                        IF freed(c) \/ s \in closes(c) THEN <<>> ELSE inbox[c][s]]]
        /\ broken' = {c \in broken : ~freed(c)}
        /\ UNCHANGED breaks

(* The network breaks a connection; its ends notice later. *)
Break(c) ==
    /\ breaks < MaxBreaks /\ c \notin broken /\ \E s \in Side : state[c][s] # "none"
    /\ broken' = broken \cup {c} /\ breaks' = breaks + 1
    /\ UNCHANGED <<ends, state, inbox, nodeVars>>

-----------------------------------------------------------------------------
(* The nodes *)

(* b has not read all that a sent it on a connection that a has given up. *)
Overtaken(a, b) ==
    \E c \in Conn : /\ At(c, "client") = a /\ At(c, "server") = b /\ state[c]["client"] = "closed"
                   /\ inbox[c]["server"] # <<>>

(* connecting_pool dials, the connection is made, and the handshake starts.  A dial that
   is refused is scheduled again, which changes nothing here.  The timeout after which it is
   dialled waits for nothing that the peer has still to read. *)
Dial(a, b, c) ==
    /\ pending[<<a, b>>] > 0 /\ \A s \in Side : state[c][s] = "none"
    /\ pending' = [pending EXCEPT ![<<a, b>>] = @ - 1]
    /\ ends' = [ends EXCEPT ![c] = [s \in Side |-> IF s = "client" THEN a ELSE b]]
    /\ state' = [state EXCEPT ![c] = [s \in Side |-> IF s = "client" THEN "open" ELSE "backlog"]]
    /\ inbox' = [inbox EXCEPT ![c]["server"] = <<"request">>]
    /\ waiting' = waiting \cup {c}
    /\ hasty' = IF Overtaken(a, b) THEN hasty \cup {<<a, b>>} ELSE hasty
    /\ UNCHANGED <<broken, breaks, readers, writers, forsaken, doubled>>

Accept(c) ==
    /\ state[c]["server"] = "backlog"
    /\ state' = [state EXCEPT ![c]["server"] = "open"]
    /\ UNCHANGED <<ends, broken, inbox, breaks, nodeVars>>

(* close_socket(c) at one end: close_channel() may close another connection of the pair. *)
CloseSocket(c, side) ==
    LET a == At(c, side)
    IN  \E p \in ClosePlans(readers[a], writers[a], c) :
            /\ CloseEnds(a, p.sids)
            /\ waiting' = {x \in waiting : ~(x \in p.sids /\ At(x, "client") = a)}
            /\ readers' = [readers EXCEPT ![a] = ReadersAfter(@, p)]
            /\ writers' = [writers EXCEPT ![a] = WritersAfter(@, p)]

\* Fault: a lost connection is not dialled again.
ScheduleReconnectionNever(c, side) == UNCHANGED <<pending, doubled>>

(* schedule_reconnection(c): the client's end dials again.  The end of file that the reader
   meets and a failed write of the same step() both call it, so that one loss may schedule
   several dials. *)
ScheduleReconnection(c, side) ==
    LET d == <<At(c, side), Peer(c, side)>>
    IN  \/ side = "server" /\ UNCHANGED <<pending, doubled>>
        \/ /\ side = "client"
           /\ \E k \in Repeats :
                 /\ pending[d] + k <= MaxPending
                 /\ pending' = [pending EXCEPT ![d] = @ + k]
                 /\ doubled' = IF k > 1 THEN doubled \cup {d} ELSE doubled

(* The loss of a connection is noticed: end of file, a failed write, or silence.  It may
   be noticed before the packets that have already arrived are read. *)
Lose(c, side) ==
    /\ Open(c, side) /\ (c \in broken \/ state[c][Other(side)] = "closed")
    /\ ScheduleReconnection(c, side)
    /\ CloseSocket(c, side)
    /\ UNCHANGED <<forsaken, hasty>>

(* reader_pool's on_failure, and the expiry of a handshake: closed and not dialled again. *)
LoseUnannounced(c, side) ==
    /\ Open(c, side)
    /\ c \in broken \/ (side = "client" /\ c \in waiting)
    /\ CloseSocket(c, side)
    /\ forsaken' = IF side = "client" THEN forsaken \cup {<<At(c, side), Peer(c, side)>>} ELSE forsaken
    /\ UNCHANGED <<pending, doubled, hasty>>

(* The verdict of exclusive_handshake at one end on the other end's packet. *)
VerdictAt(c, side) == Verdict(At(c, side), Peer(c, side), side = "client", Peer(c, side) \in BehindNat)

UseConnection(c, side) ==
    LET a   == At(c, side)
        new == Completed(readers[a], writers[a], c, Peer(c, side))
    IN  /\ readers' = [readers EXCEPT ![a] = new.readers]
        /\ writers' = [writers EXCEPT ![a] = new.writers]

Receives(c, side, pkt) == Open(c, side) /\ inbox[c][side] # <<>> /\ Head(inbox[c][side]) = pkt

(* A request: the response is sent, and then the verdict falls. *)
ReadRequest(c) ==
    /\ Receives(c, "server", "request")
    /\ inbox' = [inbox EXCEPT ![c] =
                    [s \in Side |-> IF s = "server" THEN Tail(@[s])
                                    ELSE IF Reaches(c, s) THEN Append(@[s], "response") ELSE @[s]]]
    /\ \/ VerdictAt(c, "server") = "use" /\ UseConnection(c, "server")
       \/ VerdictAt(c, "server") = "wait" /\ UNCHANGED <<readers, writers>>
    /\ UNCHANGED <<ends, state, broken, breaks, waiting, pending, forsaken, doubled, hasty>>

(* A response, to the client that waits for it. *)
ReadResponse(c) ==
    /\ Receives(c, "client", "response") /\ c \in waiting
    /\ \/ /\ VerdictAt(c, "client") = "use"
          /\ UseConnection(c, "client")
          /\ inbox' = [inbox EXCEPT ![c]["client"] = Tail(@)]
          /\ waiting' = waiting \ {c}
          /\ UNCHANGED <<ends, state, broken, breaks>>
       \/ VerdictAt(c, "client") = "unusable" /\ CloseSocket(c, "client")
    /\ UNCHANGED <<pending, forsaken, doubled, hasty>>

(* process_message_received: to the application if _readers knows the socket. *)
ReadData(c, side) ==
    /\ Receives(c, side, "data")
    /\ inbox' = [inbox EXCEPT ![c][side] = Tail(@)]
    /\ UNCHANGED <<ends, state, broken, breaks, nodeVars>>

(* node::send: the message goes to the socket that _writers names. *)
SideOf(a, c) == CHOOSE s \in Side : ends[c][s] = a

OnTheirWay ==
    UNION {{<<c, s, i>> : i \in {j \in DOMAIN inbox[c][s] : inbox[c][s][j] = "data"}} :
              c \in Conn, s \in Side}

Send(a, b) ==
    /\ writers[a][b] # NoSid /\ Cardinality(OnTheirWay) < MaxData
    /\ LET c    == writers[a][b]
           side == Other(SideOf(a, c))
       IN  Put(c, side, "data")
    /\ UNCHANGED <<ends, state, broken, breaks, nodeVars>>

Loss(c) == \E side \in Side : Lose(c, side) \/ LoseUnannounced(c, side)
Read(c) == ReadRequest(c) \/ ReadResponse(c) \/ \E side \in Side : ReadData(c, side)

Next ==
    \/ \E d \in Dials, c \in Conn : Dial(d[1], d[2], c)
    \/ \E c \in Conn : Accept(c) \/ Loss(c) \/ Read(c) \/ Break(c)
    \/ \E a, b \in Node : Send(a, b)

Spec == Init /\ [][Next]_vars

(***************************************************************************)
(* Every node runs step() for ever: a scheduled dial is made once its time *)
(* has come, a pending connection is accepted, what has arrived is read    *)
(* and a loss is noticed.  It is enough to ask this of the dials together  *)
(* and of the other events together, since each uses up a packet, a dial   *)
(* or an open end.  Nothing makes the network break a connection or the    *)
(* application send.                                                       *)
(***************************************************************************)
Fairness ==
    /\ WF_vars(\E d \in Dials, c \in Conn : Dial(d[1], d[2], c))
    /\ WF_vars(\E c \in Conn : Accept(c) \/ Read(c) \/ \E side \in Side : Lose(c, side))

LiveSpec == Spec /\ Fairness

-----------------------------------------------------------------------------
(* Types of the state. *)
TypeOK ==
    /\ ends \in [Conn -> [Side -> Node \cup {NoNode}]]
    /\ state \in [Conn -> [Side -> {"none", "backlog", "open", "closed"}]]
    /\ broken \subseteq Conn /\ breaks \in 0 .. MaxBreaks
    /\ \A c \in Conn, s \in Side : inbox[c][s] \in Seq({"request", "response", "data"})
    /\ waiting \subseteq {c \in Conn : state[c]["client"] = "open"}
    /\ pending \in [Dials -> 0 .. MaxPending]
    /\ readers \in [Node -> [Conn -> Node \cup {NoNode}]]
    /\ writers \in [Node -> [Node -> Conn \cup {NoSid}]]
    /\ forsaken \subseteq Dials /\ doubled \subseteq Dials /\ hasty \subseteq Dials

(* A message that arrives is never dropped or misattributed: when it is read, _readers
   names the node that sent it, although the two ends chose the connection separately. *)
DataFindsReader ==
    /\ TypeOK
    /\ \A c \in Conn, side \in Side :
          Receives(c, side, "data") => readers[At(c, side)][c] = Peer(c, side)

(* Nothing is on its way, to be noticed, or scheduled. *)
Quiet ==
    /\ broken = {} /\ \A d \in Dials : pending[d] = 0
    /\ \A c \in Conn, s \in Side : inbox[c][s] = <<>> /\ state[c][s] \in {"none", "open"}

(* When the net is quiet, a node that writes to another on a connection is read there as
   itself, and both nodes of the pair have a channel or neither has.  The second half fails
   in two cases only: one step() scheduled a lost connection twice, or it was dialled again
   before the peer had read the rest of the lost one. *)
Agreement ==
    Quiet => \A a, b \in Node : writers[a][b] # NoSid =>
        /\ readers[b][writers[a][b]] = a
        /\ \/ writers[b][a] # NoSid
           \/ {<<a, b>>, <<b, a>>} \cap (doubled \cup hasty) # {}

(* Both ends of a live connection are beyond the handshake and read it. *)
Uses(c) ==
    /\ c \notin broken /\ c \notin waiting
    /\ \A s \in Side : Open(c, s) /\ readers[At(c, s)][c] = Peer(c, s)

(* exclusive_handshake: "there is need to choose connection. Select master socket by
   comparison of node identifiers".  Of two connections that two nodes dialled to each other
   at most one is used, and two nodes use two live connections at a time only after one
   loss was scheduled twice, both dialled by the same node. *)
OneMaster ==
    \A c1, c2 \in Conn :
        (/\ Uses(c1) /\ Uses(c2) /\ c1 # c2
         /\ {At(c1, s) : s \in Side} = {At(c2, s) : s \in Side})
        => /\ At(c1, "client") = At(c2, "client")
           /\ <<At(c1, "client"), At(c1, "server")>> \in doubled

Channel(a, b) == writers[a][b] # NoSid /\ writers[b][a] # NoSid

(* A node that dials one with a larger identifier gets a channel and keeps it, once the
   network no longer breaks connections.  The exceptions: a read error or an expired handshake
   made it close a connection that the code then does not dial again, and the two cases that
   Agreement names, after which a channel may be lost at one end only, or closed and dialled
   again for ever. *)
EventuallyConnected ==
    \A d \in Dials : d[1] < d[2] =>
        <>[]Channel(d[1], d[2]) \/ <>(d \in forsaken \cup doubled \cup hasty)
=============================================================================
