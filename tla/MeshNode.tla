------------------------------ MODULE MeshNode ------------------------------
(***************************************************************************)
(* One meshnet node (patterns/meshnet/node.hpp with exclusive_handshake,   *)
(* simple_heartbeat and the pools it owns), run by its step() loop against *)
(* peers that follow the protocol over connections that may fail at any    *)
(* moment.                                                                 *)
(*                                                                         *)
(* step() polls listeners, connecting sockets, writers and readers, then   *)
(* checks the timers, then applies the removals that its callbacks only    *)
(* requested; `phase' says where in step() the node is, and every callback *)
(* is an action of its phase.  A poll reports a socket at most once        *)
(* (`served').  The three removal lists (reader, writer and socket pool)   *)
(* are one set here: every path that puts a socket on one of them calls    *)
(* close_socket(), which puts it on all three.  Deadlines are abstracted   *)
(* to expiries that may happen in any step.                                *)
(***************************************************************************)
EXTENDS MeshChannels

CONSTANTS Sid,          \* descriptors the node may use
          Node,         \* identifiers of the nodes it may meet, naturals
          Self,         \* its own identifier
          BehindNat,    \* the nodes that say they are behind NAT
          MaxDeferred,  \* bound on reconnections scheduled at one time
          MaxCalls      \* bound on connect_host() calls

ASSUME MeshNodeAssumption ==
    /\ Self \in Nat /\ Node \subseteq Nat /\ BehindNat \subseteq Node
    /\ NoSid \notin Sid /\ NoNode \notin Node
    /\ MaxDeferred \in Nat /\ MaxCalls \in Nat

VARIABLES
    phase,      \* where step() is
    served,     \* sockets already reported by the poll of this phase
    socks,      \* _socket_pool: how each socket was obtained, "none" if not in the pool
    raccounts,  \* _reader_pool accounts that the reader poller watches
    waccounts,  \* _writer_pool accounts, and the writer poller's sockets
    inputs,     \* _input_processor accounts
    doomed,     \* _removable of the reader, writer and socket pools
    connecting, \* _connecting_pool._connecting_sockets
    cdoomed,    \* _connecting_pool._removable
    deferred,   \* number of _connecting_pool._deferred_connections
    calls,      \* connect_host() calls made by the application
    cache,      \* _handshake_processor._cache: sockets that wait for a response
    beating,    \* _heartbeat_processor._q: sockets that send heartbeats
    limits,     \* _heartbeat_processor._limits: sockets that heard a heartbeat
    readers,    \* _readers: socket -> node, NoNode if absent
    writers,    \* _writers: node -> socket, NoSid if absent
    peer,       \* the node at the other end of a socket
    greeted,    \* sockets on which the peer's handshake packet was read
    announced,  \* what the application was told of each node by the last callbacks
    fault       \* the assertion or undefined behaviour that ended the process

stepVars  == <<phase, served>>
poolVars  == <<socks, raccounts, waccounts, inputs, doomed>>
dialVars  == <<connecting, cdoomed, deferred, calls>>
timerVars == <<cache, beating, limits>>
chanVars  == <<readers, writers, announced>>
peerVars  == <<peer, greeted>>
vars == <<stepVars, poolVars, dialVars, timerVars, chanVars, peerVars, fault>>

Phases == {"listener", "connecting", "send", "wpoll", "reader", "handshake", "heartbeat"}

After(p) == CASE p = "listener"   -> "connecting"
              [] p = "connecting" -> "send"
              [] p = "send"       -> "wpoll"
              [] p = "wpoll"      -> "reader"
              [] p = "reader"     -> "handshake"
              [] p = "handshake"  -> "heartbeat"
              [] OTHER            -> "listener"

Init ==
    /\ phase = "listener" /\ served = {}
    /\ socks = [s \in Sid |-> "none"]
    /\ raccounts = {} /\ waccounts = {} /\ inputs = {} /\ doomed = {}
    /\ connecting = {} /\ cdoomed = {} /\ deferred = 0 /\ calls = 0
    /\ cache = {} /\ beating = {} /\ limits = {}
    /\ readers = [s \in Sid |-> NoNode] /\ writers = [n \in Node |-> NoSid]
    /\ announced = [n \in Node |-> "down"]
    /\ peer = [s \in Sid |-> NoNode] /\ greeted = {}
    /\ fault = "none"

In(name) == fault = "none" /\ phase = name

(* A descriptor the operating system may hand out: no open socket holds it. *)
Free(s) == socks[s] = "none" /\ s \notin connecting

Serve(s) == s \notin served /\ served' = served \cup {s} /\ UNCHANGED phase

-----------------------------------------------------------------------------
(* close_socket() *)

(* The ways in which close_channel(s) may end. *)
Plans(s) == ClosePlans(readers, writers, s)

\* Fault: close_socket() does not stop the heartbeats.
CloseSocketBeating(s, p) ==
    /\ p \in Plans(s)
    /\ cache' = cache \ p.sids
    /\ limits' = limits \ p.sids
    /\ inputs' = inputs \ p.sids
    /\ doomed' = doomed \cup p.sids
    /\ readers' = ReadersAfter(readers, p)
    /\ writers' = WritersAfter(writers, p)
    /\ announced' = AnnouncedAfter(announced, p)
    /\ UNCHANGED beating

(* close_socket(s) for a socket that was only just registered, or any other. *)
CloseSocket(s, p) ==
    /\ p \in Plans(s)
    /\ cache' = cache \ p.sids
    /\ beating' = beating \ p.sids
    /\ limits' = limits \ p.sids
    /\ inputs' = inputs \ p.sids
    /\ doomed' = doomed \cup p.sids
    /\ readers' = ReadersAfter(readers, p)
    /\ writers' = WritersAfter(writers, p)
    /\ announced' = AnnouncedAfter(announced, p)

(* schedule_reconnection(s): only a socket this node connected is dialled again. *)
ScheduleReconnection(s) ==
    /\ deferred' = IF socks[s] = "connected" THEN deferred + 1 ELSE deferred
    /\ deferred' <= MaxDeferred
    /\ UNCHANGED <<connecting, cdoomed, calls>>

(* The faults schedule_reconnection(s) and close_socket(s) can end in. *)
CloseFault(s) == IF SameNode(readers, writers, s) THEN "none" ELSE "channel of two nodes"
ReconnectFault(s) == IF socks[s] = "none" THEN "no socket to reconnect" ELSE CloseFault(s)

(* The callbacks that schedule a reconnection and close the socket. *)
DropAndReconnect(s, p) ==
    /\ ScheduleReconnection(s)
    /\ CloseSocket(s, p)
    /\ UNCHANGED <<socks, raccounts, waccounts, peerVars>>

-----------------------------------------------------------------------------
(* A new socket *)

(***************************************************************************)
(* Registration of a new socket: an input account, a reader account, and   *)
(* the socket moved to the pool.  The reader poller may refuse it; the     *)
(* failure callback then closes the socket before it reaches the pool.     *)
(***************************************************************************)
Register(s, n, kind, watched) ==
    /\ socks' = [socks EXCEPT ![s] = kind]
    /\ waccounts' = IF kind = "connected" THEN waccounts \cup {s} ELSE waccounts
    /\ peer' = [peer EXCEPT ![s] = n]
    /\ greeted' = greeted \ {s}
    /\ \/ /\ watched
          /\ raccounts' = raccounts \cup {s}
          /\ inputs' = inputs \cup {s}
          /\ cache' = IF kind = "connected" THEN cache \cup {s} ELSE cache
          /\ UNCHANGED <<doomed, beating, limits, chanVars, fault>>
       \/ /\ ~watched
          /\ UNCHANGED raccounts
          /\ \E p \in Plans(s) : CloseSocket(s, p)
          /\ fault' = CloseFault(s)

(* listener_pool's accept callback and on_accepted. *)
Accept(s, n) ==
    /\ In("listener") /\ Free(s)
    /\ \E watched \in BOOLEAN : Register(s, n, "accepted", watched)
    /\ UNCHANGED <<stepVars, dialVars>>

(***************************************************************************)
(* connecting_pool::connect: the connection is made at once, goes on in    *)
(* the background, finds the host unreachable (and is dialled again), or   *)
(* fails for good.  before is the number of deferred connections without   *)
(* the one being dialled.                                                  *)
(***************************************************************************)
Connect(s, n, before) ==
    /\ Free(s)
    /\ \/ /\ deferred' = before
          /\ \E watched \in BOOLEAN : Register(s, n, "connected", watched)
          /\ UNCHANGED <<connecting>>
       \/ /\ connecting' = connecting \cup {s}
          /\ deferred' = before
          /\ peer' = [peer EXCEPT ![s] = n]
          /\ UNCHANGED <<poolVars, timerVars, chanVars, greeted, fault>>
       \/ /\ before < MaxDeferred
          /\ deferred' = before + 1
          /\ UNCHANGED <<connecting, poolVars, timerVars, chanVars, peerVars, fault>>
       \/ /\ deferred' = before
          /\ UNCHANGED <<connecting, poolVars, timerVars, chanVars, peerVars, fault>>

(* connect_host(), called by the application between two steps. *)
ConnectHost(s, n) ==
    /\ In("listener") /\ calls < MaxCalls
    /\ calls' = calls + 1
    /\ Connect(s, n, deferred)
    /\ UNCHANGED <<stepVars, cdoomed>>

(* connecting_pool::step: a deferred connection whose time has come. *)
Reconnect(s, n) ==
    /\ In("connecting") /\ deferred > 0
    /\ Connect(s, n, deferred - 1)
    /\ UNCHANGED <<stepVars, calls, cdoomed>>

(* The connecting poller's callbacks: connected, connection_refused, on_failure. *)
Connected(s) ==
    /\ In("connecting") /\ s \in connecting /\ Serve(s)
    /\ cdoomed' = cdoomed \cup {s}
    /\ \E watched \in BOOLEAN : Register(s, peer[s], "connected", watched)
    /\ UNCHANGED <<connecting, deferred, calls>>

Refused(s) ==
    /\ In("connecting") /\ s \in connecting /\ Serve(s)
    /\ cdoomed' = cdoomed \cup {s}
    /\ deferred < MaxDeferred /\ deferred' = deferred + 1
    /\ UNCHANGED <<connecting, calls, poolVars, timerVars, chanVars, peerVars, fault>>

ConnectFailure(s) ==
    /\ In("connecting") /\ s \in connecting /\ Serve(s)
    /\ cdoomed' = cdoomed \cup {s}
    /\ UNCHANGED <<connecting, deferred, calls, poolVars, timerVars, chanVars, peerVars, fault>>

-----------------------------------------------------------------------------
(* Writing *)

(* writer_pool::send, or the writer poller, reports an error of the socket. *)
WriteFailure(s) ==
    /\ In("send") \/ In("wpoll")
    /\ s \in waccounts /\ Serve(s)
    /\ \E p \in Plans(s) : DropAndReconnect(s, p)
    /\ fault' = ReconnectFault(s)

(* node::send by the application: the message is queued on the node's writer. *)
Send(n) ==
    /\ In("listener") /\ writers[n] # NoSid
    /\ waccounts' = waccounts \cup {writers[n]}
    /\ UNCHANGED <<stepVars, socks, raccounts, inputs, doomed, dialVars, timerVars, chanVars,
                   peerVars, fault>>

-----------------------------------------------------------------------------
(* Reading *)

ReadEvent(s) == In("reader") /\ s \in raccounts /\ Serve(s)

(* The reader poller's on_failure: the socket is closed and not dialled again. *)
ReadFailure(s) ==
    /\ ReadEvent(s)
    /\ \E p \in Plans(s) : CloseSocket(s, p)
    /\ fault' = CloseFault(s)
    /\ UNCHANGED <<socks, raccounts, waccounts, dialVars, peerVars>>

(* The reader poller's disconnected. *)
ReadDisconnected(s) ==
    /\ ReadEvent(s)
    /\ \E p \in Plans(s) : DropAndReconnect(s, p)
    /\ fault' = ReconnectFault(s)

(* process_input: data for a socket whose input account is gone. *)
ReadWithoutAccount(s) ==
    /\ ReadEvent(s) /\ s \notin inputs
    /\ fault' = "account not found"
    /\ UNCHANGED <<poolVars, dialVars, timerVars, chanVars, peerVars>>

(* A heartbeat or a message; the peer sends them after its handshake packet. *)
ReadPacket(s) ==
    /\ ReadEvent(s) /\ s \in inputs /\ s \in greeted
    /\ limits' \in {limits, limits \cup {s}}
    /\ UNCHANGED <<poolVars, dialVars, cache, beating, chanVars, peerVars, fault>>

(* basic_handshake::process: what becomes of the socket of the peer's packet, a response
   if this node connected the socket. *)
Outcome(s) ==
    IF socks[s] = "connected" /\ s \notin cache THEN "late"
    ELSE Verdict(Self, peer[s], socks[s] = "connected", peer[s] \in BehindNat)

(* on_completed for the reader and for the writer. *)
UseSocket(s, n) ==
    LET new == Completed(readers, writers, s, n)
    IN  /\ readers' = new.readers
        /\ writers' = new.writers
        /\ announced' = [announced EXCEPT ![n] = Told(@, new.told)]
        /\ beating' = beating \cup {s}
        /\ limits' = limits \ {s}
        /\ cache' = cache \ {s}
        /\ UNCHANGED <<inputs, doomed, fault>>

(* An account that process_input erases under itself: the process goes on or ends. *)
EraseUnderRead == fault' \in {"none", "input account erased in use"}

ReadHandshake(s) ==
    /\ ReadEvent(s) /\ s \in inputs /\ s \notin greeted
    /\ greeted' = greeted \cup {s}
    /\ waccounts' = IF socks[s] = "accepted" THEN waccounts \cup {s} ELSE waccounts
    /\ \/ Outcome(s) = "use" /\ UseSocket(s, peer[s])
       \/ /\ Outcome(s) = "unusable"
          /\ \E p \in Plans(s) : CloseSocket(s, p)
          /\ EraseUnderRead
       \/ /\ Outcome(s) \in {"wait", "late"}
          /\ UNCHANGED <<inputs, doomed, timerVars, chanVars, fault>>
    /\ UNCHANGED <<socks, raccounts, dialVars, peer>>

(* A handshake packet whose node identifier cannot be parsed. *)
ReadBadHandshake(s) ==
    /\ ReadEvent(s) /\ s \in inputs /\ s \notin greeted
    /\ \E p \in Plans(s) : CloseSocket(s, p)
    /\ EraseUnderRead
    /\ UNCHANGED <<socks, raccounts, waccounts, dialVars, peerVars>>

-----------------------------------------------------------------------------
(* Timers and removal *)

(* check_expired: no response in time. *)
HandshakeExpired(s) ==
    /\ In("handshake") /\ s \in cache
    /\ \E p \in Plans(s) : CloseSocket(s, p)
    /\ fault' = CloseFault(s)
    /\ UNCHANGED <<stepVars, socks, raccounts, waccounts, dialVars, peerVars>>

(* simple_heartbeat::step: a heartbeat is due on s. *)
SendHeartbeat(s) ==
    /\ In("heartbeat") /\ s \in beating
    /\ waccounts' = waccounts \cup {s}
    /\ UNCHANGED <<stepVars, socks, raccounts, inputs, doomed, dialVars, timerVars, chanVars,
                   peerVars, fault>>

(* simple_heartbeat::step: silence on s.  The callback may erase the entry of another
   socket, the one the loop's iterator stands on. *)
HeartbeatExpired(s) ==
    /\ In("heartbeat") /\ s \in limits
    /\ \E p \in Plans(s) :
          /\ DropAndReconnect(s, p)
          /\ \/ fault' = ReconnectFault(s)
             \/ (p.sids \ {s}) \cap limits # {} /\ fault' = "limits iterator invalidated"
    /\ UNCHANGED <<stepVars>>

(* The next stage of step(). *)
Advance ==
    /\ fault = "none" /\ phase # "heartbeat"
    /\ phase' = After(phase) /\ served' = {}
    /\ UNCHANGED <<poolVars, dialVars, timerVars, chanVars, peerVars, fault>>

ForgetPeers ==
    /\ peer' = [s \in Sid |-> IF socks'[s] = "none" /\ s \notin connecting' THEN NoNode ELSE peer[s]]
    /\ greeted' = greeted \ doomed

\* Fault: the writer pool does not apply its removals.
ApplyRemoveKeepsWriters ==
    /\ In("heartbeat")
    /\ phase' = After(phase) /\ served' = {}
    /\ connecting' = connecting \ cdoomed /\ cdoomed' = {}
    /\ raccounts' = raccounts \ doomed
    /\ socks' = [s \in Sid |-> IF s \in doomed THEN "none" ELSE socks[s]]
    /\ doomed' = {}
    /\ ForgetPeers
    /\ UNCHANGED <<waccounts, inputs, deferred, calls, timerVars, chanVars, fault>>

(* The five apply_remove() calls, and the end of step(). *)
ApplyRemove ==
    /\ In("heartbeat")
    /\ phase' = After(phase) /\ served' = {}
    /\ connecting' = connecting \ cdoomed /\ cdoomed' = {}
    /\ raccounts' = raccounts \ doomed
    /\ waccounts' = waccounts \ doomed
    /\ socks' = [s \in Sid |-> IF s \in doomed THEN "none" ELSE socks[s]]
    /\ doomed' = {}
    /\ ForgetPeers
    /\ UNCHANGED <<inputs, deferred, calls, timerVars, chanVars, fault>>

Event(s) ==
    \/ Connected(s) \/ Refused(s) \/ ConnectFailure(s)
    \/ WriteFailure(s)
    \/ ReadFailure(s) \/ ReadDisconnected(s) \/ ReadWithoutAccount(s) \/ ReadPacket(s)
    \/ ReadHandshake(s) \/ ReadBadHandshake(s)
    \/ HandshakeExpired(s) \/ SendHeartbeat(s) \/ HeartbeatExpired(s)

Next ==
    \/ \E s \in Sid, n \in Node : Accept(s, n) \/ ConnectHost(s, n) \/ Reconnect(s, n)
    \/ \E s \in Sid : Event(s)
    \/ \E n \in Node : Send(n)
    \/ Advance
    \/ ApplyRemove

Spec == Init /\ [][Next]_vars

-----------------------------------------------------------------------------
Faults == {"none", "channel of two nodes", "no socket to reconnect", "account not found",
           "input account erased in use", "limits iterator invalidated"}

(* Types of the state. *)
TypeOK ==
    /\ phase \in Phases /\ served \subseteq Sid
    /\ socks \in [Sid -> {"none", "accepted", "connected"}]
    /\ raccounts \subseteq Sid /\ waccounts \subseteq Sid /\ inputs \subseteq Sid /\ doomed \subseteq Sid
    /\ connecting \subseteq Sid /\ cdoomed \subseteq connecting
    /\ deferred \in 0..MaxDeferred /\ calls \in 0..MaxCalls
    /\ cache \subseteq Sid /\ beating \subseteq Sid /\ limits \subseteq Sid
    /\ readers \in [Sid -> Node \cup {NoNode}] /\ writers \in [Node -> Sid \cup {NoSid}]
    /\ announced \in [Node -> {"down", "up", "twice", "unheralded"}]
    /\ peer \in [Sid -> Node \cup {NoNode}] /\ greeted \subseteq Sid
    /\ fault \in Faults

Open == {s \in Sid : socks[s] # "none"}

(* The pools, the input processor and the timers agree on which sockets exist: no
   account outlives its socket, a socket that is being closed has no input account,
   no handshake or heartbeat timer, and every other socket can be read. *)
AccountsMatchSockets ==
    /\ TypeOK
    /\ Open \ doomed \subseteq raccounts /\ raccounts \subseteq Open /\ waccounts \subseteq Open /\ doomed \subseteq Open
    /\ inputs = Open \ doomed
    /\ cache \cup beating \cup limits \subseteq Open \ doomed

(* The node's own assertions hold in any order of callbacks: a socket that failed is still
   in the pool when schedule_reconnection() asks whether it dialled it (PFS__TERMINATE), and
   a socket that is reader and writer is so for one node (close_channel()'s PFS__ASSERT). *)
AssertionsHold == fault \notin {"no socket to reconnect", "channel of two nodes"}

(* A node's writer is an open socket that nobody has closed: a message sent through
   _writers is never queued on a dead or foreign descriptor. *)
WritersOpen ==
    \A n \in Node : writers[n] # NoSid =>
        /\ socks[writers[n]] # "none" /\ writers[n] \notin doomed
        /\ peer[writers[n]] = n

(* The application was told that it is connected to exactly the nodes it can send to:
   on_node_connected and on_node_disconnected follow the writers, and no node is
   disconnected that was not announced. *)
AnnouncedMatchesWriters ==
    \A n \in Node : announced[n] \in (IF writers[n] = NoSid THEN {"down"} ELSE {"up", "twice"})
=============================================================================
