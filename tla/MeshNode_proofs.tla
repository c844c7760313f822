-------------------------- MODULE MeshNode_proofs --------------------------
(***************************************************************************)
(* Proofs about MeshNode, for every number of sockets and nodes.  The      *)
(* invariants of its run are proved together: each needs the others, and   *)
(* three facts that no run states.                                         *)
(***************************************************************************)
EXTENDS MeshNode, TLAPS

-----------------------------------------------------------------------------
(* The inductive invariant *)

(* A node's writer is a socket that also reads from that node: on_completed sets the two
   entries together, and close_channel() never erases the reader alone.  (The converse
   fails: an older socket of the node may still read.) *)
WritersRead == \A n \in Node : writers[n] # NoSid => readers[writers[n]] = n

(* A socket in the pool or being connected has a node at the other end. *)
PeersKnown == \A s \in Sid : socks[s] # "none" \/ s \in connecting => peer[s] \in Node

(* The connecting pool reports a socket once: one it has not settled is not in the socket
   pool, and those it has settled go at the end of the step. *)
DialsPending ==
    /\ \A s \in connecting \ cdoomed : socks[s] = "none"
    /\ phase = "listener" => cdoomed = {}
    /\ phase = "connecting" => cdoomed \subseteq served

Inv ==
    /\ AccountsMatchSockets /\ AssertionsHold /\ WritersOpen /\ AnnouncedMatchesWriters
    /\ WritersRead /\ PeersKnown /\ DialsPending

-----------------------------------------------------------------------------
(* close_channel() and close_socket() *)

(* What close_channel(s) may do when every writer also reads: it closes s and at most the
   node's writer, erases the writer entries of the sockets it closes, and no reader entry
   of a writer it keeps.  The case of a socket that only writes cannot arise. *)
LEMMA PlanFacts ==
    ASSUME Inv, NEW s \in Sid, NEW p \in Plans(s)
    PROVE  /\ p.sids \subseteq Sid /\ s \in p.sids
           /\ \A x \in p.sids : x # s => \E n \in Node : writers[n] = x
           /\ \A n \in Node : writers[n] \in p.sids => n \in p.dropWriters
           /\ \A n \in p.dropWriters : n \in Node /\ writers[n] # NoSid
           /\ p.dropReaders \subseteq {s}
           /\ Disconnected(p) = p.dropWriters
<1> DEFINE r == readers[s]
           w == WritersOn(writers, s)
<1>1. /\ readers \in [Sid -> Node \cup {NoNode}] /\ writers \in [Node -> Sid \cup {NoSid}]
      /\ WritersRead
    BY DEF Inv, AccountsMatchSockets, TypeOK
<1>2. NoSid \notin Sid /\ NoNode \notin Node
    BY MeshNodeAssumption
<1>3. /\ w = {n \in Node : writers[n] = s}
      /\ \A n \in w : n = r
    BY <1>1, <1>2 DEF WritersOn, WritersRead
<1>4. CASE r = NoNode
    <2>1. w = {}
        BY <1>2, <1>3, <1>4
    <2>2. p = Plan({s}, {}, {})
        BY <2>1, <1>4 DEF Plans, ClosePlans
    <2> QED  BY <2>1, <2>2, <1>1, <1>2, <1>3 DEF Plan, Disconnected
<1>5. CASE r # NoNode /\ w # {}
    <2>1. w = {r} /\ r \in Node /\ writers[r] = s
        BY <1>1, <1>2, <1>3, <1>5
    <2>2. p = Plan({s}, {s}, {r})
        BY <2>1, <1>5 DEF Plans, ClosePlans
    <2> QED  BY <2>1, <2>2, <1>1, <1>2, <1>3 DEF Plan, Disconnected
<1>6. CASE r # NoNode /\ w = {} /\ writers[r] # NoSid
    <2>1. p = Plan({s, writers[r]}, {s}, {r})
        BY <1>6 DEF Plans, ClosePlans
    <2>2. r \in Node /\ writers[r] \in Sid
        BY <1>1, <1>6
    <2>3. \A n \in Node : writers[n] = writers[r] => n = r
        BY <1>1, <2>2, <1>6 DEF WritersRead
    <2> QED  BY <2>1, <2>2, <2>3, <1>1, <1>2, <1>3, <1>6 DEF Plan, Disconnected
<1>7. CASE r # NoNode /\ w = {} /\ writers[r] = NoSid
    <2>1. p = Plan({s}, {s}, {})
        BY <1>7 DEF Plans, ClosePlans
    <2> QED  BY <2>1, <1>1, <1>2, <1>3, <1>7 DEF Plan, Disconnected
<1> QED  BY <1>4, <1>5, <1>6, <1>7

(* What close_socket(s) leaves: maps and announcements of their types that still agree,
   no entry for a socket it closes, and no timer or input account of one. *)
LEMMA Closing ==
    ASSUME Inv, NEW s \in Sid, NEW p \in Plans(s), CloseSocket(s, p)
    PROVE  /\ readers' \in [Sid -> Node \cup {NoNode}]
           /\ writers' \in [Node -> Sid \cup {NoSid}]
           /\ announced' \in [Node -> {"down", "up", "twice", "unheralded"}]
           /\ s \in p.sids /\ p.sids \subseteq {s} \cup (Open \ doomed)
           /\ \A n \in Node : writers'[n] # NoSid =>
                 writers'[n] = writers[n] /\ writers[n] \notin p.sids
           /\ WritersRead' /\ AnnouncedMatchesWriters'
<1>1. /\ readers \in [Sid -> Node \cup {NoNode}] /\ writers \in [Node -> Sid \cup {NoSid}]
      /\ announced \in [Node -> {"down", "up", "twice", "unheralded"}]
      /\ WritersRead /\ WritersOpen /\ AnnouncedMatchesWriters
    BY DEF Inv, AccountsMatchSockets, TypeOK
<1>2. NoSid \notin Sid /\ NoNode \notin Node
    BY MeshNodeAssumption
<1>3. /\ p.sids \subseteq Sid /\ s \in p.sids
      /\ \A x \in p.sids : x # s => \E n \in Node : writers[n] = x
      /\ \A n \in Node : writers[n] \in p.sids => n \in p.dropWriters
      /\ \A n \in p.dropWriters : n \in Node /\ writers[n] # NoSid
      /\ p.dropReaders \subseteq {s}
      /\ Disconnected(p) = p.dropWriters
    BY PlanFacts
<1>4. readers' = [x \in Sid |-> IF x \in p.dropReaders THEN NoNode ELSE readers[x]]
    BY <1>1 DEF CloseSocket, ReadersAfter
<1>5. writers' = [n \in Node |-> IF n \in p.dropWriters THEN NoSid ELSE writers[n]]
    BY <1>1 DEF CloseSocket, WritersAfter
<1>6. announced' = [n \in Node |-> IF n \in p.dropWriters THEN Lost(announced[n]) ELSE announced[n]]
    BY <1>1, <1>3 DEF CloseSocket, AnnouncedAfter
<1>7. \A n \in Node : writers'[n] # NoSid => writers'[n] = writers[n] /\ writers[n] \notin p.sids
    BY <1>1, <1>3, <1>5
<1>8. p.sids \subseteq {s} \cup (Open \ doomed)
    BY <1>1, <1>2, <1>3 DEF WritersOpen, Open
<1>9. WritersRead'
    BY <1>1, <1>3, <1>4, <1>5, <1>7 DEF WritersRead
<1>10. AnnouncedMatchesWriters'
    BY <1>1, <1>3, <1>5, <1>6 DEF AnnouncedMatchesWriters, Lost
<1> QED  BY <1>1, <1>3, <1>4, <1>5, <1>6, <1>7, <1>8, <1>9, <1>10 DEF Lost

(* close_channel()'s assertion holds of every socket. *)
LEMMA OneNode ==
    ASSUME Inv, NEW s \in Sid
    PROVE  SameNode(readers, writers, s)
BY MeshNodeAssumption DEF Inv, AccountsMatchSockets, TypeOK, WritersRead, SameNode, WritersOn

(* Closing a socket of the pool keeps everything but the types of what it does not touch,
   whatever else the callback does to served, deferred and the fault. *)
LEMMA ClosingOpen ==
    ASSUME Inv, NEW s \in Open, NEW p \in Plans(s), CloseSocket(s, p),
           waccounts' \in {waccounts, waccounts \cup {s}}, greeted' \subseteq Sid,
           served' \subseteq Sid, served \subseteq served',
           deferred' \in 0..MaxDeferred, fault' \in Faults, AssertionsHold',
           UNCHANGED <<phase, socks, raccounts, connecting, cdoomed, calls, peer>>
    PROVE  Inv'
<1> s \in Sid
    BY DEF Open
<1>1. /\ readers' \in [Sid -> Node \cup {NoNode}]
      /\ writers' \in [Node -> Sid \cup {NoSid}]
      /\ announced' \in [Node -> {"down", "up", "twice", "unheralded"}]
      /\ s \in p.sids /\ p.sids \subseteq {s} \cup (Open \ doomed)
      /\ \A n \in Node : writers'[n] # NoSid =>
            writers'[n] = writers[n] /\ writers[n] \notin p.sids
      /\ WritersRead' /\ AnnouncedMatchesWriters'
    BY Closing
<1>2. /\ cache' = cache \ p.sids /\ beating' = beating \ p.sids /\ limits' = limits \ p.sids
      /\ inputs' = inputs \ p.sids /\ doomed' = doomed \cup p.sids
    BY DEF CloseSocket
<1>3. Open' = Open
    BY DEF Open
<1>4. TypeOK'
    BY <1>1, <1>2 DEF Inv, AccountsMatchSockets, TypeOK, Open
<1>5. AccountsMatchSockets'
    BY <1>1, <1>2, <1>3, <1>4 DEF Inv, AccountsMatchSockets
<1>6. WritersOpen'
    BY <1>1, <1>2 DEF Inv, WritersOpen
<1>7. PeersKnown' /\ DialsPending'
    BY DEF Inv, PeersKnown, DialsPending
<1> QED  BY <1>1, <1>5, <1>6, <1>7 DEF Inv

(* The callbacks that dial again close a socket of the pool. *)
LEMMA Dropping ==
    ASSUME Inv, NEW s \in Open, NEW p \in Plans(s), DropAndReconnect(s, p),
           served' \subseteq Sid, served \subseteq served', fault' \in Faults, AssertionsHold',
           phase' = phase
    PROVE  Inv'
<1>1. deferred' \in 0..MaxDeferred
    BY MeshNodeAssumption
    DEF Inv, AccountsMatchSockets, TypeOK, DropAndReconnect, ScheduleReconnection
<1>2. greeted' \subseteq Sid
    BY DEF Inv, AccountsMatchSockets, TypeOK, DropAndReconnect, peerVars
<1> QED  BY <1>1, <1>2, ClosingOpen DEF DropAndReconnect, ScheduleReconnection, peerVars

(* The faults of the node's assertions are not met by a socket of the pool. *)
LEMMA NoFault ==
    ASSUME Inv, NEW s \in Open
    PROVE  CloseFault(s) = "none" /\ ReconnectFault(s) = "none"
BY OneNode DEF CloseFault, ReconnectFault, Open

-----------------------------------------------------------------------------
(* A new socket *)

(* A descriptor that is not in the pool has no entry in any map: registering it, whether
   or not the reader poller takes it, keeps the accounts matched. *)
LEMMA Registering ==
    ASSUME Inv, fault = "none", NEW s \in Sid, NEW n \in Node, NEW kind \in {"accepted", "connected"},
           NEW watched \in BOOLEAN, Register(s, n, kind, watched),
           socks[s] = "none", s \in connecting => s \in cdoomed',
           UNCHANGED <<phase, connecting>>, calls' \in 0..MaxCalls,
           served' \subseteq Sid, served \subseteq served', deferred' \in 0..MaxDeferred,
           \/ cdoomed' = cdoomed
           \/ cdoomed' = cdoomed \cup {s} /\ s \in connecting /\ s \in served' /\ phase = "connecting"
    PROVE  Inv'
<1>1. /\ s \notin Open /\ s \notin doomed /\ s \notin inputs /\ s \notin raccounts
      /\ s \notin cache \cup beating \cup limits
    BY DEF Inv, AccountsMatchSockets, Open
<1>2. \A m \in Node : writers[m] # s
    BY MeshNodeAssumption DEF Inv, WritersOpen
<1>3. socks' = [socks EXCEPT ![s] = kind] /\ peer' = [peer EXCEPT ![s] = n]
    BY DEF Register
<1>4. Open' = Open \cup {s}
    BY <1>3 DEF Open, Inv, AccountsMatchSockets, TypeOK
<1>5. /\ socks' \in [Sid -> {"none", "accepted", "connected"}]
      /\ peer' \in [Sid -> Node \cup {NoNode}]
      /\ waccounts' \subseteq Open' /\ greeted' \subseteq Sid
    BY <1>3, <1>4 DEF Register, Inv, AccountsMatchSockets, TypeOK
<1>6. PeersKnown'
    BY <1>3 DEF Inv, AccountsMatchSockets, TypeOK, PeersKnown
<1>7. DialsPending'
    BY <1>3 DEF Inv, AccountsMatchSockets, TypeOK, DialsPending
<1>8. CASE watched
    <2>1. /\ raccounts' = raccounts \cup {s} /\ inputs' = inputs \cup {s}
          /\ cache' \in {cache, cache \cup {s}}
          /\ UNCHANGED <<doomed, beating, limits, readers, writers, announced, fault>>
        BY <1>8 DEF Register, chanVars
    <2>2. TypeOK'
        BY <1>5, <2>1 DEF Inv, AccountsMatchSockets, TypeOK, Open
    <2>3. AccountsMatchSockets'
        BY <1>1, <1>4, <1>5, <2>1, <2>2 DEF Inv, AccountsMatchSockets
    <2>4. WritersOpen' /\ WritersRead' /\ AnnouncedMatchesWriters' /\ AssertionsHold'
        BY <1>2, <1>3, <2>1, MeshNodeAssumption
        DEF Inv, AccountsMatchSockets, TypeOK, WritersOpen, WritersRead, AnnouncedMatchesWriters,
            AssertionsHold
    <2> QED  BY <1>6, <1>7, <2>3, <2>4 DEF Inv
<1>9. CASE ~watched
    <2>1. PICK p \in Plans(s) : CloseSocket(s, p)
        BY <1>9 DEF Register
    <2>2. UNCHANGED raccounts /\ fault' = CloseFault(s)
        BY <1>9 DEF Register
    <2>3. fault' = "none"
        BY <2>2, OneNode DEF CloseFault
    <2>4. /\ readers' \in [Sid -> Node \cup {NoNode}]
          /\ writers' \in [Node -> Sid \cup {NoSid}]
          /\ announced' \in [Node -> {"down", "up", "twice", "unheralded"}]
          /\ s \in p.sids /\ p.sids \subseteq {s} \cup (Open \ doomed)
          /\ \A m \in Node : writers'[m] # NoSid =>
                writers'[m] = writers[m] /\ writers[m] \notin p.sids
          /\ WritersRead' /\ AnnouncedMatchesWriters'
        BY <2>1, Closing
    <2>5. /\ cache' = cache \ p.sids /\ beating' = beating \ p.sids /\ limits' = limits \ p.sids
          /\ inputs' = inputs \ p.sids /\ doomed' = doomed \cup p.sids
        BY <2>1 DEF CloseSocket
    <2>6. TypeOK'
        BY <1>5, <2>2, <2>3, <2>4, <2>5 DEF Inv, AccountsMatchSockets, TypeOK, Open, Faults
    <2>7. AccountsMatchSockets'
        BY <1>1, <1>4, <1>5, <2>2, <2>4, <2>5, <2>6 DEF Inv, AccountsMatchSockets
    <2>8. WritersOpen'
        BY <1>2, <1>3, <2>4, <2>5, MeshNodeAssumption
        DEF Inv, AccountsMatchSockets, TypeOK, WritersOpen
    <2> QED  BY <1>6, <1>7, <2>3, <2>4, <2>7, <2>8 DEF Inv, AssertionsHold
<1> QED  BY <1>8, <1>9

(* The three outcomes of connect() that make no socket, and the one that leaves it
   connecting, keep the invariant. *)
LEMMA Connecting ==
    ASSUME Inv, fault = "none", NEW s \in Sid, NEW n \in Node, NEW before \in 0..MaxDeferred,
           Connect(s, n, before), UNCHANGED <<phase, served, cdoomed>>, calls' \in 0..MaxCalls
    PROVE  Inv'
<1>0. socks[s] = "none" /\ s \notin connecting
    BY DEF Connect, Free
<1>1. CASE /\ deferred' = before
           /\ \E watched \in BOOLEAN : Register(s, n, "connected", watched)
           /\ UNCHANGED connecting
    <2>1. PICK watched \in BOOLEAN : Register(s, n, "connected", watched)
        BY <1>1
    <2>2. served' \subseteq Sid
        BY DEF Inv, AccountsMatchSockets, TypeOK
    <2> QED  BY <1>0, <1>1, <2>1, <2>2, Registering
<1>2. CASE /\ connecting' = connecting \cup {s}
           /\ deferred' = before
           /\ peer' = [peer EXCEPT ![s] = n]
           /\ UNCHANGED <<poolVars, timerVars, chanVars, greeted, fault>>
    <2>1. UNCHANGED <<socks, raccounts, waccounts, inputs, doomed, cache, beating, limits,
                      readers, writers, announced, greeted, fault>>
        BY <1>2 DEF poolVars, timerVars, chanVars
    <2>2. TypeOK' /\ Open' = Open
        BY <1>2, <2>1 DEF Inv, AccountsMatchSockets, TypeOK, Open
    <2>3. AccountsMatchSockets' /\ AssertionsHold' /\ AnnouncedMatchesWriters'
        BY <2>1, <2>2
        DEF Inv, AccountsMatchSockets, AssertionsHold, AnnouncedMatchesWriters
    <2>4. WritersOpen' /\ WritersRead'
        BY <1>0, <1>2, <2>1, MeshNodeAssumption
        DEF Inv, AccountsMatchSockets, TypeOK, WritersOpen, WritersRead
    <2>5. PeersKnown' /\ DialsPending'
        BY <1>0, <1>2, <2>1 DEF Inv, AccountsMatchSockets, TypeOK, PeersKnown, DialsPending
    <2> QED  BY <2>3, <2>4, <2>5 DEF Inv
<1>3. CASE /\ deferred' \in 0..MaxDeferred
           /\ UNCHANGED <<connecting, poolVars, timerVars, chanVars, peerVars, fault>>
    BY <1>3 DEF Inv, AccountsMatchSockets, TypeOK, AssertionsHold, WritersOpen, WritersRead, Open,
                AnnouncedMatchesWriters, PeersKnown, DialsPending, poolVars, timerVars, chanVars, peerVars
<1>4. before < MaxDeferred => before + 1 \in 0..MaxDeferred
    BY MeshNodeAssumption
<1> QED  BY <1>1, <1>2, <1>3, <1>4 DEF Connect

-----------------------------------------------------------------------------
(* Using a socket *)

(* The completion of a handshake makes the socket reader and writer of its node. *)
LEMMA Using ==
    ASSUME Inv, NEW s \in Open \ doomed, UseSocket(s, peer[s]),
           waccounts' \in {waccounts, waccounts \cup {s}}, greeted' \subseteq Sid,
           served' \subseteq Sid, served \subseteq served',
           UNCHANGED <<phase, socks, raccounts, connecting, cdoomed, deferred, calls, peer>>
    PROVE  Inv'
<1> DEFINE n == peer[s]
<1>1. s \in Sid /\ n \in Node
    BY DEF Inv, PeersKnown, Open
<1>2. /\ readers \in [Sid -> Node \cup {NoNode}] /\ writers \in [Node -> Sid \cup {NoSid}]
      /\ announced \in [Node -> {"down", "up", "twice", "unheralded"}]
    BY DEF Inv, AccountsMatchSockets, TypeOK
<1>3. /\ readers' = [readers EXCEPT ![s] = n] /\ writers' = [writers EXCEPT ![n] = s]
      /\ announced' = [announced EXCEPT ![n] = Told(announced[n], IF writers[n] # NoSid THEN 2 ELSE 1)]
      /\ beating' = beating \cup {s} /\ limits' = limits \ {s} /\ cache' = cache \ {s}
      /\ UNCHANGED <<inputs, doomed, fault>>
    BY DEF UseSocket, Completed
<1>4. Open' = Open
    BY DEF Open
<1>5. AnnouncedMatchesWriters' /\ announced' \in [Node -> {"down", "up", "twice", "unheralded"}]
    BY <1>1, <1>2, <1>3, MeshNodeAssumption DEF Inv, AnnouncedMatchesWriters, Told
<1>6. TypeOK'
    BY <1>1, <1>2, <1>3, <1>5 DEF Inv, AccountsMatchSockets, TypeOK
<1>7. AccountsMatchSockets'
    BY <1>3, <1>4, <1>6 DEF Inv, AccountsMatchSockets
<1>8. WritersOpen'
    BY <1>1, <1>2, <1>3 DEF Inv, WritersOpen, Open
<1>9. WritersRead'
    <2>1. \A m \in Node : m # n /\ writers[m] # NoSid => writers[m] # s
        BY <1>1 DEF Inv, WritersOpen
    <2> QED  BY <2>1, <1>1, <1>2, <1>3 DEF Inv, WritersRead
<1>10. PeersKnown' /\ DialsPending' /\ AssertionsHold'
    BY <1>3 DEF Inv, PeersKnown, DialsPending, AssertionsHold
<1> QED  BY <1>5, <1>7, <1>8, <1>9, <1>10 DEF Inv

-----------------------------------------------------------------------------
(* The invariant *)

(* Every state of the node satisfies the invariant: before the first step() ... *)
LEMMA InvInit == Init => Inv
BY MeshNodeAssumption
DEF Init, Inv, AccountsMatchSockets, TypeOK, AssertionsHold, WritersOpen, WritersRead, Open, Phases,
    AnnouncedMatchesWriters, PeersKnown, DialsPending, Faults

(* ... and after each callback, call of the application and removal. *)
LEMMA InvNext == Inv /\ [Next]_vars => Inv'
<1> SUFFICES ASSUME Inv, [Next]_vars PROVE Inv'
    OBVIOUS
<1>ty. /\ TypeOK
       /\ raccounts \subseteq Open /\ waccounts \subseteq Open /\ doomed \subseteq Open
       /\ inputs = Open \ doomed /\ cache \cup beating \cup limits \subseteq Open \ doomed
    BY DEF Inv, AccountsMatchSockets
<1>sv. served \subseteq Sid /\ greeted \subseteq Sid /\ deferred \in 0..MaxDeferred /\ calls \in 0..MaxCalls
    BY <1>ty DEF TypeOK
<1>nf. \A s \in Open : CloseFault(s) = "none" /\ ReconnectFault(s) = "none"
    BY NoFault
<1>sid. \A s \in Open : s \in Sid
    BY DEF Open
<1>ft. "none" \in Faults /\ "none" \notin {"no socket to reconnect", "channel of two nodes"}
    BY DEF Faults
<1>1. ASSUME NEW s \in Sid, NEW n \in Node, Accept(s, n) PROVE Inv'
    <2>1. PICK watched \in BOOLEAN : Register(s, n, "accepted", watched)
        BY <1>1 DEF Accept
    <2> QED  BY <1>1, <1>sv, <2>1, Registering DEF Accept, In, Free, stepVars, dialVars
<1>2. ASSUME NEW s \in Sid, NEW n \in Node, ConnectHost(s, n) PROVE Inv'
    <2>1. calls' \in 0..MaxCalls
        BY <1>2, <1>sv, MeshNodeAssumption DEF ConnectHost
    <2> QED  BY <1>2, <1>sv, <2>1, Connecting DEF ConnectHost, In, stepVars
<1>3. ASSUME NEW s \in Sid, NEW n \in Node, Reconnect(s, n) PROVE Inv'
    <2>1. deferred - 1 \in 0..MaxDeferred
        BY <1>3, <1>sv, MeshNodeAssumption DEF Reconnect
    <2> QED  BY <1>3, <1>sv, <2>1, Connecting DEF Reconnect, In, stepVars
<1>4. ASSUME NEW s \in Sid, Connected(s) PROVE Inv'
    <2>1. PICK watched \in BOOLEAN : Register(s, peer[s], "connected", watched)
        BY <1>4 DEF Connected
    <2>2. socks[s] = "none" /\ peer[s] \in Node
        BY <1>4 DEF Connected, Serve, In, Inv, DialsPending, PeersKnown
    <2> QED  BY <1>4, <1>sv, <2>1, <2>2, Registering DEF Connected, In, Serve
<1>5. ASSUME NEW s \in Sid, Refused(s) \/ ConnectFailure(s) PROVE Inv'
    <2>1. /\ In("connecting") /\ s \in connecting /\ s \notin served /\ phase' = phase
          /\ served' = served \cup {s} /\ cdoomed' = cdoomed \cup {s}
          /\ UNCHANGED <<connecting, calls, socks, raccounts, waccounts, inputs, doomed, cache, beating,
                         limits, readers, writers, announced, peer, greeted, fault>>
        BY <1>5 DEF Refused, ConnectFailure, Serve, poolVars, timerVars, chanVars, peerVars
    <2>2. deferred' \in 0..MaxDeferred
        BY <1>5, <1>sv, MeshNodeAssumption DEF Refused, ConnectFailure
    <2>3. TypeOK' /\ Open' = Open
        BY <1>ty, <2>1, <2>2 DEF TypeOK, Open
    <2>4. AccountsMatchSockets'
        BY <2>1, <2>3 DEF Inv, AccountsMatchSockets
    <2>5. DialsPending'
        BY <2>1 DEF In, Inv, DialsPending
    <2> QED  BY <2>1, <2>4, <2>5 DEF Inv, AssertionsHold, WritersOpen, WritersRead,
                                     AnnouncedMatchesWriters, PeersKnown
<1>6. ASSUME NEW s \in Sid, WriteFailure(s) \/ ReadDisconnected(s) PROVE Inv'
    <2>1. s \in Open
        BY <1>6, <1>ty DEF WriteFailure, ReadDisconnected, ReadEvent
    <2>2. PICK p \in Plans(s) : DropAndReconnect(s, p)
        BY <1>6 DEF WriteFailure, ReadDisconnected
    <2>3. fault' = "none" /\ Serve(s)
        BY <1>6, <1>nf, <2>1 DEF WriteFailure, ReadDisconnected, ReadEvent
    <2>4. served' \subseteq Sid /\ served \subseteq served' /\ phase' = phase
        BY <2>3, <1>sv DEF Serve
    <2> QED  BY <1>ft, <2>1, <2>2, <2>3, <2>4, Dropping DEF AssertionsHold
<1>7. ASSUME NEW n \in Node, Send(n) PROVE Inv'
    <2>1. writers[n] \in Open
        BY <1>7, <1>ty, MeshNodeAssumption DEF Send, Inv, WritersOpen, TypeOK, Open
    <2>2. /\ waccounts' = waccounts \cup {writers[n]}
          /\ UNCHANGED <<phase, served, socks, raccounts, inputs, doomed, connecting, cdoomed, deferred,
                         calls, cache, beating, limits, readers, writers, announced, peer, greeted, fault>>
        BY <1>7 DEF Send, stepVars, dialVars, timerVars, chanVars, peerVars
    <2>3. TypeOK' /\ Open' = Open
        BY <1>ty, <2>1, <2>2 DEF TypeOK, Open
    <2>4. AccountsMatchSockets'
        BY <2>1, <2>2, <2>3 DEF Inv, AccountsMatchSockets
    <2> QED  BY <2>2, <2>4 DEF Inv, AssertionsHold, WritersOpen, WritersRead, AnnouncedMatchesWriters,
                               PeersKnown, DialsPending
<1>8. ASSUME NEW s \in Sid, SendHeartbeat(s) PROVE Inv'
    <2>1. s \in Open
        BY <1>8, <1>ty DEF SendHeartbeat
    <2>2. /\ waccounts' = waccounts \cup {s}
          /\ UNCHANGED <<phase, served, socks, raccounts, inputs, doomed, connecting, cdoomed, deferred,
                         calls, cache, beating, limits, readers, writers, announced, peer, greeted, fault>>
        BY <1>8 DEF SendHeartbeat, stepVars, dialVars, timerVars, chanVars, peerVars
    <2>3. TypeOK' /\ Open' = Open
        BY <1>ty, <2>1, <2>2 DEF TypeOK, Open
    <2>4. AccountsMatchSockets'
        BY <2>1, <2>2, <2>3 DEF Inv, AccountsMatchSockets
    <2> QED  BY <2>2, <2>4 DEF Inv, AssertionsHold, WritersOpen, WritersRead, AnnouncedMatchesWriters,
                               PeersKnown, DialsPending
<1>9. ASSUME NEW s \in Sid, ReadFailure(s) PROVE Inv'
    <2>1. s \in Open
        BY <1>9, <1>ty DEF ReadFailure, ReadEvent
    <2>2. PICK p \in Plans(s) : CloseSocket(s, p)
        BY <1>9 DEF ReadFailure
    <2>3. fault' = "none"
        BY <1>9, <1>nf, <2>1 DEF ReadFailure
    <2> QED  BY <1>9, <1>ft, <1>sv, <2>1, <2>2, <2>3, ClosingOpen
             DEF ReadFailure, ReadEvent, Serve, dialVars, peerVars, AssertionsHold
<1>10. ASSUME NEW s \in Sid, ReadWithoutAccount(s) \/ ReadPacket(s) PROVE Inv'
    <2>1. /\ s \in raccounts /\ phase' = phase /\ served' = served \cup {s} /\ phase = "reader"
          /\ UNCHANGED <<socks, raccounts, waccounts, inputs, doomed, connecting, cdoomed, deferred,
                         calls, cache, beating, readers, writers, announced, peer, greeted>>
        BY <1>10 DEF ReadWithoutAccount, ReadPacket, ReadEvent, Serve, In, poolVars, dialVars,
                     timerVars, chanVars, peerVars
    <2>2. /\ limits' = limits \/ (s \in inputs /\ limits' = limits \cup {s})
          /\ fault' = fault \/ fault' = "account not found"
        BY <1>10 DEF ReadWithoutAccount, ReadPacket, timerVars
    <2>3. TypeOK' /\ Open' = Open
        BY <1>ty, <2>1, <2>2 DEF TypeOK, Open, Faults
    <2>4. AccountsMatchSockets'
        BY <2>1, <2>2, <2>3 DEF Inv, AccountsMatchSockets
    <2>5. AssertionsHold'
        BY <2>2 DEF Inv, AssertionsHold
    <2>6. DialsPending'
        BY <2>1 DEF Inv, DialsPending
    <2> QED  BY <2>1, <2>4, <2>5, <2>6 DEF Inv, WritersOpen, WritersRead, AnnouncedMatchesWriters, PeersKnown
<1>11. ASSUME NEW s \in Sid, ReadHandshake(s) PROVE Inv'
    <2>1. /\ s \in Open \ doomed
          /\ waccounts' \in {waccounts, waccounts \cup {s}}
          /\ greeted' \subseteq Sid /\ served' \subseteq Sid /\ served \subseteq served'
          /\ UNCHANGED <<phase, socks, raccounts, connecting, cdoomed, deferred, calls, peer>>
        BY <1>11, <1>ty, <1>sv DEF ReadHandshake, ReadEvent, Serve, dialVars
    <2>2. CASE UseSocket(s, peer[s])
        BY <2>1, <2>2, Using
    <2>3. CASE (\E p \in Plans(s) : CloseSocket(s, p)) /\ EraseUnderRead
        <3>1. PICK p \in Plans(s) : CloseSocket(s, p)
            BY <2>3
        <3>2. fault' \in Faults /\ AssertionsHold'
            BY <2>3 DEF EraseUnderRead, Faults, AssertionsHold
        <3> QED  BY <2>1, <3>1, <3>2, <1>sv, ClosingOpen
    <2>4. CASE UNCHANGED <<inputs, doomed, timerVars, chanVars, fault>>
        <3>1. UNCHANGED <<inputs, doomed, cache, beating, limits, readers, writers, announced, fault>>
            BY <2>4 DEF timerVars, chanVars
        <3>2. TypeOK' /\ Open' = Open
            BY <1>ty, <2>1, <3>1 DEF TypeOK, Open
        <3>3. AccountsMatchSockets'
            BY <2>1, <3>1, <3>2 DEF Inv, AccountsMatchSockets
        <3>4. DialsPending' /\ PeersKnown'
            BY <2>1 DEF Inv, DialsPending, PeersKnown
        <3> QED  BY <2>1, <3>1, <3>3, <3>4
                 DEF Inv, AssertionsHold, WritersOpen, WritersRead, AnnouncedMatchesWriters
    <2> QED  BY <1>11, <2>2, <2>3, <2>4 DEF ReadHandshake
<1>12. ASSUME NEW s \in Sid, ReadBadHandshake(s) PROVE Inv'
    <2>1. s \in Open
        BY <1>12, <1>ty DEF ReadBadHandshake
    <2>2. PICK p \in Plans(s) : CloseSocket(s, p)
        BY <1>12 DEF ReadBadHandshake
    <2>3. fault' \in Faults /\ AssertionsHold'
        BY <1>12 DEF ReadBadHandshake, EraseUnderRead, Faults, AssertionsHold
    <2> QED  BY <1>12, <1>sv, <2>1, <2>2, <2>3, ClosingOpen
             DEF ReadBadHandshake, ReadEvent, Serve, dialVars, peerVars
<1>13. ASSUME NEW s \in Sid, HandshakeExpired(s) PROVE Inv'
    <2>1. s \in Open
        BY <1>13, <1>ty DEF HandshakeExpired
    <2>2. PICK p \in Plans(s) : CloseSocket(s, p)
        BY <1>13 DEF HandshakeExpired
    <2>3. fault' = "none"
        BY <1>13, <1>nf, <2>1 DEF HandshakeExpired
    <2> QED  BY <1>13, <1>ft, <1>sv, <2>1, <2>2, <2>3, ClosingOpen
             DEF HandshakeExpired, stepVars, dialVars, peerVars, AssertionsHold
<1>14. ASSUME NEW s \in Sid, HeartbeatExpired(s) PROVE Inv'
    <2>1. s \in Open
        BY <1>14, <1>ty DEF HeartbeatExpired
    <2>2. PICK p \in Plans(s) : /\ DropAndReconnect(s, p)
                                /\ fault' = ReconnectFault(s) \/ fault' = "limits iterator invalidated"
        BY <1>14 DEF HeartbeatExpired
    <2>3. fault' \in Faults /\ AssertionsHold'
        BY <1>nf, <2>1, <2>2 DEF Faults, AssertionsHold
    <2> QED  BY <1>14, <1>sv, <2>1, <2>2, <2>3, Dropping DEF HeartbeatExpired, stepVars
<1>15. CASE Advance
    <2>1. /\ phase' = After(phase) /\ phase # "heartbeat" /\ served' = {}
          /\ UNCHANGED <<socks, raccounts, waccounts, inputs, doomed, connecting, cdoomed, deferred,
                         calls, cache, beating, limits, readers, writers, announced, peer, greeted, fault>>
        BY <1>15 DEF Advance, poolVars, dialVars, timerVars, chanVars, peerVars
    <2>2. phase' \in Phases /\ phase' # "listener" /\ (phase' = "connecting" => phase = "listener")
        BY <1>ty, <2>1 DEF TypeOK, Phases, After
    <2>3. TypeOK' /\ Open' = Open
        BY <1>ty, <2>1, <2>2 DEF TypeOK, Open
    <2>4. AccountsMatchSockets'
        BY <2>1, <2>3 DEF Inv, AccountsMatchSockets
    <2>5. DialsPending'
        BY <2>1, <2>2 DEF Inv, DialsPending
    <2> QED  BY <2>1, <2>4, <2>5 DEF Inv, AssertionsHold, WritersOpen, WritersRead,
                                     AnnouncedMatchesWriters, PeersKnown
<1>16. CASE ApplyRemove
    <2>1. /\ phase' = "listener" /\ served' = {} /\ cdoomed' = {} /\ doomed' = {}
          /\ connecting' = connecting \ cdoomed
          /\ raccounts' = raccounts \ doomed /\ waccounts' = waccounts \ doomed
          /\ socks' = [s \in Sid |-> IF s \in doomed THEN "none" ELSE socks[s]]
          /\ peer' = [s \in Sid |-> IF socks'[s] = "none" /\ s \notin connecting' THEN NoNode ELSE peer[s]]
          /\ greeted' = greeted \ doomed
          /\ UNCHANGED <<inputs, deferred, calls, cache, beating, limits, readers, writers, announced, fault>>
        BY <1>16 DEF ApplyRemove, In, After, ForgetPeers, timerVars, chanVars
    <2>2. Open' = Open \ doomed
        BY <1>ty, <2>1 DEF TypeOK, Open
    <2>3. TypeOK'
        BY <1>ty, <2>1 DEF TypeOK, Phases
    <2>4. AccountsMatchSockets'
        BY <2>1, <2>2, <2>3 DEF Inv, AccountsMatchSockets
    <2>5. PeersKnown' /\ DialsPending'
        BY <1>ty, <2>1 DEF Inv, PeersKnown, DialsPending, TypeOK
    <2>6. WritersOpen'
        BY <1>ty, <2>1, MeshNodeAssumption DEF Inv, WritersOpen, TypeOK
    <2> QED  BY <2>1, <2>4, <2>5, <2>6 DEF Inv, AssertionsHold, WritersRead, AnnouncedMatchesWriters
<1>17. CASE UNCHANGED vars
    BY <1>17 DEF Inv, AccountsMatchSockets, TypeOK, AssertionsHold, WritersOpen, WritersRead, Open,
        AnnouncedMatchesWriters, PeersKnown, DialsPending, vars, stepVars, poolVars, dialVars, timerVars,
        chanVars, peerVars
<1> QED  BY <1>1, <1>2, <1>3, <1>4, <1>5, <1>6, <1>7, <1>8, <1>9, <1>10, <1>11, <1>12, <1>13, <1>14,
            <1>15, <1>16, <1>17 DEF Next, Event

(* The strengthened invariant of the node. *)
LEMMA Invariant == Spec => []Inv
BY InvInit, InvNext, PTL DEF Spec

(* The pools, the input processor and the timers agree on the sockets that exist, in any
   order of callbacks and failures and for any number of sockets (node.hpp close_socket()
   and the apply_remove() calls that end step()). *)
THEOREM NodeAccounts == Spec => []AccountsMatchSockets
<1>1. Inv => AccountsMatchSockets
    BY DEF Inv
<1> QED  BY <1>1, Invariant, PTL

(* PFS__TERMINATE in schedule_reconnection() and PFS__ASSERT in close_channel() are never
   reached: a socket that fails is still in the pool, and serves one node. *)
THEOREM NodeAssertions == Spec => []AssertionsHold
<1>1. Inv => AssertionsHold
    BY DEF Inv
<1> QED  BY <1>1, Invariant, PTL

(* An entry of _writers is an open socket of that node which nobody has closed, so
   node::send() never queues on a dead or reused descriptor. *)
THEOREM NodeWriters == Spec => []WritersOpen
<1>1. Inv => WritersOpen
    BY DEF Inv
<1> QED  BY <1>1, Invariant, PTL

(* on_node_connected and on_node_disconnected follow the writers: the application was
   told it is connected to exactly the nodes it can send to. *)
THEOREM NodeAnnounced == Spec => []AnnouncedMatchesWriters
<1>1. Inv => AnnouncedMatchesWriters
    BY DEF Inv
<1> QED  BY <1>1, Invariant, PTL

(* A writer's socket always reads from the same node: close_channel()'s branch for a
   socket that only writes is never taken. *)
THEOREM NodeWritersRead == Spec => []WritersRead
<1>1. Inv => WritersRead
    BY DEF Inv
<1> QED  BY <1>1, Invariant, PTL

=============================================================================
