----------------------------- MODULE UdtSockets -----------------------------
(***************************************************************************)
(* The life of UDT sockets in one process (src/udt/newlib/api.cpp, queue.  *)
(* cpp and the connection half of core.cpp): CUDTUnited with its tables of *)
(* live and closed sockets, the multiplexers with the tables of their      *)
(* receiving queues, and the three kinds of thread that share them: the    *)
(* application, one CRcvQueue::worker per multiplexer, and the garbage     *)
(* collector.                                                              *)
(*                                                                         *)
(* A call or handler is one step, except where it gives up the locks in    *)
(* the middle of a change: app and worker then say where it stands.  The   *)
(* socket identifiers count down as m_SocketID does.  A multiplexer has    *)
(* the identifier of the socket it was made for; the listeners of the      *)
(* process are bound to one port, and connecting sockets each have their   *)
(* own.  A socket's timestamp is whether it is old enough (aged): calls    *)
(* and handlers take far less than the second that takes.  When a thread   *)
(* uses a socket that is gone the program's behaviour is undefined: fault  *)
(* records that, and that thread goes no further.                          *)
(***************************************************************************)
EXTENDS Integers, FiniteSets, FiniteSetsExt

CONSTANTS MaxSockets, \* bound on the sockets made
          AppSockets, \* bound on those the application makes
          Peers,      \* remote sockets asking for a connection
          Backlog     \* m_uiBackLog

ASSUME SocketsAssumption == /\ {MaxSockets, AppSockets, Backlog} \subseteq Nat \ {0}
                            /\ 0 \notin Peers /\ Peers # {}

Ids  == 1 .. MaxSockets
None == 0

VARIABLES nextId,     \* m_SocketID
          sock,       \* id -> the CUDTSocket and its CUDT
          queued,     \* id -> m_pQueuedSockets
          ready,      \* listeners in m_sUDTReads of the application's epoll
          watched,    \* sockets in its m_sUDTSocksIn
          refs,       \* mux -> m_iRefCount, 0 when the multiplexer does not exist
          port,       \* the multiplexer with the listeners' port
          listener,   \* mux -> m_pListener
          connectors, \* m_lRendezvousID of all multiplexers
          newEntry,   \* m_vNewEntry
          rcvList,    \* m_pRcvUList and m_pHash
          worker,     \* mux -> where its worker stands
          app,        \* where the application stands
          handles,    \* sockets the application holds
          fault,      \* what was used after it had gone
          missed      \* connections queued while the listener was not watched (history)

tables == <<queued, ready, watched, refs, port, listener, connectors, newEntry, rcvList>>
vars   == <<nextId, sock, tables, worker, app, handles, fault, missed>>

Idle == [at |-> "idle", s |-> None, p |-> None]
At(where, s, p) == [at |-> where, s |-> s, p |-> p]

\* What CUDTSocket() and CUDT() leave: place is the table that holds it.
Fresh == [place |-> "none", status |-> "INIT", mux |-> None, lsn |-> None, peer |-> None,
          opened |-> FALSE, connecting |-> FALSE, connected |-> FALSE, listening |-> FALSE,
          closing |-> FALSE, broken |-> FALSE, onList |-> FALSE, linger |-> FALSE,
          aged |-> FALSE]

Init == /\ nextId = MaxSockets + 1
        /\ sock = [s \in Ids |-> Fresh]
        /\ queued = [s \in Ids |-> {}]
        /\ refs = [m \in Ids |-> 0] /\ port = None
        /\ listener = [m \in Ids |-> None]
        /\ ready = {} /\ watched = {} /\ connectors = {}
        /\ newEntry = {} /\ rcvList = {} /\ handles = {}
        /\ worker = [m \in Ids |-> Idle] /\ app = Idle /\ fault = "no" /\ missed = {}

Exists(s)  == sock[s].place \in {"made", "live", "closed"}
Located(s) == sock[s].place = "live" /\ sock[s].status # "CLOSED"   \* locate()
Doomed(s)  == Exists(s) /\ (sock[s].broken \/ sock[s].place = "closed")
Working(s) == sock[s].connected /\ ~sock[s].broken /\ ~sock[s].closing

-----------------------------------------------------------------------------
\* The application's thread.

NewSocket ==
    /\ app = Idle /\ nextId > Max({1, MaxSockets + 1 - AppSockets})
    /\ nextId' = nextId - 1
    /\ sock' = [sock EXCEPT ![nextId - 1].place = "live"]
    /\ handles' = handles \cup {nextId - 1}
    /\ UNCHANGED <<tables, worker, app, fault, missed>>

\* Fault: a multiplexer that is found again is not counted.
ReferUncounted(m) == [refs EXCEPT ![m] = IF @ = 0 THEN 1 ELSE @]
\* updateMux(): one more socket uses multiplexer m, which is made if need be.
Refer(m) == [refs EXCEPT ![m] = @ + 1]

\* A listener's bind(): the multiplexer of the port is shared if there is one.
Bind(s) ==
    LET m == IF port = None THEN s ELSE port
    IN  /\ app = Idle /\ s \in handles /\ Located(s) /\ sock[s].status = "INIT"
        /\ sock' = [sock EXCEPT ![s].status = "OPENED", ![s].opened = TRUE, ![s].mux = m]
        /\ refs' = Refer(m) /\ port' = m
        /\ UNCHANGED <<nextId, queued, ready, watched, listener, connectors, newEntry,
                       rcvList, worker, app, handles, fault, missed>>

\* listen(); it fails, and changes nothing, beside another listener of the port.
Listen(s) ==
    /\ app = Idle /\ s \in handles /\ Located(s) /\ sock[s].status = "OPENED"
    /\ listener[sock[s].mux] = None
    /\ listener' = [listener EXCEPT ![sock[s].mux] = s]
    /\ sock' = [sock EXCEPT ![s].status = "LISTENING", ![s].listening = TRUE]
    /\ UNCHANGED <<nextId, queued, ready, watched, refs, port, connectors, newEntry,
                   rcvList, worker, app, handles, fault, missed>>

\* epoll_add_usock(), which listener_pool::listen() calls next.
Watch(s) ==
    /\ app = Idle /\ s \in handles \ watched /\ Located(s) /\ sock[s].status = "LISTENING"
    /\ watched' = watched \cup {s}
    /\ UNCHANGED <<nextId, sock, queued, ready, refs, port, listener, connectors,
                   newEntry, rcvList, worker, app, handles, fault, missed>>

\* connect() of an unbound socket, up to the request that is sent ...
Connect(s) ==
    /\ app = Idle /\ s \in handles /\ Located(s) /\ sock[s].status = "INIT"
    /\ sock' = [sock EXCEPT ![s].status = "CONNECTING", ![s].opened = TRUE, ![s].mux = s]
    /\ refs' = Refer(s)
    /\ connectors' = connectors \cup {s}
    /\ app' = At("connect", s, None)
    /\ UNCHANGED <<nextId, queued, ready, watched, port, listener, newEntry, rcvList,
                   worker, handles, fault, missed>>

\* ... and m_bConnecting, set after that.
Connecting ==
    /\ app.at = "connect"
    /\ sock' = [sock EXCEPT ![app.s].connecting = TRUE]
    /\ app' = Idle
    /\ UNCHANGED <<nextId, tables, worker, handles, fault, missed>>

\* accept() takes the first queued connection, if any, under m_AcceptLock ...
Accept(l) ==
    /\ app = Idle /\ l \in handles /\ Located(l) /\ sock[l].status = "LISTENING"
    /\ ~sock[l].broken
    /\ LET u    == IF queued[l] = {} THEN None ELSE Min(queued[l])
           rest == queued[l] \ {u}
       IN  /\ queued' = [queued EXCEPT ![l] = rest]
           /\ ready' = IF rest = {} THEN ready \ {l} ELSE ready
           /\ missed' = missed \ {u}
           /\ app' = IF u = None THEN Idle ELSE At("accept", u, None)
    /\ UNCHANGED <<nextId, sock, watched, refs, port, listener, connectors, newEntry,
                   rcvList, worker, handles, fault>>

\* ... and then uses what locate() finds, without asking whether it did.
Accepted ==
    /\ app.at = "accept"
    /\ IF Located(app.s)
       THEN handles' = handles \cup {app.s} /\ app' = Idle /\ UNCHANGED fault
       ELSE fault' = "accept" /\ UNCHANGED <<handles, app>>
    /\ UNCHANGED <<nextId, sock, tables, worker, missed>>

\* CUDT::close() of a socket that has nothing left to send.
Shut(r) == IF r.opened
           THEN [r EXCEPT !.closing = TRUE, !.listening = FALSE, !.connected = FALSE, !.opened = FALSE]
           ELSE r
\* Those of S that CUDT::close() takes out of the tables of the receiving queue.
Unregister(S) == connectors \ {s \in S : sock[s].opened /\ sock[s].connecting}
Unlisten(S)   == [m \in Ids |-> IF listener[m] \in S THEN None ELSE listener[m]]

\* listener_pool::apply_remove(): the epoll forgets the listener, and close() only marks it.
CloseListener(s) ==
    /\ app = Idle /\ s \in handles /\ Located(s) /\ sock[s].status = "LISTENING"
    /\ ready' = ready \ {s} /\ watched' = watched \ {s}
    /\ sock' = [sock EXCEPT ![s].broken = TRUE, ![s].aged = FALSE]
    /\ handles' = handles \ {s}
    /\ UNCHANGED <<nextId, queued, refs, port, listener, connectors, newEntry, rcvList, worker,
                   app, fault, missed>>

\* close() of another socket.  With unsent data it lingers, as sending does not block ...
Close(s) ==
    /\ app = Idle /\ s \in handles /\ Located(s) /\ sock[s].status # "LISTENING"
    /\ \/ /\ sock[s].connected /\ ~sock[s].broken
          /\ sock' = [sock EXCEPT ![s].linger = TRUE]
          /\ UNCHANGED connectors
       \/ /\ sock' = [sock EXCEPT ![s] = Shut(@)]
          /\ connectors' = Unregister({s})
    /\ handles' = handles \ {s} /\ app' = At("close", s, None)
    /\ UNCHANGED <<nextId, queued, ready, watched, refs, port, listener, newEntry,
                   rcvList, worker, fault, missed>>

\* ... and the socket moves to m_ClosedSockets, unless the collector moved it first.
Closed ==
    /\ app.at = "close"
    /\ sock' = IF Located(app.s)
               THEN [sock EXCEPT ![app.s].status = "CLOSED", ![app.s].aged = FALSE, ![app.s].place = "closed"]
               ELSE sock
    /\ app' = Idle
    /\ UNCHANGED <<nextId, tables, worker, handles, fault, missed>>

\* close() of a socket that the collector closed is an error; the handle is given up.
CloseGone(s) ==
    /\ app = Idle /\ s \in handles /\ ~Located(s)
    /\ handles' = handles \ {s}
    /\ UNCHANGED <<nextId, sock, tables, worker, app, fault, missed>>

-----------------------------------------------------------------------------
\* The worker of multiplexer m.

\* The new sockets enter the list and the hash at the head of the loop.
NewEntries(m) ==
    LET new == {s \in newEntry : sock[s].mux = m}
    IN  /\ worker[m] = Idle /\ new # {}
        /\ rcvList' = rcvList \cup new
        /\ newEntry' = newEntry \ new
        /\ UNCHANGED <<nextId, sock, queued, ready, watched, refs, port, listener, connectors,
                       worker, app, handles, fault, missed>>

\* A request with a good cookie: CUDT::listen() of m_pListener is entered.
Request(m, p) ==
    /\ nextId > 1 /\ refs[m] > 0 /\ worker[m] = Idle /\ listener[m] # None
    /\ worker' = [worker EXCEPT ![m] = At("listen", listener[m], p)]
    /\ UNCHANGED <<nextId, sock, tables, app, handles, fault, missed>>

\* locate() of the peer's earlier connection: the first of them in m_Sockets.
Earlier(p) == LET S == {s \in Ids : sock[s].place = "live" /\ sock[s].peer = p}
              IN  IF S = {} THEN {} ELSE {Min(S)}

\* newConnection() that makes none: the listener is gone, the connection exists already, or
\* (a broken old one struck out) the queue is full or no socket can be made.
Refuse(m) ==
    LET l == worker[m].s
        old == {s \in Earlier(worker[m].p) : sock[s].broken}
    IN  /\ worker[m].at = "listen"
        /\ \/ /\ ~Located(l) \/ Earlier(worker[m].p) \ old # {}
              /\ UNCHANGED <<sock, queued>>
           \/ /\ Located(l) /\ Earlier(worker[m].p) \subseteq old
              /\ Cardinality(queued[l] \ old) >= Backlog \/ nextId = 1
              /\ sock' = [s \in Ids |-> IF s \in old THEN [sock[s] EXCEPT !.status = "CLOSED", !.aged = FALSE]
                                                     ELSE sock[s]]
              /\ queued' = [queued EXCEPT ![l] = @ \ old]
        /\ worker' = [worker EXCEPT ![m] = Idle]
        /\ UNCHANGED <<nextId, ready, watched, refs, port, listener, connectors, newEntry,
                       rcvList, app, handles, fault, missed>>

\* CUDT::connect() of the new socket, with the multiplexer of its listener.
Answered(m, l, p) ==
    [Fresh EXCEPT !.place = "made", !.status = "CONNECTED", !.mux = m, !.lsn = l, !.peer = p,
                  !.opened = TRUE, !.connected = TRUE, !.onList = TRUE]

\* newConnection() up to CUDT::connect(), which answers the peer ...
Make(m) ==
    LET l  == worker[m].s
        p  == worker[m].p
        ns == nextId - 1
    IN  /\ worker[m].at = "listen" /\ Located(l) /\ nextId > 1
        /\ \A s \in Earlier(p) : sock[s].broken
        /\ Cardinality(queued[l] \ Earlier(p)) < Backlog
        /\ nextId' = ns
        /\ sock' = [s \in Ids |->
             IF s = ns THEN Answered(m, l, p)
             ELSE IF s \in Earlier(p) THEN [sock[s] EXCEPT !.status = "CLOSED", !.aged = FALSE] ELSE sock[s]]
        /\ queued' = [queued EXCEPT ![l] = @ \ Earlier(p)]
        /\ refs' = Refer(m)
        /\ newEntry' = newEntry \cup {ns}
        /\ worker' = [worker EXCEPT ![m] = At("made", ns, p)]
        /\ UNCHANGED <<ready, watched, port, listener, connectors, rcvList, app, handles, fault, missed>>

\* Fault: the event is set before the connection is in the queue.
PublishEarly == <<"announce", "enqueue">>
\* The order in which newConnection() makes the connection known.
Publish == <<"enqueue", "announce">>

\* ... then m_Sockets, under m_ControlLock ...
Insert(m) ==
    /\ worker[m].at = "made"
    /\ sock' = [sock EXCEPT ![worker[m].s].place = "live"]
    /\ worker' = [worker EXCEPT ![m].at = Publish[1]]
    /\ UNCHANGED <<nextId, tables, app, handles, fault, missed>>

After(m) == IF worker[m].at = Publish[1] THEN [worker[m] EXCEPT !.at = Publish[2]] ELSE Idle

\* ... then the listener's queue, under m_AcceptLock ...
Enqueue(m) ==
    /\ worker[m].at = "enqueue"
    /\ queued' = [queued EXCEPT ![sock[worker[m].s].lsn] = @ \cup {worker[m].s}]
    /\ worker' = [worker EXCEPT ![m] = After(m)]
    /\ UNCHANGED <<nextId, sock, ready, watched, refs, port, listener, connectors, newEntry,
                   rcvList, app, handles, fault, missed>>

\* ... and update_events() of the listener.
Announce(m) ==
    LET l == sock[worker[m].s].lsn
    IN  /\ worker[m].at = "announce"
        /\ IF l \in watched THEN ready' = ready \cup {l} /\ UNCHANGED missed
                            ELSE missed' = missed \cup {worker[m].s} /\ UNCHANGED ready
        /\ worker' = [worker EXCEPT ![m] = After(m)]
        /\ UNCHANGED <<nextId, sock, queued, watched, refs, port, listener, connectors, newEntry,
                       rcvList, app, handles, fault>>

\* The peer's answer to socket s of m, CUDT::connect(response): a socket that does not
\* connect any more is forgotten, and so is one that does when the packet is not the
\* answer to a handshake ...
Answer(s) ==
    LET m == sock[s].mux
    IN  /\ s \in connectors /\ worker[m] = Idle
        /\ connectors' = connectors \ {s}
        /\ \/ /\ sock[s].connecting
              /\ sock' = [sock EXCEPT ![s].connecting = FALSE, ![s].connected = TRUE, ![s].onList = TRUE]
              /\ newEntry' = newEntry \cup {s}
              /\ worker' = [worker EXCEPT ![m] = At("complete", s, None)]
           \/ UNCHANGED <<sock, newEntry, worker>>
        /\ UNCHANGED <<nextId, queued, ready, watched, refs, port, listener, rcvList, app,
                       handles, fault, missed>>

\* ... and connect_complete() throws, in the worker, when it is closed by now.
Complete(m) ==
    LET s == worker[m].s
    IN  /\ worker[m].at = "complete"
        /\ IF Located(s)
           THEN /\ sock' = [sock EXCEPT ![s].status = "CONNECTED"]
                /\ worker' = [worker EXCEPT ![m] = Idle]
                /\ UNCHANGED fault
           ELSE fault' = "complete" /\ UNCHANGED <<sock, worker>>
        /\ UNCHANGED <<nextId, tables, app, handles, missed>>

\* updateConnStatus(): a connector whose time is up stays in the queue.
Expire(s) ==
    /\ s \in connectors /\ sock[s].connecting /\ worker[sock[s].mux] = Idle
    /\ sock' = [sock EXCEPT ![s].connecting = FALSE]
    /\ UNCHANGED <<nextId, queued, ready, watched, refs, port, listener, connectors, newEntry,
                   rcvList, worker, app, handles, fault, missed>>

\* processCtrl() of a shutdown, or checkTimers() of a silent peer.
Break(s) ==
    /\ s \in rcvList /\ Working(s) /\ worker[sock[s].mux] = Idle
    /\ sock' = [sock EXCEPT ![s].closing = TRUE, ![s].broken = TRUE]
    /\ UNCHANGED <<nextId, tables, worker, app, handles, fault, missed>>

\* Fault: only a broken socket leaves the list, not one that closed.
DroppableBroken(s) == sock[s].broken
\* The sockets that the worker's timer check takes off its list.
Droppable(s) == ~Working(s)
Drop(s) ==
    /\ s \in rcvList /\ Droppable(s) /\ worker[sock[s].mux] = Idle
    /\ rcvList' = rcvList \ {s}
    /\ sock' = [sock EXCEPT ![s].onList = FALSE]
    /\ UNCHANGED <<nextId, queued, ready, watched, refs, port, listener, connectors,
                   newEntry, worker, app, handles, fault, missed>>

-----------------------------------------------------------------------------
\* The garbage collector and time.

\* Fault: a closed socket is deleted although a worker's list still holds it.
RemovableEarly(r) == r.place = "closed" /\ r.aged
\* The closed sockets that have waited, and that no worker's list holds any more.
Removable(r) == r.place = "closed" /\ r.aged /\ ~r.onList

\* Broken sockets close: a listener after 3 s, a connection when it has no unread data or was
\* granted time enough for them (m_iBrokenCounter).  busy are the connections with data.
Due(s, busy) == /\ sock[s].place = "live" /\ sock[s].broken
                /\ IF sock[s].status = "LISTENING" THEN sock[s].aged ELSE s \notin busy

\* The first two loops of checkBrokenSockets(), socket by socket: a socket that lingers is
\* marked when its data are sent, or m_ullLingerExpiration has come.
Collected(s, busy) ==
    CASE Due(s, busy) -> [sock[s] EXCEPT !.status = "CLOSED", !.aged = FALSE, !.place = "closed"]
      [] sock[s].place = "closed" /\ sock[s].linger /\ s \notin busy
             -> [sock[s] EXCEPT !.linger = FALSE, !.closing = TRUE, !.aged = FALSE]
      [] OTHER -> sock[s]

\* checkBrokenSockets() with removeSocket() of everything removable, under m_ControlLock:
\* the connections still queued at a listener that goes are closed with it.
Collect(busy) ==
    LET due     == {s \in Ids : Due(s, busy)}
        gone    == {s \in Ids : Removable(Collected(s, busy))}
        kept    == [l \in Ids |-> queued[l] \ due]
        orphans == UNION {kept[l] : l \in gone}
        left    == [m \in Ids |-> refs[m] - Cardinality({s \in gone : sock[s].mux = m})]
    IN  /\ {s \in Ids : Doomed(s)} # {}
        /\ UNCHANGED <<nextId, ready, watched, worker, app, handles>>
        /\ sock' = [s \in Ids |->
             IF s \in gone THEN [Fresh EXCEPT !.place = "deleted"]
             ELSE IF s \in orphans
             THEN [Shut(sock[s]) EXCEPT !.broken = TRUE, !.status = "CLOSED", !.place = "closed", !.aged = FALSE]
             ELSE Collected(s, busy)]
        /\ queued' = [l \in Ids |-> IF l \in gone THEN {} ELSE kept[l]]
        /\ refs' = left
        /\ port' = IF port # None /\ left[port] = 0 THEN None ELSE port
        /\ listener' = Unlisten(gone)
        /\ connectors' = {s \in connectors : left[sock[s].mux] > 0} \cap Unregister(gone)
        /\ newEntry' = {s \in newEntry : left[sock[s].mux] > 0}
        /\ rcvList' = {s \in rcvList : left[sock[s].mux] > 0}
        \* a worker is in CUDT::listen() of the listener that is deleted, or happens to be
        \* in updateConnStatus() with the connector
        /\ IF \E m \in Ids : worker[m].at = "listen" /\ worker[m].s \in gone
           THEN fault' = "listener"
           ELSE fault' \in {fault} \cup (IF connectors \cap gone # {} THEN {"connector"} ELSE {})
        /\ missed' = missed \ gone

\* A second passes for a socket that waits to be closed or deleted.
Age(s) ==
    /\ sock[s].place = "closed" \/ (sock[s].place = "live" /\ sock[s].broken /\ sock[s].status = "LISTENING")
    /\ ~sock[s].aged /\ app = Idle /\ \A m \in Ids : worker[m] = Idle
    /\ sock' = [sock EXCEPT ![s].aged = TRUE]
    /\ UNCHANGED <<nextId, tables, worker, app, handles, fault, missed>>

AppNext == \/ NewSocket \/ Connecting \/ Accepted \/ Closed
           \/ \E s \in Ids : \/ Bind(s) \/ Listen(s) \/ Watch(s) \/ Connect(s) \/ Accept(s)
                             \/ CloseListener(s) \/ Close(s) \/ CloseGone(s)
WorkerNext == \/ \E m \in Ids : \/ NewEntries(m) \/ Refuse(m) \/ Make(m) \/ Insert(m) \/ Enqueue(m)
                                \/ Announce(m) \/ Complete(m) \/ \E p \in Peers : Request(m, p)
              \/ \E s \in Ids : Answer(s) \/ Expire(s) \/ Drop(s) \/ Break(s)
Next == \/ AppNext \/ WorkerNext
        \/ \E busy \in SUBSET {s \in Ids : Doomed(s) /\ sock[s].connected} : Collect(busy)
        \/ \E s \in Ids : Age(s)

-----------------------------------------------------------------------------
(* Every continuation of a call or handler runs; the collector, the workers' timer      *)
(* checks and time itself go on however busy the threads are.                           *)
Continue(m) == Refuse(m) \/ Make(m) \/ Insert(m) \/ Enqueue(m) \/ Announce(m) \/ Complete(m)
Fairness == /\ WF_vars(Connecting \/ Accepted \/ Closed)
            /\ \A m \in Ids : WF_vars(Continue(m))
            /\ WF_vars(Collect({}))
            /\ SF_vars(\E s \in Ids : NewEntries(s) \/ Drop(s) \/ Age(s))

Spec == Init /\ [][Next]_vars /\ Fairness

-----------------------------------------------------------------------------
(* No table of a multiplexer holds a socket that was deleted, or one of a multiplexer   *)
(* that is gone: the list and hash of the worker hold exactly the sockets marked        *)
(* m_bOnList, which is what the collector waits for (api.cpp:1302), and m_pListener and *)
(* the rendezvous queue are left before a socket goes.  A queued connection is in       *)
(* m_Sockets, where removeSocket() looks for it unchecked (api.cpp:1336).               *)
TablesLive ==
    /\ \A s \in Ids : (s \in newEntry \cup rcvList) <=> (Exists(s) /\ sock[s].onList)
    /\ \A s \in newEntry \cup rcvList \cup connectors : Exists(s) /\ refs[sock[s].mux] > 0
    /\ \A m \in Ids : listener[m] # None => Exists(listener[m]) /\ sock[listener[m]].mux = m
    /\ \A l \in Ids : \A q \in queued[l] : Exists(l) /\ sock[q].place = "live" /\ sock[q].lsn = l

(* A multiplexer is counted once for every socket that still uses it, so its queues and *)
(* threads go with the last of them and not before (api.cpp:1376).                      *)
MuxCounted == \A m \in Ids : refs[m] = Cardinality({s \in Ids : Exists(s) /\ sock[s].mux = m})

(* While a listener has a connection to accept that came since it is watched, its event *)
(* is set, or the worker is about to set it: accept() and newConnection() race for the  *)
(* event outside a common lock (api.cpp:689, 437).                                      *)
QueueAnnounced ==
    \A l \in Ids : Located(l) /\ ~sock[l].broken /\ queued[l] \ missed # {}
        => l \in ready \/ \E m \in Ids : worker[m].at = "announce" /\ worker[m].s \in queued[l]

(* Whatever broke or was closed is deleted in the end: as only so many sockets are      *)
(* made, there is again and again none left that waits to be, unless the program runs   *)
(* into one of the faults.                                                              *)
EventuallyDeleted == []<>(fault # "no" \/ \A s \in Ids : ~Doomed(s))
=============================================================================
