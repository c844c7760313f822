------------------------- MODULE UdtSockets_proofs -------------------------
(***************************************************************************)
(* Proofs about UdtSockets, for every number of sockets and peers and      *)
(* every backlog: the tables of the multiplexers hold no socket that was   *)
(* deleted, every multiplexer is counted exactly, and no connection waits  *)
(* to be accepted without its event.  None of the three is inductive: each *)
(* rests on who may still reach a socket, which the parts below say.       *)
(***************************************************************************)
EXTENDS UdtSockets, FiniteSetTheorems, WellFoundedInduction, TLAPS

Places   == {"none", "made", "live", "closed", "deleted"}
Statuses == {"INIT", "OPENED", "LISTENING", "CONNECTING", "CONNECTED", "CLOSED"}
Sockets  == [place : Places, status : Statuses, mux : Ids \cup {None}, lsn : Ids \cup {None},
             peer : Peers \cup {None}, opened : BOOLEAN, connecting : BOOLEAN,
             connected : BOOLEAN, listening : BOOLEAN, closing : BOOLEAN, broken : BOOLEAN,
             onList : BOOLEAN, linger : BOOLEAN, aged : BOOLEAN]
Standing(where) == {Idle} \cup [at : where, s : Ids, p : Peers \cup {None}]

TypeOK ==
    /\ nextId \in 1 .. MaxSockets + 1
    /\ sock \in [Ids -> Sockets]
    /\ queued \in [Ids -> SUBSET Ids]
    /\ refs \in [Ids -> Nat]
    /\ port \in Ids \cup {None}
    /\ listener \in [Ids -> Ids \cup {None}]
    /\ worker \in [Ids -> Standing({"listen", "made", "enqueue", "announce", "complete"})]
    /\ app \in Standing({"connect", "accept", "close"})
    /\ connectors \subseteq Ids /\ newEntry \subseteq Ids /\ rcvList \subseteq Ids
    /\ handles \subseteq Ids

(* An identifier that was not given out yet names nothing. *)
Unused(s) == s < nextId => sock[s] = Fresh /\ s \notin handles /\ app.s # s

(* The lists of the workers hold the sockets marked m_bOnList, each on one of them and with
   a multiplexer. *)
Listed(s) == /\ s \in newEntry \cup rcvList <=> Exists(s) /\ sock[s].onList
             /\ s \notin newEntry \cap rcvList
             /\ Exists(s) /\ sock[s].onList => sock[s].mux \in Ids

(* m_pListener is a socket of the multiplexer. *)
Heard(m) == listener[m] # None => Exists(listener[m]) /\ sock[listener[m]].mux = m

(* The multiplexer named after s was not made yet. *)
NoMux(s) == /\ port # s /\ listener[s] = None /\ worker[s] = Idle
            /\ \A t \in Ids : sock[t].mux # s \/ ~Exists(t)

(* bind() and connect() are the only ways to a multiplexer. *)
Unbound(s) == sock[s].place \in {"none", "live"} /\ sock[s].status = "INIT"
                  => NoMux(s) /\ sock[s].mux = None /\ ~sock[s].onList /\ s \notin connectors

(* A connecting socket has a multiplexer to itself, with no listener: nobody else can be
   given it, and it goes with the socket. *)
Connector(s) ==
    s \in connectors =>
        /\ Exists(s) /\ sock[s].mux = s /\ ~sock[s].onList
        /\ sock[s].status \notin {"INIT", "OPENED"}
        /\ port # s /\ listener[s] = None /\ worker[s] = Idle
        /\ \A t \in Ids : Exists(t) /\ sock[t].mux = s => t = s

(* While newConnection() has a socket in hand nobody else has: it is in no queue, the
   application cannot name it, and its worker, which would break it, is busy.  Its
   listener cannot be deleted under it: a second does not pass in the middle of a call. *)
InHand(m) ==
    LET q == worker[m].s
        l == sock[q].lsn
    IN  worker[m].at \in {"made", "enqueue"} =>
            /\ sock[q].place = IF worker[m].at = "made" THEN "made" ELSE "live"
            /\ sock[q].mux = m /\ sock[q].status # "INIT" /\ ~sock[q].broken
            /\ q \notin handles /\ app.s # q /\ \A k \in Ids : q \notin queued[k]
            /\ l \in Ids /\ (sock[l].place = "live" \/ (sock[l].place = "closed" /\ ~sock[l].aged))

(* A queued connection is live, its listener is a socket that was inserted, and the
   application cannot name it before accept() returned it. *)
Queued(l) == \A q \in queued[l] : /\ sock[l].place \in {"live", "closed"}
                                  /\ sock[q].place = "live" /\ sock[q].lsn = l
                                  /\ q \notin handles /\ app.s # q

(* The event of the listener is set for every connection it has to accept, or the worker
   that queued that connection is about to set it. *)
Event(l) == Located(l) /\ ~sock[l].broken =>
                \A q \in queued[l] \ missed :
                    l \in ready \/ \E m \in Ids : worker[m].at = "announce" /\ worker[m].s = q

Multiplexed == /\ MuxCounted
               /\ \A s \in Ids : Unused(s) /\ Listed(s) /\ Heard(s) /\ Unbound(s) /\ Connector(s)
Accepting   == \A s \in Ids : InHand(s) /\ Queued(s) /\ Event(s)

Inv == TypeOK /\ Multiplexed /\ Accepting

-----------------------------------------------------------------------------
(* What the invariant gives *)

Users(m) == {s \in Ids : Exists(s) /\ sock[s].mux = m}

LEMMA IdsFinite == IsFiniteSet(Ids) /\ Ids \subseteq Nat /\ 0 \notin Ids
<1>1. MaxSockets \in Nat
    BY SocketsAssumption
<1>2. IsFiniteSet(1 .. MaxSockets)
    BY <1>1, FS_Interval
<1> QED  BY <1>1, <1>2 DEF Ids

(* A multiplexer that a socket uses is counted. *)
LEMMA UsedCounted ==
    ASSUME Inv, NEW s \in Ids, Exists(s), sock[s].mux \in Ids
    PROVE  refs[sock[s].mux] > 0
<1> DEFINE U == Users(sock[s].mux)
<1>1. U \subseteq Ids /\ s \in U
    BY DEF Users
<1>2. IsFiniteSet(U)
    BY <1>1, IdsFinite, FS_Subset
<1>3. Cardinality(U) \in Nat /\ Cardinality(U) # 0
    BY <1>1, <1>2, FS_CardinalityType, FS_EmptySet
<1>4. refs[sock[s].mux] = Cardinality(U)
    BY DEF Inv, Multiplexed, MuxCounted, Users
<1> QED  BY <1>3, <1>4

LEMMA InvTables == Inv => TablesLive
<1> SUFFICES ASSUME Inv PROVE TablesLive
    OBVIOUS
<1>1. TypeOK /\ \A s \in Ids : Listed(s) /\ Heard(s) /\ Connector(s) /\ Queued(s)
    BY DEF Inv, Multiplexed, Accepting
<1>2. \A s \in newEntry \cup rcvList \cup connectors : s \in Ids /\ Exists(s) /\ sock[s].mux \in Ids
    BY <1>1 DEF Listed, Connector, TypeOK
<1>3. \A s \in newEntry \cup rcvList \cup connectors : Exists(s) /\ refs[sock[s].mux] > 0
    BY <1>2, UsedCounted
<1>4. \A s \in Ids : (s \in newEntry \cup rcvList) <=> (Exists(s) /\ sock[s].onList)
    BY <1>1 DEF Listed
<1>5. \A m \in Ids : listener[m] # None => Exists(listener[m]) /\ sock[listener[m]].mux = m
    BY <1>1 DEF Heard
<1>6. \A l \in Ids : \A q \in queued[l] : Exists(l) /\ sock[q].place = "live" /\ sock[q].lsn = l
    BY <1>1 DEF Queued, Exists
<1> QED  BY <1>3, <1>4, <1>5, <1>6 DEF TablesLive

LEMMA InvQueue == Inv => QueueAnnounced
    BY DEF Inv, Accepting, Event, QueueAnnounced

(* No identifier is given out, no socket uses a multiplexer yet, and no thread is started. *)
LEMMA InvInit == Init => Inv
<1> SUFFICES ASSUME Init PROVE Inv
    OBVIOUS
<1>1. MaxSockets \in Nat /\ MaxSockets + 1 \in 1 .. MaxSockets + 1
    BY SocketsAssumption
<1>2. Fresh \in Sockets /\ \A s \in Ids : sock[s] = Fresh
    BY DEF Init, Fresh, Sockets, Places, Statuses
<1>3. TypeOK
    BY <1>1, <1>2 DEF Init, TypeOK, Standing
<1>4. \A s \in Ids : ~Exists(s) /\ sock[s].mux = None
    BY <1>2 DEF Exists, Fresh
<1>5. MuxCounted
    <2>1. \A m \in Ids : {s \in Ids : Exists(s) /\ sock[s].mux = m} = {}
        BY <1>4
    <2> QED  BY <2>1, FS_EmptySet DEF MuxCounted, Init
<1>6. \A s \in Ids : /\ worker[s] = Idle /\ worker[s].at = "idle" /\ app.s \notin Ids
                     /\ queued[s] = {} /\ listener[s] = None /\ port # s
    BY IdsFinite DEF Init, Idle, None
<1>7. ASSUME NEW s \in Ids
      PROVE  Unused(s) /\ Listed(s) /\ Heard(s) /\ Unbound(s) /\ Connector(s)
    BY <1>2, <1>4, <1>6, IdsFinite
       DEF Init, Unused, Listed, Heard, Unbound, Connector, NoMux, Fresh
<1>8. \A s \in Ids : InHand(s) /\ Queued(s) /\ Event(s)
    BY <1>6 DEF InHand, Queued, Event
<1> QED  BY <1>3, <1>5, <1>7, <1>8 DEF Inv, Multiplexed, Accepting

-----------------------------------------------------------------------------
(* Steps that leave the tables of the multiplexers alone *)

(* No socket is made, deleted or given a multiplexer, and no thread starts to work for a
   multiplexer without listener. *)
Gentle ==
    /\ UNCHANGED <<nextId, refs, port, listener, newEntry, rcvList>>
    /\ connectors' \subseteq connectors
    /\ \A s \in Ids :
          /\ sock'[s].mux = sock[s].mux /\ sock'[s].onList = sock[s].onList
          /\ Exists(s)' <=> Exists(s)
          /\ sock'[s].place \in {"none", "live"} /\ sock'[s].status = "INIT"
                => sock[s].place \in {"none", "live"} /\ sock[s].status = "INIT"
          /\ sock'[s].status # sock[s].status => sock'[s].status \notin {"INIT", "OPENED"}
          /\ s < nextId => sock'[s] = sock[s] /\ s \notin handles' /\ app'.s # s
          /\ worker[s] = Idle /\ listener[s] = None => worker'[s] = Idle

LEMMA GentleKeeps ==
    ASSUME Inv, TypeOK', Gentle
    PROVE  Multiplexed'
<1>1. /\ TypeOK /\ MuxCounted
    BY DEF Inv, Multiplexed
<1>2. ASSUME NEW s \in Ids
      PROVE  Unused(s) /\ Listed(s) /\ Heard(s) /\ Unbound(s) /\ Connector(s)
    BY DEF Inv, Multiplexed
<1>3. MuxCounted'
    <2>1. \A m \in Ids : {s \in Ids : Exists(s)' /\ sock'[s].mux = m} = {s \in Ids : Exists(s) /\ sock[s].mux = m}
        BY DEF Gentle
    <2> QED  BY <2>1, <1>1 DEF Gentle, MuxCounted
<1>4. ASSUME NEW s \in Ids
      PROVE  Unused(s)' /\ Listed(s)' /\ Heard(s)'
    BY <1>1, <1>2 DEF Gentle, Unused, Listed, Heard, TypeOK
<1>5. ASSUME NEW s \in Ids
      PROVE  Unbound(s)' /\ Connector(s)'
    BY <1>1, <1>2, SMTT(20) DEF Gentle, Unbound, Connector, NoMux, TypeOK
<1> QED  BY <1>3, <1>4, <1>5 DEF Multiplexed

(* The queues stay, no thread takes a new socket in hand or lets go of one, the
   application reaches no socket that someone else has, and whoever closes or breaks a
   socket may do so. *)
Quiet ==
    /\ UNCHANGED <<queued, missed>>
    /\ \A m \in Ids : \/ worker'[m] = worker[m]
                      \/ /\ worker[m].at \notin {"made", "enqueue", "announce"}
                         /\ worker'[m].at \notin {"made", "enqueue", "announce"}
    /\ \A s \in Ids :
          /\ s \in handles' \/ app'.s = s => s \in handles \/ app.s = s \/ sock[s].place = "none"
          /\ sock'[s].lsn = sock[s].lsn
          /\ sock'[s].mux = sock[s].mux \/ s \in handles
          /\ sock'[s].status = "INIT" => sock[s].status = "INIT"
          /\ sock'[s].place # sock[s].place
                => \/ sock[s].place = "none"
                   \/ /\ sock[s].place = "live" /\ sock'[s].place = "closed" /\ ~sock'[s].aged
                      /\ s \in handles \/ app.s = s
          /\ sock'[s].aged => sock[s].aged \/ \A m \in Ids : worker[m] = Idle
          /\ sock[s].broken => sock'[s].broken
          /\ sock'[s].broken => sock[s].broken \/ s \in handles \/ (sock[s].mux \in Ids /\ worker[sock[s].mux] = Idle)
          /\ Located(s)' => Located(s) \/ sock[s].place = "none"
          /\ s \in ready => s \in ready' \/ sock'[s].broken

LEMMA QuietAccepts ==
    ASSUME Inv, TypeOK', Quiet
    PROVE  Accepting'
<1>1. TypeOK
    BY DEF Inv
<1>2. ASSUME NEW s \in Ids
      PROVE  InHand(s) /\ Queued(s) /\ Event(s)
    BY DEF Inv, Accepting
<1>3. ASSUME NEW m \in Ids
      PROVE  InHand(m)'
    <2> SUFFICES ASSUME worker'[m].at \in {"made", "enqueue"}
                 PROVE  InHand(m)'
        BY DEF InHand
    <2>1. worker'[m] = worker[m] /\ worker[m] # Idle
        BY DEF Quiet, Idle
    <2> DEFINE q == worker[m].s
               l == sock[q].lsn
    <2>2. q \in Ids
        BY <1>1, <2>1 DEF TypeOK, Standing, Idle
    <2>3. /\ sock[q].place = IF worker[m].at = "made" THEN "made" ELSE "live"
          /\ sock[q].mux = m /\ sock[q].status # "INIT" /\ ~sock[q].broken
          /\ q \notin handles /\ app.s # q /\ \A k \in Ids : q \notin queued[k]
          /\ l \in Ids /\ (sock[l].place = "live" \/ (sock[l].place = "closed" /\ ~sock[l].aged))
        BY <1>2, <2>1 DEF InHand
    <2>4. /\ sock'[q].place = sock[q].place /\ sock'[q].mux = m /\ ~sock'[q].broken
          /\ sock'[q].lsn = l /\ sock'[q].status # "INIT"
          /\ q \notin handles' /\ app'.s # q /\ \A k \in Ids : q \notin queued'[k]
        BY <2>1, <2>2, <2>3, <1>1 DEF Quiet, TypeOK, Sockets
    <2>5. sock'[l].place = "live" \/ (sock'[l].place = "closed" /\ ~sock'[l].aged)
        BY <2>1, <2>3 DEF Quiet
    <2> QED  BY <2>1, <2>3, <2>4, <2>5 DEF InHand
<1>4. ASSUME NEW l \in Ids
      PROVE  Queued(l)'
    BY <1>1, <1>2 DEF Queued, Quiet, TypeOK
<1>5. ASSUME NEW l \in Ids
      PROVE  Event(l)'
    <2> SUFFICES ASSUME Located(l)', ~sock'[l].broken, NEW q \in queued'[l] \ missed'
                 PROVE  l \in ready' \/ \E m \in Ids : worker'[m].at = "announce" /\ worker'[m].s = q
        BY DEF Event
    <2>1. l \in ready \/ \E m \in Ids : worker[m].at = "announce" /\ worker[m].s = q
        <3>1. q \in queued[l] \ missed /\ sock[l].place # "none"
            BY <1>2 DEF Quiet, Queued
        <3>2. Located(l) /\ ~sock[l].broken
            BY <3>1, <1>1 DEF Quiet, TypeOK, Sockets
        <3> QED  BY <1>2, <3>1, <3>2 DEF Event
    <2> QED  BY <2>1 DEF Quiet
<1> QED  BY <1>3, <1>4, <1>5 DEF Accepting

LEMMA QuietKeeps ==
    ASSUME Inv, TypeOK', Gentle, Quiet
    PROVE  Inv'
    BY GentleKeeps, QuietAccepts DEF Inv

-----------------------------------------------------------------------------
(* The calls of the application that change no table *)

(* Where the application and a worker stand. *)
LEMMA Stands ==
    ASSUME TypeOK
    PROVE  /\ app # Idle => app.s \in Ids /\ app.at # "idle"
           /\ app = Idle => app.s = None /\ app.at = "idle"
           /\ \A m \in Ids : /\ worker[m] # Idle => worker[m].s \in Ids /\ worker[m].at # "idle"
                             /\ worker[m] = Idle => worker[m].at = "idle"
    BY DEF TypeOK, Standing, Idle

(* Whoever has a socket in hand has one that was given out. *)
LEMMA Given ==
    ASSUME Inv, NEW s \in Ids, s \in handles \/ app.s = s \/ sock[s].place # "none"
    PROVE  ~(s < nextId) /\ sock[s] \in Sockets
    BY DEF Inv, Multiplexed, Unused, TypeOK, Fresh

LEMMA OneSocket ==
    ASSUME TypeOK, NEW s \in Ids, NEW r \in Sockets, sock' = [sock EXCEPT ![s] = r]
    PROVE  sock' \in [Ids -> Sockets] /\ \A t \in Ids : sock'[t] = IF t = s THEN r ELSE sock[t]
    BY DEF TypeOK

LEMMA WatchStep == ASSUME Inv, NEW s \in Ids, Watch(s) PROVE Inv'
<1>1. TypeOK'
    BY DEF Watch, Inv, TypeOK
<1>2. Gentle
    BY DEF Watch, Gentle, Inv, Multiplexed, Unused, Exists
<1>3. Quiet
    BY DEF Watch, Quiet, Located
<1> QED  BY <1>1, <1>2, <1>3, QuietKeeps

LEMMA ConnectingStep == ASSUME Inv, Connecting PROVE Inv'
<1>1. TypeOK /\ app.s \in Ids
    BY Stands DEF Inv, Connecting, Idle
<1>2. ~(app.s < nextId) /\ sock[app.s] \in Sockets
    BY <1>1, Given
<1> DEFINE r == [sock[app.s] EXCEPT !.connecting = TRUE]
<1>3. /\ r \in Sockets /\ r.place = sock[app.s].place /\ r.status = sock[app.s].status
      /\ r.mux = sock[app.s].mux /\ r.lsn = sock[app.s].lsn /\ r.aged = sock[app.s].aged
      /\ r.broken = sock[app.s].broken /\ r.onList = sock[app.s].onList
    BY <1>2 DEF Sockets
<1>4. sock' = [sock EXCEPT ![app.s] = r]
    BY <1>1 DEF TypeOK, Connecting
<1> HIDE DEF r
<1>5. sock' \in [Ids -> Sockets] /\ \A t \in Ids : sock'[t] = IF t = app.s THEN r ELSE sock[t]
    BY <1>1, <1>3, <1>4, OneSocket
<1>6. TypeOK'
    BY <1>1, <1>5 DEF Connecting, TypeOK, Standing, tables
<1>7. Gentle
    BY <1>1, <1>2, <1>3, <1>5, IdsFinite
       DEF Connecting, Gentle, Inv, Multiplexed, Unused, Exists, tables, Idle, None
<1>8. Quiet
    BY <1>1, <1>3, <1>5, IdsFinite DEF Connecting, Quiet, Located, tables, Idle, None
<1> QED  BY <1>6, <1>7, <1>8, QuietKeeps

LEMMA AcceptedStep == ASSUME Inv, Accepted PROVE Inv'
<1>1. TypeOK /\ app.s \in Ids
    BY Stands DEF Inv, Accepted, Idle
<1>2. ~(app.s < nextId)
    BY <1>1, Given
<1>3. TypeOK'
    BY <1>1 DEF Accepted, TypeOK, Standing, tables
<1>4. Gentle
    BY <1>1, <1>2, IdsFinite
       DEF Accepted, Gentle, Inv, Multiplexed, Unused, Exists, tables, Idle, None
<1>5. Quiet
    BY <1>1, IdsFinite DEF Accepted, Quiet, Located, tables, Idle, None
<1> QED  BY <1>3, <1>4, <1>5, QuietKeeps

LEMMA CloseListenerStep == ASSUME Inv, NEW s \in Ids, CloseListener(s) PROVE Inv'
<1>1. TypeOK /\ ~(s < nextId) /\ sock[s] \in Sockets
    BY Given DEF Inv, CloseListener
<1> DEFINE r == [sock[s] EXCEPT !.broken = TRUE, !.aged = FALSE]
<1>2. /\ r \in Sockets /\ r.place = sock[s].place /\ r.status = sock[s].status
      /\ r.mux = sock[s].mux /\ r.lsn = sock[s].lsn /\ r.onList = sock[s].onList
      /\ r.aged = FALSE /\ r.broken = TRUE
    BY <1>1 DEF Sockets
<1>3. sock' = [sock EXCEPT ![s] = r]
    BY <1>1 DEF TypeOK, CloseListener
<1> HIDE DEF r
<1>4. sock' \in [Ids -> Sockets] /\ \A t \in Ids : sock'[t] = IF t = s THEN r ELSE sock[t]
    BY <1>1, <1>2, <1>3, OneSocket
<1>5. TypeOK'
    BY <1>1, <1>4 DEF CloseListener, TypeOK
<1>6. Gentle
    BY <1>1, <1>2, <1>4 DEF CloseListener, Gentle, Inv, Multiplexed, Unused, Exists
<1>7. Quiet
    BY <1>1, <1>2, <1>4 DEF CloseListener, Quiet, Located
<1> QED  BY <1>5, <1>6, <1>7, QuietKeeps

LEMMA CloseStep == ASSUME Inv, NEW s \in Ids, Close(s) PROVE Inv'
<1>1. TypeOK /\ ~(s < nextId) /\ sock[s] \in Sockets
    BY Given DEF Inv, Close
<1>2. PICK r \in Sockets :
         /\ r.place = sock[s].place /\ r.status = sock[s].status
         /\ r.mux = sock[s].mux /\ r.lsn = sock[s].lsn /\ r.onList = sock[s].onList
         /\ r.aged = sock[s].aged /\ r.broken = sock[s].broken
         /\ sock' = [sock EXCEPT ![s] = r]
    <2>1. CASE sock' = [sock EXCEPT ![s].linger = TRUE]
        <3> DEFINE r == [sock[s] EXCEPT !.linger = TRUE]
        <3>1. /\ r \in Sockets /\ r.place = sock[s].place /\ r.status = sock[s].status
              /\ r.mux = sock[s].mux /\ r.lsn = sock[s].lsn /\ r.onList = sock[s].onList
              /\ r.aged = sock[s].aged /\ r.broken = sock[s].broken
            BY <1>1 DEF Sockets
        <3>2. sock' = [sock EXCEPT ![s] = r]
            BY <2>1, <1>1 DEF TypeOK
        <3> QED  BY <3>1, <3>2
    <2>2. CASE sock' = [sock EXCEPT ![s] = Shut(sock[s])]
        <3>1. /\ Shut(sock[s]) \in Sockets /\ Shut(sock[s]).place = sock[s].place
              /\ Shut(sock[s]).status = sock[s].status /\ Shut(sock[s]).mux = sock[s].mux
              /\ Shut(sock[s]).lsn = sock[s].lsn /\ Shut(sock[s]).onList = sock[s].onList
              /\ Shut(sock[s]).aged = sock[s].aged /\ Shut(sock[s]).broken = sock[s].broken
            BY <1>1, ZenonT(40) DEF Sockets, Shut
        <3> QED  BY <3>1, <2>2
    <2> QED  BY <2>1, <2>2, <1>1 DEF Close, TypeOK
<1>3. sock' \in [Ids -> Sockets] /\ \A t \in Ids : sock'[t] = IF t = s THEN r ELSE sock[t]
    BY <1>1, <1>2, OneSocket
<1>4. app' \in Standing({"connect", "accept", "close"}) /\ app'.s = s /\ connectors' \subseteq connectors
    BY DEF Close, At, Standing, Unregister
<1>5. TypeOK'
    BY <1>1, <1>3, <1>4 DEF Close, TypeOK
<1>6. Gentle
    BY <1>1, <1>2, <1>3, <1>4 DEF Close, Gentle, Inv, Multiplexed, Unused, Exists
<1>7. Quiet
    BY <1>1, <1>2, <1>3, <1>4 DEF Close, Quiet, Located
<1> QED  BY <1>5, <1>6, <1>7, QuietKeeps

LEMMA ClosedStep == ASSUME Inv, Closed PROVE Inv'
<1>1. TypeOK /\ app.s \in Ids
    BY Stands DEF Inv, Closed, Idle
<1>2. ~(app.s < nextId) /\ sock[app.s] \in Sockets
    BY <1>1, Given
<1> DEFINE r == [sock[app.s] EXCEPT !.status = "CLOSED", !.aged = FALSE, !.place = "closed"]
<1>3. /\ r \in Sockets /\ r.place = "closed" /\ r.status = "CLOSED" /\ r.aged = FALSE
      /\ r.mux = sock[app.s].mux /\ r.lsn = sock[app.s].lsn
      /\ r.broken = sock[app.s].broken /\ r.onList = sock[app.s].onList
    BY <1>2 DEF Sockets, Places, Statuses
<1>4. IF Located(app.s) THEN sock' = [sock EXCEPT ![app.s] = r] ELSE sock' = sock
    BY <1>1 DEF TypeOK, Closed
<1> HIDE DEF r
<1>5. /\ sock' \in [Ids -> Sockets]
      /\ \A t \in Ids : sock'[t] = IF t = app.s /\ Located(t) THEN r ELSE sock[t]
    BY <1>1, <1>3, <1>4, OneSocket DEF TypeOK
<1>6. TypeOK'
    BY <1>1, <1>5 DEF Closed, TypeOK, Standing, tables
<1>7. Gentle
    BY <1>1, <1>2, <1>3, <1>5, IdsFinite
       DEF Closed, Gentle, Inv, Multiplexed, Unused, Exists, Located, tables, Idle, None
<1>8. Quiet
    BY <1>1, <1>3, <1>5, IdsFinite DEF Closed, Quiet, Located, tables, Idle, None
<1> QED  BY <1>6, <1>7, <1>8, QuietKeeps

LEMMA CloseGoneStep == ASSUME Inv, NEW s \in Ids, CloseGone(s) PROVE Inv'
<1>1. TypeOK'
    BY DEF CloseGone, Inv, TypeOK, tables
<1>2. Gentle
    BY DEF CloseGone, Gentle, Inv, Multiplexed, Unused, Exists, tables
<1>3. Quiet
    BY DEF CloseGone, Quiet, Located, tables
<1> QED  BY <1>1, <1>2, <1>3, QuietKeeps

-----------------------------------------------------------------------------
(* The steps of a worker and of time that change no table *)

LEMMA RequestStep == ASSUME Inv, NEW m \in Ids, NEW p \in Peers, Request(m, p) PROVE Inv'
<1>1. TypeOK /\ listener[m] \in Ids
    BY DEF Inv, TypeOK, Request
<1> DEFINE w == At("listen", listener[m], p)
<1>2. w \in Standing({"listen", "made", "enqueue", "announce", "complete"}) /\ w.at = "listen"
    BY <1>1 DEF At, Standing
<1>3. worker' = [worker EXCEPT ![m] = w] /\ worker[m].at = "idle"
    BY DEF Request, Idle
<1> HIDE DEF w
<1>4. TypeOK'
    BY <1>1, <1>2, <1>3 DEF Request, TypeOK, tables
<1>5. Gentle
    BY <1>1, <1>3 DEF Request, Gentle, Inv, Multiplexed, Unused, Exists, tables, TypeOK
<1>6. Quiet
    BY <1>1, <1>2, <1>3 DEF Request, Quiet, Located, tables, TypeOK
<1> QED  BY <1>4, <1>5, <1>6, QuietKeeps

LEMMA CompleteStep == ASSUME Inv, NEW m \in Ids, Complete(m) PROVE Inv'
<1> DEFINE s == worker[m].s
<1>1. TypeOK /\ s \in Ids /\ worker[m] # Idle /\ worker[m].at = "complete"
    BY Stands DEF Inv, Complete, Idle
<1>2. CASE Located(s)
    <2>1. ~(s < nextId) /\ sock[s] \in Sockets
        BY <1>1, <1>2, Given DEF Located
    <2> DEFINE r == [sock[s] EXCEPT !.status = "CONNECTED"]
    <2>2. /\ r \in Sockets /\ r.place = sock[s].place /\ r.status = "CONNECTED"
          /\ r.aged = sock[s].aged /\ r.mux = sock[s].mux /\ r.lsn = sock[s].lsn
          /\ r.broken = sock[s].broken /\ r.onList = sock[s].onList
        BY <2>1 DEF Sockets, Statuses
    <2>3. sock' = [sock EXCEPT ![s] = r] /\ worker' = [worker EXCEPT ![m] = Idle]
        BY <1>1, <1>2 DEF TypeOK, Complete
    <2> HIDE DEF r
    <2>4. sock' \in [Ids -> Sockets] /\ \A t \in Ids : sock'[t] = IF t = s THEN r ELSE sock[t]
        BY <1>1, <2>2, <2>3, OneSocket
    <2>5. TypeOK'
        BY <1>1, <2>3, <2>4 DEF Complete, TypeOK, Standing, tables
    <2>6. Gentle
        BY <1>1, <2>1, <2>2, <2>3, <2>4
           DEF Complete, Gentle, Inv, Multiplexed, Unused, Exists, tables, TypeOK
    <2>7. Quiet
        BY <1>1, <1>2, <2>2, <2>3, <2>4 DEF Complete, Quiet, Located, tables, TypeOK, Idle
    <2> QED  BY <2>5, <2>6, <2>7, QuietKeeps
<1>3. CASE ~Located(s)
    <2>1. UNCHANGED <<nextId, sock, tables, worker, app, handles, missed>>
        BY <1>3 DEF Complete
    <2>2. TypeOK'
        BY <1>1, <2>1 DEF TypeOK, tables
    <2>3. Gentle
        BY <2>1 DEF Gentle, Inv, Multiplexed, Unused, Exists, tables
    <2>4. Quiet
        BY <2>1 DEF Quiet, Located, tables
    <2> QED  BY <2>2, <2>3, <2>4, QuietKeeps
<1> QED  BY <1>2, <1>3

LEMMA ExpireStep == ASSUME Inv, NEW s \in Ids, Expire(s) PROVE Inv'
<1>1. TypeOK /\ Exists(s)
    BY DEF Inv, Multiplexed, Connector, Expire
<1>2. ~(s < nextId) /\ sock[s] \in Sockets
    BY <1>1, Given DEF Exists
<1> DEFINE r == [sock[s] EXCEPT !.connecting = FALSE]
<1>3. /\ r \in Sockets /\ r.place = sock[s].place /\ r.status = sock[s].status
      /\ r.mux = sock[s].mux /\ r.lsn = sock[s].lsn /\ r.aged = sock[s].aged
      /\ r.broken = sock[s].broken /\ r.onList = sock[s].onList
    BY <1>2 DEF Sockets
<1>4. sock' = [sock EXCEPT ![s] = r]
    BY <1>1 DEF TypeOK, Expire
<1> HIDE DEF r
<1>5. sock' \in [Ids -> Sockets] /\ \A t \in Ids : sock'[t] = IF t = s THEN r ELSE sock[t]
    BY <1>1, <1>3, <1>4, OneSocket
<1>6. TypeOK'
    BY <1>1, <1>5 DEF Expire, TypeOK
<1>7. Gentle
    BY <1>1, <1>2, <1>3, <1>5 DEF Expire, Gentle, Inv, Multiplexed, Unused, Exists
<1>8. Quiet
    BY <1>1, <1>3, <1>5 DEF Expire, Quiet, Located
<1> QED  BY <1>6, <1>7, <1>8, QuietKeeps

LEMMA BreakStep == ASSUME Inv, NEW s \in Ids, Break(s) PROVE Inv'
<1>1. TypeOK /\ Exists(s) /\ sock[s].mux \in Ids
    BY DEF Inv, Multiplexed, Listed, Break
<1>2. ~(s < nextId) /\ sock[s] \in Sockets
    BY <1>1, Given DEF Exists
<1> DEFINE r == [sock[s] EXCEPT !.closing = TRUE, !.broken = TRUE]
<1>3. /\ r \in Sockets /\ r.place = sock[s].place /\ r.status = sock[s].status
      /\ r.mux = sock[s].mux /\ r.lsn = sock[s].lsn /\ r.aged = sock[s].aged
      /\ r.broken = TRUE /\ r.onList = sock[s].onList
    BY <1>2 DEF Sockets
<1>4. sock' = [sock EXCEPT ![s] = r]
    BY <1>1 DEF TypeOK, Break
<1> HIDE DEF r
<1>5. sock' \in [Ids -> Sockets] /\ \A t \in Ids : sock'[t] = IF t = s THEN r ELSE sock[t]
    BY <1>1, <1>3, <1>4, OneSocket
<1>6. TypeOK'
    BY <1>1, <1>5 DEF Break, TypeOK, tables
<1>7. Gentle
    BY <1>1, <1>2, <1>3, <1>5 DEF Break, Gentle, Inv, Multiplexed, Unused, Exists, tables
<1>8. Quiet
    BY <1>1, <1>3, <1>5 DEF Break, Quiet, Located, tables
<1> QED  BY <1>6, <1>7, <1>8, QuietKeeps

LEMMA AgeStep == ASSUME Inv, NEW s \in Ids, Age(s) PROVE Inv'
<1>1. TypeOK /\ ~(s < nextId) /\ sock[s] \in Sockets
    BY Given DEF Inv, Age
<1> DEFINE r == [sock[s] EXCEPT !.aged = TRUE]
<1>2. /\ r \in Sockets /\ r.place = sock[s].place /\ r.status = sock[s].status
      /\ r.mux = sock[s].mux /\ r.lsn = sock[s].lsn
      /\ r.broken = sock[s].broken /\ r.onList = sock[s].onList
    BY <1>1 DEF Sockets
<1>3. sock' = [sock EXCEPT ![s] = r]
    BY <1>1 DEF TypeOK, Age
<1> HIDE DEF r
<1>4. sock' \in [Ids -> Sockets] /\ \A t \in Ids : sock'[t] = IF t = s THEN r ELSE sock[t]
    BY <1>1, <1>2, <1>3, OneSocket
<1>5. TypeOK'
    BY <1>1, <1>4 DEF Age, TypeOK, tables
<1>6. Gentle
    BY <1>1, <1>2, <1>4 DEF Age, Gentle, Inv, Multiplexed, Unused, Exists, tables
<1>7. Quiet
    BY <1>1, <1>2, <1>4 DEF Age, Quiet, Located, tables
<1> QED  BY <1>5, <1>6, <1>7, QuietKeeps

-----------------------------------------------------------------------------
(* The steps that move a connection towards the application *)

LEMMA MinExists ==
    ASSUME NEW S \in SUBSET Ids, S # {}
    PROVE  Min(S) \in S
<1>1. S \subseteq Nat
    BY IdsFinite
<1>2. PICK x \in S : \A y \in S : ~(<<y, x>> \in OpToRel(<, Nat))
    BY <1>1, NatLessThanWellFounded, WFMin
<1>3. \A y \in S : ~(y < x)
    BY <1>1, <1>2 DEF OpToRel
<1>4. \A y \in S : x =< y
    BY <1>1, <1>3
<1> QED  BY <1>4 DEF Min

(* accept() takes a connection out of the only queue it is in. *)
LEMMA AcceptStep == ASSUME Inv, NEW l \in Ids, Accept(l) PROVE Inv'
<1> DEFINE u == IF queued[l] = {} THEN None ELSE Min(queued[l])
<1>1. TypeOK /\ app = Idle /\ \A s \in Ids : InHand(s) /\ Queued(s) /\ Event(s)
    BY DEF Inv, Accepting, Accept
<1>2. IF queued[l] = {} THEN u = None ELSE u \in queued[l] /\ u \in Ids
    BY <1>1, MinExists DEF TypeOK
<1>3. /\ queued' = [queued EXCEPT ![l] = queued[l] \ {u}]
      /\ ready' = IF queued[l] \ {u} = {} THEN ready \ {l} ELSE ready
      /\ missed' = missed \ {u}
      /\ app' = IF u = None THEN Idle ELSE At("accept", u, None)
      /\ UNCHANGED <<nextId, sock, watched, refs, port, listener, connectors, newEntry, rcvList,
                     worker, handles, fault>>
    BY DEF Accept
<1> HIDE DEF u
<1>4. /\ app' \in Standing({"connect", "accept", "close"}) /\ app'.s = u
      /\ u \in Ids => u \in queued[l]
    BY <1>2, <1>3, IdsFinite DEF Standing, At, Idle, None
<1>5. TypeOK'
    BY <1>1, <1>3, <1>4 DEF TypeOK
<1>6. Gentle
    <2>1. u \in Ids => ~(u < nextId)
        BY <1>1, <1>4, Given DEF Queued
    <2> QED  BY <2>1, <1>3, <1>4 DEF Gentle, Inv, Multiplexed, Unused, Exists
<1>7. \A k \in Ids : queued'[k] \subseteq queued[k] /\ u \notin queued'[k]
    BY <1>1, <1>3, <1>4 DEF TypeOK, Queued
<1>8. ASSUME NEW m \in Ids PROVE InHand(m)'
    <2>1. worker[m].at \in {"made", "enqueue"} => worker[m].s # u
        BY <1>1, <1>4, Stands DEF InHand, Idle
    <2> QED  BY <1>1, <1>3, <1>4, <1>7, <2>1 DEF InHand
<1>9. ASSUME NEW k \in Ids PROVE Queued(k)'
    BY <1>1, <1>3, <1>4, <1>7 DEF Queued
<1>10. ASSUME NEW k \in Ids PROVE Event(k)'
    BY <1>1, <1>3, <1>7 DEF Event, Located, TypeOK
<1> QED  BY <1>5, <1>6, <1>8, <1>9, <1>10, GentleKeeps DEF Inv, Accepting

(* locate() finds a live connection of the peer. *)
LEMMA EarlierFacts ==
    ASSUME TypeOK, NEW p
    PROVE  Earlier(p) \subseteq {s \in Ids : sock[s].place = "live" /\ sock[s].peer = p}
<1> DEFINE S == {s \in Ids : sock[s].place = "live" /\ sock[s].peer = p}
<1>1. S \in SUBSET Ids
    OBVIOUS
<1>2. S # {} => Min(S) \in S
    BY <1>1, MinExists
<1> QED  BY <1>2 DEF Earlier

(* A broken connection that is struck out stays in its place. *)
LEMMA Struck ==
    ASSUME NEW x \in Sockets
    PROVE  LET r == [x EXCEPT !.status = "CLOSED", !.aged = FALSE]
           IN  /\ r \in Sockets /\ r.place = x.place /\ r.status = "CLOSED" /\ r.mux = x.mux
               /\ r.lsn = x.lsn /\ r.aged = FALSE /\ r.broken = x.broken /\ r.onList = x.onList
               /\ r.peer = x.peer
    BY DEF Sockets, Statuses

LEMMA RefuseStep == ASSUME Inv, NEW m \in Ids, Refuse(m) PROVE Inv'
<1> DEFINE l == worker[m].s
           old == {s \in Earlier(worker[m].p) : sock[s].broken}
<1>1. TypeOK /\ l \in Ids /\ \A s \in Ids : InHand(s) /\ Queued(s) /\ Event(s)
    BY Stands DEF Inv, Accepting, Refuse, Idle
<1>2. \A s \in old : s \in Ids /\ sock[s].place = "live" /\ sock[s].broken
    BY <1>1, EarlierFacts
<1>3. /\ worker[m].at = "listen" /\ worker' = [worker EXCEPT ![m] = Idle]
      /\ UNCHANGED <<nextId, ready, watched, refs, port, listener, connectors, newEntry,
                     rcvList, app, handles, fault, missed>>
    BY DEF Refuse
<1>sock. \/ sock' = sock
         \/ sock' = [s \in Ids |-> IF s \in old THEN [sock[s] EXCEPT !.status = "CLOSED", !.aged = FALSE]
                                                ELSE sock[s]]
    BY DEF Refuse
<1>queued. queued' = queued \/ queued' = [queued EXCEPT ![l] = queued[l] \ old]
    BY DEF Refuse
<1> HIDE DEF l, old
<1>4. /\ sock' \in [Ids -> Sockets]
      /\ \A s \in Ids : /\ sock'[s].place = sock[s].place /\ sock'[s].mux = sock[s].mux
                        /\ sock'[s].lsn = sock[s].lsn /\ sock'[s].onList = sock[s].onList
                        /\ sock'[s].broken = sock[s].broken
                        /\ sock'[s].aged => sock[s].aged
                        /\ sock'[s] = sock[s] \/ (s \in old /\ sock'[s].status = "CLOSED")
    <2>1. CASE sock' = sock
        BY <2>1, <1>1 DEF TypeOK
    <2>2. CASE sock' = [s \in Ids |-> IF s \in old THEN [sock[s] EXCEPT !.status = "CLOSED", !.aged = FALSE]
                                                   ELSE sock[s]]
        <3>1. \A s \in Ids : sock[s] \in Sockets
            BY <1>1 DEF TypeOK
        <3> QED  BY <2>2, <3>1, Struck
    <2> QED  BY <2>1, <2>2, <1>sock
<1>5. /\ queued' \in [Ids -> SUBSET Ids] /\ \A k \in Ids : queued'[k] \subseteq queued[k]
      /\ worker' \in [Ids -> Standing({"listen", "made", "enqueue", "announce", "complete"})]
    <2>1. queued \in [Ids -> SUBSET Ids]
        BY <1>1 DEF TypeOK
    <2>2. worker' \in [Ids -> Standing({"listen", "made", "enqueue", "announce", "complete"})]
        BY <1>1, <1>3 DEF TypeOK, Standing
    <2> QED  BY <1>1, <1>queued, <2>1, <2>2
<1>6. TypeOK'
    BY <1>1, <1>3, <1>4, <1>5 DEF TypeOK
<1>7. \A s \in old : ~(s < nextId)
    BY <1>2, Given
<1>8. Gentle
    BY <1>1, <1>3, <1>4, <1>7 DEF Gentle, Inv, Multiplexed, Unused, Exists, TypeOK
<1>9. \A k \in Ids : worker[k].at # "listen" \/ worker'[k].at # "idle" => worker'[k] = worker[k]
    BY <1>1, <1>3 DEF TypeOK, Idle
<1>10. ASSUME NEW k \in Ids PROVE InHand(k)'
    <2> SUFFICES ASSUME worker'[k].at \in {"made", "enqueue"} PROVE InHand(k)'
        BY DEF InHand
    <2>1. worker'[k] = worker[k] /\ worker[k].s \in Ids
        BY <1>1, <1>9, Stands DEF Idle
    <2> DEFINE q == worker[k].s
    <2>2. /\ sock[q].place = IF worker[k].at = "made" THEN "made" ELSE "live"
          /\ sock[q].mux = k /\ sock[q].status # "INIT" /\ ~sock[q].broken
          /\ q \notin handles /\ app.s # q /\ \A i \in Ids : q \notin queued[i]
          /\ sock[q].lsn \in Ids
          /\ sock[sock[q].lsn].place = "live" \/ (sock[sock[q].lsn].place = "closed" /\ ~sock[sock[q].lsn].aged)
        BY <1>1, <2>1 DEF InHand
    <2> QED  BY <1>3, <1>4, <1>5, <2>1, <2>2 DEF InHand
<1>11. ASSUME NEW k \in Ids PROVE Queued(k)'
    BY <1>1, <1>3, <1>4, <1>5 DEF Queued, TypeOK
<1>12. ASSUME NEW k \in Ids PROVE Event(k)'
    <2>1. \A i \in Ids : worker[i].at = "announce" => worker'[i] = worker[i]
        BY <1>9
    <2>2. Located(k)' => Located(k)
        BY <1>4 DEF Located
    <2> QED  BY <1>1, <1>3, <1>4, <1>5, <2>1, <2>2 DEF Event
<1> QED  BY <1>6, <1>8, <1>10, <1>11, <1>12, GentleKeeps DEF Inv, Accepting

(* m_Sockets takes the new socket: the application still cannot name it. *)
LEMMA InsertStep == ASSUME Inv, NEW m \in Ids, Insert(m) PROVE Inv'
<1> DEFINE q == worker[m].s
           l == sock[q].lsn
<1>1. TypeOK /\ worker[m] # Idle /\ q \in Ids /\ worker[m].at = "made"
      /\ \A s \in Ids : InHand(s) /\ Queued(s) /\ Event(s)
    BY Stands DEF Inv, Accepting, Insert, Idle
<1>2. /\ sock[q].place = "made" /\ sock[q].mux = m /\ sock[q].status # "INIT" /\ ~sock[q].broken
      /\ q \notin handles /\ app.s # q /\ \A k \in Ids : q \notin queued[k]
      /\ l \in Ids /\ (sock[l].place = "live" \/ (sock[l].place = "closed" /\ ~sock[l].aged))
    BY <1>1 DEF InHand
<1>3. ~(q < nextId) /\ sock[q] \in Sockets
    BY <1>1, <1>2, Given
<1> DEFINE r == [sock[q] EXCEPT !.place = "live"]
           w == [worker[m] EXCEPT !.at = "enqueue"]
<1>4. /\ r \in Sockets /\ r.place = "live" /\ r.status = sock[q].status
      /\ r.mux = sock[q].mux /\ r.lsn = sock[q].lsn /\ r.aged = sock[q].aged
      /\ r.broken = sock[q].broken /\ r.onList = sock[q].onList
    BY <1>3 DEF Sockets, Places
<1>5. /\ w \in Standing({"listen", "made", "enqueue", "announce", "complete"})
      /\ w.at = "enqueue" /\ w.s = q
    BY <1>1 DEF TypeOK, Standing
<1>6. sock' = [sock EXCEPT ![q] = r] /\ worker' = [worker EXCEPT ![m] = w]
    BY <1>1 DEF TypeOK, Insert, Publish
<1>7. UNCHANGED <<nextId, tables, app, handles, fault, missed>>
    BY DEF Insert
<1> HIDE DEF r, w, q
<1>8. sock' \in [Ids -> Sockets] /\ \A t \in Ids : sock'[t] = IF t = q THEN r ELSE sock[t]
    BY <1>1, <1>4, <1>6, OneSocket
<1>9. /\ worker' \in [Ids -> Standing({"listen", "made", "enqueue", "announce", "complete"})]
      /\ \A k \in Ids : worker'[k] = IF k = m THEN w ELSE worker[k]
    BY <1>1, <1>5, <1>6 DEF TypeOK
<1>10. TypeOK'
    BY <1>1, <1>7, <1>8, <1>9 DEF TypeOK, tables
<1>11. Gentle
    BY <1>1, <1>2, <1>3, <1>4, <1>7, <1>8, <1>9
       DEF Gentle, Inv, Multiplexed, Unused, Exists, tables
<1>12. ASSUME NEW k \in Ids PROVE InHand(k)'
    <2>1. CASE k = m
        <3>1. worker'[k].at = "enqueue" /\ worker'[k].s = q /\ sock'[q] = r
            BY <2>1, <1>1, <1>5, <1>8, <1>9
        <3>2. l \in Ids /\ (sock'[l].place = "live" \/ (sock'[l].place = "closed" /\ ~sock'[l].aged))
            BY <1>2, <1>4, <1>8
        <3> QED  BY <2>1, <3>1, <3>2, <1>2, <1>4, <1>7 DEF InHand, tables
    <2>2. CASE k # m
        <3> SUFFICES ASSUME worker[k].at \in {"made", "enqueue"} PROVE InHand(k)'
            BY <2>2, <1>9 DEF InHand
        <3>1. worker[k].s \in Ids /\ sock[worker[k].s].mux = k /\ worker[k].s # q
            BY <1>1, <1>2, <2>2, Stands DEF InHand, Idle
        <3> QED  BY <3>1, <2>2, <1>1, <1>2, <1>4, <1>7, <1>8, <1>9, SMTT(20) DEF InHand, tables
    <2> QED  BY <2>1, <2>2
<1>13. ASSUME NEW k \in Ids PROVE Queued(k)'
    BY <1>1, <1>2, <1>4, <1>7, <1>8 DEF Queued, tables, TypeOK
<1>14. ASSUME NEW k \in Ids PROVE Event(k)'
    <2>1. k = q => queued[k] = {}
        BY <1>1, <1>2 DEF Queued
    <2>2. \A i \in Ids : worker[i].at = "announce" => worker'[i] = worker[i]
        BY <1>1, <1>9
    <2>3. k # q => sock'[k] = sock[k]
        BY <1>8
    <2> QED  BY <1>1, <1>7, <2>1, <2>2, <2>3 DEF Event, Located, tables
<1> QED  BY <1>10, <1>11, <1>12, <1>13, <1>14, GentleKeeps DEF Inv, Accepting

(* The connection enters the queue, and its event is still to be set. *)
LEMMA EnqueueStep == ASSUME Inv, NEW m \in Ids, Enqueue(m) PROVE Inv'
<1> DEFINE q == worker[m].s
           l == sock[q].lsn
           w == [worker[m] EXCEPT !.at = "announce"]
<1>1. TypeOK /\ worker[m] # Idle /\ q \in Ids /\ worker[m].at = "enqueue"
      /\ \A s \in Ids : InHand(s) /\ Queued(s) /\ Event(s)
    BY Stands DEF Inv, Accepting, Enqueue, Idle
<1>2. /\ sock[q].place = "live" /\ sock[q].mux = m /\ sock[q].status # "INIT" /\ ~sock[q].broken
      /\ q \notin handles /\ app.s # q /\ \A k \in Ids : q \notin queued[k]
      /\ l \in Ids /\ (sock[l].place = "live" \/ (sock[l].place = "closed" /\ ~sock[l].aged))
    BY <1>1 DEF InHand
<1>3. /\ w \in Standing({"listen", "made", "enqueue", "announce", "complete"})
      /\ w.at = "announce" /\ w.s = q
    BY <1>1 DEF TypeOK, Standing
<1>4. /\ queued' = [queued EXCEPT ![l] = queued[l] \cup {q}]
      /\ worker' = [worker EXCEPT ![m] = w]
      /\ UNCHANGED <<nextId, sock, ready, watched, refs, port, listener, connectors, newEntry,
                     rcvList, app, handles, fault, missed>>
    BY <1>1 DEF Enqueue, After, Publish
<1> HIDE DEF q, w
<1>5. /\ worker' \in [Ids -> Standing({"listen", "made", "enqueue", "announce", "complete"})]
      /\ \A k \in Ids : worker'[k] = IF k = m THEN w ELSE worker[k]
    BY <1>1, <1>3, <1>4 DEF TypeOK
<1>6. /\ queued' \in [Ids -> SUBSET Ids]
      /\ \A k \in Ids : queued'[k] = IF k = l THEN queued[k] \cup {q} ELSE queued[k]
    BY <1>1, <1>2, <1>4 DEF TypeOK
<1>7. TypeOK'
    BY <1>1, <1>4, <1>5, <1>6 DEF TypeOK
<1>8. Gentle
    BY <1>1, <1>4, <1>5 DEF Gentle, Inv, Multiplexed, Unused, Exists
<1>9. ASSUME NEW k \in Ids PROVE InHand(k)'
    <2>1. CASE k = m
        BY <2>1, <1>3, <1>5 DEF InHand
    <2>2. CASE k # m
        <3> SUFFICES ASSUME worker[k].at \in {"made", "enqueue"} PROVE InHand(k)'
            BY <2>2, <1>5 DEF InHand
        <3>1. worker[k].s \in Ids /\ sock[worker[k].s].mux = k /\ worker[k].s # q
            BY <1>1, <1>2, <2>2, Stands DEF InHand, Idle
        <3> QED  BY <3>1, <2>2, <1>1, <1>4, <1>5, <1>6, SMTT(20) DEF InHand
    <2> QED  BY <2>1, <2>2
<1>10. ASSUME NEW k \in Ids PROVE Queued(k)'
    BY <1>1, <1>2, <1>4, <1>6 DEF Queued
<1>11. ASSUME NEW k \in Ids PROVE Event(k)'
    <2>1. \A i \in Ids : worker[i].at = "announce" => worker'[i] = worker[i]
        BY <1>1, <1>5
    <2>2. worker'[m].at = "announce" /\ worker'[m].s = q
        BY <1>3, <1>5
    <2> QED  BY <1>1, <1>4, <1>6, <2>1, <2>2 DEF Event, Located
<1> QED  BY <1>7, <1>8, <1>9, <1>10, <1>11, GentleKeeps DEF Inv, Accepting

(* The event is set, or the connection is one that nobody watches for. *)
LEMMA AnnounceStep == ASSUME Inv, NEW m \in Ids, Announce(m) PROVE Inv'
<1> DEFINE q == worker[m].s
           l == sock[q].lsn
<1>1. TypeOK /\ worker[m] # Idle /\ q \in Ids /\ worker[m].at = "announce"
      /\ \A s \in Ids : InHand(s) /\ Queued(s) /\ Event(s)
    BY Stands DEF Inv, Accepting, Announce, Idle
<1>2. /\ IF l \in watched THEN ready' = ready \cup {l} /\ missed' = missed
                          ELSE missed' = missed \cup {q} /\ ready' = ready
      /\ worker' = [worker EXCEPT ![m] = Idle]
      /\ UNCHANGED <<nextId, sock, queued, watched, refs, port, listener, connectors, newEntry,
                     rcvList, app, handles, fault>>
    BY <1>1 DEF Announce, After, Publish
<1>3. /\ worker' \in [Ids -> Standing({"listen", "made", "enqueue", "announce", "complete"})]
      /\ \A k \in Ids : worker'[k] = IF k = m THEN Idle ELSE worker[k]
    BY <1>1, <1>2 DEF TypeOK, Standing
<1>4. TypeOK'
    BY <1>1, <1>2, <1>3 DEF TypeOK
<1>5. Gentle
    BY <1>1, <1>2, <1>3 DEF Gentle, Inv, Multiplexed, Unused, Exists
<1>6. ASSUME NEW k \in Ids PROVE InHand(k)'
    BY <1>1, <1>2, <1>3 DEF InHand, Idle
<1>7. ASSUME NEW k \in Ids PROVE Queued(k)'
    BY <1>1, <1>2 DEF Queued
<1>8. ASSUME NEW k \in Ids PROVE Event(k)'
    <2> SUFFICES ASSUME Located(k), ~sock[k].broken, NEW c \in queued[k] \ missed'
                 PROVE  k \in ready' \/ \E i \in Ids : worker'[i].at = "announce" /\ worker'[i].s = c
        BY <1>2 DEF Event, Located
    <2>1. c \notin missed /\ (c = q => k \in ready')
        BY <1>1, <1>2 DEF Queued
    <2>2. k \in ready \/ \E i \in Ids : worker[i].at = "announce" /\ worker[i].s = c
        BY <1>1, <2>1 DEF Event
    <2> QED  BY <1>2, <1>3, <2>1, <2>2
<1> QED  BY <1>4, <1>5, <1>6, <1>7, <1>8, GentleKeeps DEF Inv, Accepting

-----------------------------------------------------------------------------
(* The steps that change the tables *)

(* updateMux() counts the one socket that is new to a multiplexer. *)
LEMMA Referred ==
    ASSUME Inv, NEW s \in Ids, NEW m \in Ids, refs' = Refer(m),
           Exists(s) => sock[s].mux \notin Ids, Exists(s)', sock'[s].mux = m,
           \A t \in Ids \ {s} : (Exists(t)' <=> Exists(t)) /\ sock'[t].mux = sock[t].mux
    PROVE  MuxCounted' /\ refs' \in [Ids -> Nat]
<1>1. refs \in [Ids -> Nat] /\ \A k \in Ids : refs[k] = Cardinality(Users(k))
    BY DEF Inv, TypeOK, Multiplexed, MuxCounted, Users
<1>2. \A k \in Ids : refs'[k] = IF k = m THEN refs[k] + 1 ELSE refs[k]
    BY <1>1 DEF Refer
<1>3. refs' \in [Ids -> Nat]
    BY <1>1 DEF Refer
<1>4. ASSUME NEW k \in Ids
      PROVE  refs'[k] = Cardinality({t \in Ids : Exists(t)' /\ sock'[t].mux = k})
    <2> DEFINE V == {t \in Ids : Exists(t)' /\ sock'[t].mux = k}
    <2>1. CASE k = m
        <3>1. V = Users(k) \cup {s} /\ s \notin Users(k)
            BY <2>1 DEF Users
        <3>2. IsFiniteSet(Users(k))
            BY IdsFinite, FS_Subset DEF Users
        <3>3. Cardinality(V) = Cardinality(Users(k)) + 1
            BY <3>1, <3>2, FS_AddElement
        <3> QED  BY <2>1, <3>3, <1>1, <1>2
    <2>2. CASE k # m
        <3>1. V = Users(k)
            BY <2>2 DEF Users
        <3> QED  BY <2>2, <3>1, <1>1, <1>2
    <2> QED  BY <2>1, <2>2
<1> QED  BY <1>3, <1>4 DEF MuxCounted

LEMMA MaxWithOne ==
    ASSUME NEW x \in Int
    PROVE  Max({1, x}) \in Int /\ Max({1, x}) >= 1
<1>1. \E y \in {1, x} : \A z \in {1, x} : y >= z
    OBVIOUS
<1>2. Max({1, x}) \in {1, x} /\ \A z \in {1, x} : Max({1, x}) >= z
    BY <1>1 DEF Max
<1> QED  BY <1>2

LEMMA NewSocketStep == ASSUME Inv, NewSocket PROVE Inv'
<1> DEFINE n == nextId - 1
<1>1. TypeOK /\ MuxCounted /\ app = Idle
      /\ \A s \in Ids : Unused(s) /\ Listed(s) /\ Heard(s) /\ Unbound(s) /\ Connector(s)
    BY DEF Inv, Multiplexed, NewSocket
<1>2. n \in Ids /\ n < nextId /\ nextId \in Nat
    <2>1. MaxSockets \in Nat /\ AppSockets \in Nat
        BY SocketsAssumption
    <2> DEFINE b == Max({1, MaxSockets + 1 - AppSockets})
    <2>2. b \in Int /\ b >= 1
        BY <2>1, MaxWithOne
    <2>3. nextId > b /\ nextId \in 1 .. MaxSockets + 1
        BY <1>1 DEF NewSocket, TypeOK
    <2> HIDE DEF b
    <2> QED  BY <2>1, <2>2, <2>3 DEF Ids
<1>3. sock[n] = Fresh /\ n \notin handles /\ app.s # n
    BY <1>1, <1>2 DEF Unused
<1> DEFINE r == [Fresh EXCEPT !.place = "live"]
<1>4. /\ r \in Sockets /\ r.place = "live" /\ r.status = "INIT" /\ r.mux = None
      /\ r.lsn = None /\ r.broken = FALSE /\ r.aged = FALSE /\ r.onList = FALSE
      /\ Fresh.place = "none" /\ Fresh.mux = None /\ Fresh.status = "INIT" /\ Fresh.lsn = None
      /\ Fresh.broken = FALSE /\ Fresh.aged = FALSE /\ Fresh.onList = FALSE
    BY DEF Sockets, Fresh, Places, Statuses
<1>5. /\ sock' = [sock EXCEPT ![n] = r] /\ nextId' = n /\ handles' = handles \cup {n}
      /\ UNCHANGED <<tables, worker, app, fault, missed>>
    BY <1>1, <1>2, <1>3 DEF NewSocket, TypeOK
<1> HIDE DEF r
<1>6. sock' \in [Ids -> Sockets] /\ \A t \in Ids : sock'[t] = IF t = n THEN r ELSE sock[t]
    BY <1>1, <1>2, <1>4, <1>5, OneSocket
<1>7. TypeOK'
    <2>1. nextId' \in 1 .. MaxSockets + 1
        BY <1>2, <1>5, SocketsAssumption DEF Ids
    <2> HIDE DEF n
    <2> QED  BY <2>1, <1>1, <1>2, <1>5, <1>6 DEF TypeOK, tables
<1>8. Quiet
    <2> HIDE DEF n
    <2> QED  BY <1>1, <1>2, <1>3, <1>4, <1>5, <1>6 DEF Quiet, Located, tables, Unused
<1>9. MuxCounted'
    <2>1. \A m \in Ids : {t \in Ids : Exists(t)' /\ sock'[t].mux = m} = {t \in Ids : Exists(t) /\ sock[t].mux = m}
        <3> HIDE DEF n
        <3> QED  BY <1>3, <1>4, <1>6, IdsFinite DEF Exists, None
    <2> QED  BY <2>1, <1>1, <1>5 DEF MuxCounted, tables
<1>10. ASSUME NEW s \in Ids PROVE Unused(s)'
    <2>1. s < n => s < nextId /\ s # n
        BY <1>2 DEF Ids
    <2> HIDE DEF n
    <2> QED  BY <2>1, <1>1, <1>5, <1>6 DEF Unused
<1>11. ASSUME NEW s \in Ids PROVE Listed(s)' /\ Heard(s)'
    <2> HIDE DEF n
    <2> QED  BY <1>1, <1>2, <1>3, <1>4, <1>5, <1>6 DEF Listed, Heard, Exists, tables, TypeOK
<1>12. ASSUME NEW s \in Ids PROVE Unbound(s)' /\ Connector(s)'
    <2> HIDE DEF n
    <2> QED  BY <1>1, <1>2, <1>3, <1>4, <1>5, <1>6, IdsFinite
                DEF Unbound, NoMux, Connector, Exists, tables, None
<1> QED  BY <1>7, <1>8, <1>9, <1>10, <1>11, <1>12, QuietAccepts DEF Inv, Multiplexed

LEMMA BindStep == ASSUME Inv, NEW s \in Ids, Bind(s) PROVE Inv'
<1> DEFINE m == IF port = None THEN s ELSE port
           r == [sock[s] EXCEPT !.status = "OPENED", !.opened = TRUE, !.mux = m]
<1>1. TypeOK /\ app = Idle /\ s \in handles /\ Located(s) /\ sock[s].status = "INIT"
      /\ \A t \in Ids : Unused(t) /\ Listed(t) /\ Heard(t) /\ Unbound(t) /\ Connector(t)
    BY DEF Inv, Multiplexed, Bind
<1>2. m \in Ids /\ ~(s < nextId) /\ sock[s] \in Sockets
    BY <1>1, Given DEF TypeOK
<1>3. /\ r \in Sockets /\ r.place = sock[s].place /\ r.status = "OPENED" /\ r.mux = m
      /\ r.lsn = sock[s].lsn /\ r.broken = sock[s].broken /\ r.aged = sock[s].aged
      /\ r.onList = sock[s].onList
    BY <1>2 DEF Sockets, Statuses
<1>4. /\ sock' = [sock EXCEPT ![s] = r] /\ refs' = Refer(m) /\ port' = m
      /\ UNCHANGED <<nextId, queued, ready, watched, listener, connectors, newEntry,
                     rcvList, worker, app, handles, fault, missed>>
    BY <1>1 DEF Bind, TypeOK
<1> HIDE DEF r
<1>5. sock' \in [Ids -> Sockets] /\ \A t \in Ids : sock'[t] = IF t = s THEN r ELSE sock[t]
    BY <1>1, <1>3, <1>4, OneSocket
<1>6. NoMux(s) /\ sock[s].mux = None /\ ~sock[s].onList /\ s \notin connectors
    BY <1>1 DEF Unbound, Located
<1>7. MuxCounted' /\ refs' \in [Ids -> Nat]
    <2>1. Exists(s)' /\ sock'[s].mux = m /\ sock[s].mux \notin Ids
        BY <1>1, <1>3, <1>5, <1>6, IdsFinite DEF Exists, Located, None
    <2>2. \A t \in Ids \ {s} : (Exists(t)' <=> Exists(t)) /\ sock'[t].mux = sock[t].mux
        BY <1>5 DEF Exists
    <2> HIDE DEF m
    <2> QED  BY <1>2, <1>4, <2>1, <2>2, Referred
<1>8. TypeOK'
    <2> HIDE DEF m
    <2> QED  BY <1>1, <1>2, <1>4, <1>5, <1>7 DEF TypeOK
<1>9. Quiet
    BY <1>1, <1>3, <1>4, <1>5 DEF Quiet, Located
<1>10. ASSUME NEW t \in Ids PROVE Unused(t)' /\ Listed(t)'
    BY <1>1, <1>2, <1>3, <1>4, <1>5, <1>6 DEF Unused, Listed, Exists
<1>11. ASSUME NEW t \in Ids PROVE Heard(t)'
    BY <1>1, <1>3, <1>4, <1>5, <1>6, IdsFinite DEF Heard, Exists, TypeOK, None
<1>12. ASSUME NEW t \in Ids PROVE Unbound(t)' /\ Connector(t)'
    <2>1. t # s => sock'[t] = sock[t]
        BY <1>5
    <2>2. sock'[s].status = "OPENED" /\ sock'[s].mux = m
        BY <1>3, <1>5
    <2>3. \A k \in Ids : Exists(k)' <=> Exists(k)
        BY <1>3, <1>5 DEF Exists
    <2>4. \A k \in Ids : k = s \/ sock'[k].mux = sock[k].mux
        BY <1>5
    <2>5. CASE t = s
        BY <2>2, <2>5, <1>4, <1>6 DEF Unbound, Connector
    <2>6. CASE t # s
        BY <2>1, <2>2, <2>3, <2>4, <2>6, <1>1, <1>4 DEF Unbound, NoMux, Connector
    <2> QED  BY <2>5, <2>6
<1> QED  BY <1>7, <1>8, <1>9, <1>10, <1>11, <1>12, QuietAccepts DEF Inv, Multiplexed

LEMMA ListenStep == ASSUME Inv, NEW s \in Ids, Listen(s) PROVE Inv'
<1> DEFINE r == [sock[s] EXCEPT !.status = "LISTENING", !.listening = TRUE]
<1>1. TypeOK /\ MuxCounted /\ s \in handles /\ Located(s) /\ sock[s].status = "OPENED"
      /\ \A t \in Ids : Unused(t) /\ Listed(t) /\ Heard(t) /\ Unbound(t) /\ Connector(t)
    BY DEF Inv, Multiplexed, Listen
<1>2. ~(s < nextId) /\ sock[s] \in Sockets
    BY <1>1, Given
<1>3. /\ r \in Sockets /\ r.place = sock[s].place /\ r.status = "LISTENING" /\ r.mux = sock[s].mux
      /\ r.lsn = sock[s].lsn /\ r.broken = sock[s].broken /\ r.aged = sock[s].aged
      /\ r.onList = sock[s].onList
    BY <1>2 DEF Sockets, Statuses
<1>4. /\ sock' = [sock EXCEPT ![s] = r]
      /\ listener' = [listener EXCEPT ![sock[s].mux] = s]
      /\ UNCHANGED <<nextId, queued, ready, watched, refs, port, connectors, newEntry,
                     rcvList, worker, app, handles, fault, missed>>
    BY <1>1 DEF Listen, TypeOK
<1> HIDE DEF r
<1>5. sock' \in [Ids -> Sockets] /\ \A t \in Ids : sock'[t] = IF t = s THEN r ELSE sock[t]
    BY <1>1, <1>3, <1>4, OneSocket
<1>6. /\ listener' \in [Ids -> Ids \cup {None}]
      /\ \A k \in Ids : listener'[k] = IF k = sock[s].mux THEN s ELSE listener[k]
    BY <1>1, <1>4 DEF TypeOK
<1>7. TypeOK'
    BY <1>1, <1>4, <1>5, <1>6 DEF TypeOK
<1>8. Quiet
    BY <1>1, <1>3, <1>4, <1>5 DEF Quiet, Located
<1>9. \A t \in Ids : (Exists(t)' <=> Exists(t)) /\ sock'[t].mux = sock[t].mux
    BY <1>3, <1>5 DEF Exists
<1>10. MuxCounted'
    <2>1. \A m \in Ids : {t \in Ids : Exists(t)' /\ sock'[t].mux = m} = {t \in Ids : Exists(t) /\ sock[t].mux = m}
        BY <1>9
    <2> QED  BY <2>1, <1>1, <1>4 DEF MuxCounted
<1>11. ASSUME NEW t \in Ids PROVE Unused(t)' /\ Listed(t)' /\ Heard(t)'
    BY <1>1, <1>2, <1>3, <1>4, <1>5, <1>6, <1>9 DEF Unused, Listed, Heard, Exists, Located, TypeOK
<1>12. ASSUME NEW t \in Ids PROVE Unbound(t)' /\ Connector(t)'
    <2>1. t # s => sock'[t] = sock[t]
        BY <1>5
    <2>2. sock'[s].status = "LISTENING" /\ sock'[s].onList = sock[s].onList /\ Exists(s)
        BY <1>1, <1>3, <1>5 DEF Located, Exists
    <2>3. sock[s].mux = t => Connector(t)'
        BY <2>2, <1>1, <1>4 DEF Connector
    <2>4. sock[s].mux # t => Connector(t)'
        BY <2>1, <2>2, <1>1, <1>4, <1>6, <1>9 DEF Connector
    <2>5. Unbound(t)'
        BY <2>1, <2>2, <1>1, <1>4, <1>6, <1>9 DEF Unbound, NoMux
    <2> QED  BY <2>3, <2>4, <2>5
<1> QED  BY <1>7, <1>8, <1>10, <1>11, <1>12, QuietAccepts DEF Inv, Multiplexed

LEMMA ConnectStep == ASSUME Inv, NEW s \in Ids, Connect(s) PROVE Inv'
<1> DEFINE r == [sock[s] EXCEPT !.status = "CONNECTING", !.opened = TRUE, !.mux = s]
<1>1. TypeOK /\ s \in handles /\ Located(s) /\ sock[s].status = "INIT"
      /\ \A t \in Ids : Unused(t) /\ Listed(t) /\ Heard(t) /\ Unbound(t) /\ Connector(t)
    BY DEF Inv, Multiplexed, Connect
<1>2. ~(s < nextId) /\ sock[s] \in Sockets
    BY <1>1, Given
<1>3. /\ r \in Sockets /\ r.place = sock[s].place /\ r.status = "CONNECTING" /\ r.mux = s
      /\ r.lsn = sock[s].lsn /\ r.broken = sock[s].broken /\ r.aged = sock[s].aged
      /\ r.onList = sock[s].onList
    BY <1>2 DEF Sockets, Statuses
<1>4. /\ sock' = [sock EXCEPT ![s] = r] /\ refs' = Refer(s)
      /\ connectors' = connectors \cup {s} /\ app' = At("connect", s, None)
      /\ UNCHANGED <<nextId, queued, ready, watched, port, listener, newEntry, rcvList,
                     worker, handles, fault, missed>>
    BY <1>1 DEF Connect, TypeOK
<1> HIDE DEF r
<1>5. sock' \in [Ids -> Sockets] /\ \A t \in Ids : sock'[t] = IF t = s THEN r ELSE sock[t]
    BY <1>1, <1>3, <1>4, OneSocket
<1>6. NoMux(s) /\ sock[s].mux = None /\ ~sock[s].onList /\ s \notin connectors
    BY <1>1 DEF Unbound, Located
<1>7. \A t \in Ids : Exists(t)' <=> Exists(t)
    BY <1>3, <1>5 DEF Exists
<1>8. MuxCounted' /\ refs' \in [Ids -> Nat]
    <2>1. Exists(s)' /\ sock'[s].mux = s /\ sock[s].mux \notin Ids
        BY <1>1, <1>3, <1>5, <1>6, <1>7, IdsFinite DEF Exists, Located, None
    <2>2. \A t \in Ids \ {s} : (Exists(t)' <=> Exists(t)) /\ sock'[t].mux = sock[t].mux
        BY <1>5 DEF Exists
    <2> QED  BY <1>4, <2>1, <2>2, Referred
<1>9. app' \in Standing({"connect", "accept", "close"}) /\ app'.s = s
    BY <1>4 DEF Standing, At
<1>10. TypeOK'
    BY <1>1, <1>4, <1>5, <1>8, <1>9 DEF TypeOK
<1>11. Quiet
    BY <1>1, <1>3, <1>4, <1>5, <1>9 DEF Quiet, Located
<1>12. ASSUME NEW t \in Ids PROVE Unused(t)' /\ Listed(t)'
    BY <1>1, <1>2, <1>3, <1>4, <1>5, <1>6, <1>7, <1>9 DEF Unused, Listed
<1>13. ASSUME NEW t \in Ids PROVE Heard(t)'
    <2>1. listener'[t] = listener[t] /\ listener[t] \in Ids \cup {None} /\ t # None
        BY <1>1, <1>4, IdsFinite DEF TypeOK, None
    <2>2. listener[t] # None => Exists(listener[t]) /\ sock[listener[t]].mux = t
        BY <1>1 DEF Heard
    <2>3. listener[t] # s
        BY <2>1, <2>2, <1>6, IdsFinite DEF None
    <2> QED  BY <2>1, <2>2, <2>3, <1>5, <1>7 DEF Heard
<1>14. ASSUME NEW t \in Ids PROVE Unbound(t)' /\ Connector(t)'
    <2>1. t # s => sock'[t] = sock[t]
        BY <1>5
    <2>2. /\ sock'[s].status = "CONNECTING" /\ sock'[s].mux = s /\ Exists(s)
          /\ sock'[s].onList = sock[s].onList
        BY <1>1, <1>3, <1>5 DEF Located, Exists
    <2>3. \A k \in Ids : k = s \/ sock'[k].mux = sock[k].mux
        BY <1>5
    <2>4. CASE t = s
        BY <2>2, <2>3, <2>4, <1>4, <1>6, <1>7 DEF Unbound, Connector, NoMux
    <2>5. CASE t # s
        BY <2>1, <2>2, <2>3, <2>5, <1>1, <1>4, <1>7 DEF Unbound, NoMux, Connector
    <2> QED  BY <2>4, <2>5
<1> QED  BY <1>8, <1>10, <1>11, <1>12, <1>13, <1>14, QuietAccepts DEF Inv, Multiplexed

LEMMA NewEntriesStep == ASSUME Inv, NEW m \in Ids, NewEntries(m) PROVE Inv'
<1>1. /\ TypeOK /\ MuxCounted
      /\ \A t \in Ids : Unused(t) /\ Listed(t) /\ Heard(t) /\ Unbound(t) /\ Connector(t)
    BY DEF Inv, Multiplexed
<1>2. PICK new \in SUBSET newEntry :
         /\ rcvList' = rcvList \cup new /\ newEntry' = newEntry \ new
         /\ UNCHANGED <<nextId, sock, queued, ready, watched, refs, port, listener, connectors,
                        worker, app, handles, fault, missed>>
    BY DEF NewEntries
<1>3. TypeOK'
    BY <1>1, <1>2 DEF TypeOK
<1>4. Quiet
    BY <1>2 DEF Quiet, Located
<1>5. MuxCounted'
    BY <1>1, <1>2 DEF MuxCounted, Exists
<1>6. ASSUME NEW t \in Ids PROVE Unused(t)' /\ Listed(t)' /\ Heard(t)' /\ Unbound(t)' /\ Connector(t)'
    BY <1>1, <1>2 DEF Unused, Listed, Heard, Unbound, NoMux, Connector, Exists
<1> QED  BY <1>3, <1>4, <1>5, <1>6, QuietAccepts DEF Inv, Multiplexed

(* An answer that connects: the socket was not on the list, and its multiplexer stays its own. *)
LEMMA AnswerStep == ASSUME Inv, NEW s \in Ids, Answer(s) PROVE Inv'
<1>1. /\ TypeOK /\ MuxCounted
      /\ \A t \in Ids : Unused(t) /\ Listed(t) /\ Heard(t) /\ Unbound(t) /\ Connector(t)
    BY DEF Inv, Multiplexed
<1>2. /\ s \in connectors /\ sock[s].mux = s /\ Exists(s) /\ ~sock[s].onList /\ worker[s] = Idle
      /\ sock[s].status \notin {"INIT", "OPENED"}
    BY <1>1 DEF Answer, Connector
<1>3. ~(s < nextId) /\ sock[s] \in Sockets
    BY <1>2, Given DEF Exists
<1>4. CASE UNCHANGED <<sock, newEntry, worker>>
    <2>1. /\ connectors' = connectors \ {s}
          /\ UNCHANGED <<nextId, sock, queued, ready, watched, refs, port, listener, newEntry,
                         rcvList, worker, app, handles, fault, missed>>
        BY <1>4 DEF Answer
    <2>2. TypeOK'
        BY <1>1, <2>1 DEF TypeOK
    <2>3. Gentle
        BY <2>1, <1>1 DEF Gentle, Exists, Unused
    <2>4. Quiet
        BY <2>1 DEF Quiet, Located
    <2> QED  BY <2>2, <2>3, <2>4, QuietKeeps
<1>5. CASE /\ sock' = [sock EXCEPT ![s].connecting = FALSE, ![s].connected = TRUE, ![s].onList = TRUE]
           /\ newEntry' = newEntry \cup {s}
           /\ worker' = [worker EXCEPT ![sock[s].mux] = At("complete", s, None)]
    <2> DEFINE r == [sock[s] EXCEPT !.connecting = FALSE, !.connected = TRUE, !.onList = TRUE]
               w == At("complete", s, None)
    <2>1. /\ r \in Sockets /\ r.place = sock[s].place /\ r.status = sock[s].status
          /\ r.mux = sock[s].mux /\ r.lsn = sock[s].lsn /\ r.broken = sock[s].broken
          /\ r.aged = sock[s].aged /\ r.onList = TRUE
        BY <1>3 DEF Sockets
    <2>2. /\ w \in Standing({"listen", "made", "enqueue", "announce", "complete"})
          /\ w.at = "complete" /\ worker[s].at = "idle"
        BY <1>2 DEF Standing, At, Idle
    <2>3. /\ connectors' = connectors \ {s} /\ newEntry' = newEntry \cup {s}
          /\ sock' = [sock EXCEPT ![s] = r] /\ worker' = [worker EXCEPT ![s] = w]
          /\ UNCHANGED <<nextId, queued, ready, watched, refs, port, listener, rcvList, app,
                         handles, fault, missed>>
        BY <1>1, <1>2, <1>5 DEF Answer, TypeOK
    <2> HIDE DEF r, w
    <2>4. sock' \in [Ids -> Sockets] /\ \A t \in Ids : sock'[t] = IF t = s THEN r ELSE sock[t]
        BY <1>1, <2>1, <2>3, OneSocket
    <2>5. /\ worker' \in [Ids -> Standing({"listen", "made", "enqueue", "announce", "complete"})]
          /\ \A k \in Ids : worker'[k] = IF k = s THEN w ELSE worker[k]
        BY <1>1, <2>2, <2>3 DEF TypeOK
    <2>6. TypeOK'
        BY <1>1, <2>3, <2>4, <2>5 DEF TypeOK
    <2>7. Quiet
        BY <2>1, <2>2, <2>3, <2>4, <2>5 DEF Quiet, Located
    <2>8. \A t \in Ids : (Exists(t)' <=> Exists(t)) /\ sock'[t].mux = sock[t].mux
        BY <2>1, <2>4 DEF Exists
    <2>9. MuxCounted'
        <3>1. \A m \in Ids : {t \in Ids : Exists(t)' /\ sock'[t].mux = m} = {t \in Ids : Exists(t) /\ sock[t].mux = m}
            BY <2>8
        <3> QED  BY <3>1, <1>1, <2>3 DEF MuxCounted
    <2>10. ASSUME NEW t \in Ids PROVE Unused(t)' /\ Listed(t)' /\ Heard(t)'
        BY <1>1, <1>2, <1>3, <2>1, <2>3, <2>4, <2>8 DEF Unused, Listed, Heard, TypeOK
    <2>11. ASSUME NEW t \in Ids PROVE Unbound(t)' /\ Connector(t)'
        <3>1. CASE t = s
            BY <3>1, <1>2, <2>1, <2>3, <2>4 DEF Unbound, Connector
        <3>2. CASE t # s
            BY <3>2, <1>1, <2>3, <2>4, <2>5, <2>8 DEF Unbound, NoMux, Connector
        <3> QED  BY <3>1, <3>2
    <2> QED  BY <2>6, <2>7, <2>9, <2>10, <2>11, QuietAccepts DEF Inv, Multiplexed
<1> QED  BY <1>4, <1>5, Zenon DEF Answer

(* A socket leaves the list and loses its mark in one step. *)
LEMMA DropStep == ASSUME Inv, NEW s \in Ids, Drop(s) PROVE Inv'
<1> DEFINE r == [sock[s] EXCEPT !.onList = FALSE]
<1>1. /\ TypeOK /\ MuxCounted
      /\ \A t \in Ids : Unused(t) /\ Listed(t) /\ Heard(t) /\ Unbound(t) /\ Connector(t)
    BY DEF Inv, Multiplexed
<1>2. s \in rcvList /\ Exists(s) /\ s \notin newEntry
    BY <1>1 DEF Drop, Listed
<1>3. ~(s < nextId) /\ sock[s] \in Sockets
    BY <1>2, Given DEF Exists
<1>4. /\ r \in Sockets /\ r.place = sock[s].place /\ r.status = sock[s].status
      /\ r.mux = sock[s].mux /\ r.lsn = sock[s].lsn /\ r.broken = sock[s].broken
      /\ r.aged = sock[s].aged /\ r.onList = FALSE
    BY <1>3 DEF Sockets
<1>5. /\ rcvList' = rcvList \ {s} /\ sock' = [sock EXCEPT ![s] = r]
      /\ UNCHANGED <<nextId, queued, ready, watched, refs, port, listener, connectors,
                     newEntry, worker, app, handles, fault, missed>>
    BY <1>1 DEF Drop, TypeOK
<1> HIDE DEF r
<1>6. sock' \in [Ids -> Sockets] /\ \A t \in Ids : sock'[t] = IF t = s THEN r ELSE sock[t]
    BY <1>1, <1>4, <1>5, OneSocket
<1>7. TypeOK'
    BY <1>1, <1>5, <1>6 DEF TypeOK
<1>8. Quiet
    BY <1>4, <1>5, <1>6 DEF Quiet, Located
<1>9. \A t \in Ids : (Exists(t)' <=> Exists(t)) /\ sock'[t].mux = sock[t].mux
    BY <1>4, <1>6 DEF Exists
<1>10. MuxCounted'
    <2>1. \A m \in Ids : {t \in Ids : Exists(t)' /\ sock'[t].mux = m} = {t \in Ids : Exists(t) /\ sock[t].mux = m}
        BY <1>9
    <2> QED  BY <2>1, <1>1, <1>5 DEF MuxCounted
<1>11. ASSUME NEW t \in Ids PROVE Unused(t)' /\ Listed(t)' /\ Heard(t)'
    BY <1>1, <1>2, <1>3, <1>4, <1>5, <1>6, <1>9 DEF Unused, Listed, Heard, TypeOK
<1>12. ASSUME NEW t \in Ids PROVE Unbound(t)' /\ Connector(t)'
    BY <1>1, <1>4, <1>5, <1>6, <1>9 DEF Unbound, NoMux, Connector
<1> QED  BY <1>7, <1>8, <1>10, <1>11, <1>12, QuietAccepts DEF Inv, Multiplexed

(* newConnection(): the new socket has an identifier nobody knows, and the multiplexer of
   a listener that exists. *)
LEMMA MakeStep == ASSUME Inv, NEW m \in Ids, Make(m) PROVE Inv'
<1> DEFINE l  == worker[m].s
           p  == worker[m].p
           E  == Earlier(p)
           a  == Answered(m, l, p)
<1>1. /\ TypeOK
      /\ \A t \in Ids : Unused(t) /\ Listed(t) /\ Heard(t) /\ Unbound(t) /\ Connector(t)
      /\ \A t \in Ids : InHand(t) /\ Queued(t) /\ Event(t)
    BY DEF Inv, Multiplexed, Accepting
<1>2. /\ l \in Ids /\ p \in Peers \cup {None} /\ worker[m].at = "listen" /\ worker[m] # Idle
      /\ Located(l)
    BY <1>1, Stands DEF Make, TypeOK, Standing, Idle
<1>3. PICK ns \in Ids : ns = nextId - 1 /\ ns < nextId /\ nextId \in Nat
    <2>1. nextId > 1 /\ nextId \in 1 .. MaxSockets + 1 /\ MaxSockets \in Nat
        BY <1>1, SocketsAssumption DEF Make, TypeOK
    <2>2. nextId - 1 \in Ids /\ nextId - 1 < nextId /\ nextId \in Nat
        BY <2>1 DEF Ids
    <2> QED  BY <2>2
<1> DEFINE w  == At("made", ns, p)
<1>4. sock[ns] = Fresh /\ Fresh.place = "none" /\ ns \notin handles /\ app.s # ns
    BY <1>1, <1>3 DEF Unused, Fresh
<1>5. \A s \in E : s \in Ids /\ sock[s].place = "live" /\ sock[s].broken /\ ~(s < nextId)
    BY <1>1, EarlierFacts, Given DEF Make
<1>6. /\ a \in Sockets /\ a.place = "made" /\ a.status = "CONNECTED" /\ a.mux = m /\ a.lsn = l
      /\ a.broken = FALSE /\ a.onList = TRUE
    BY <1>2 DEF Answered, Fresh, Sockets, Places, Statuses
<1>7. /\ w \in Standing({"listen", "made", "enqueue", "announce", "complete"})
      /\ w.at = "made" /\ w.s = ns
    BY <1>2, <1>3 DEF Standing, At
<1>8. sock' = [s \in Ids |->
             IF s = ns THEN a
             ELSE IF s \in E THEN [sock[s] EXCEPT !.status = "CLOSED", !.aged = FALSE] ELSE sock[s]]
    BY <1>3 DEF Make
<1>9. /\ nextId' = ns /\ queued' = [queued EXCEPT ![l] = queued[l] \ E] /\ refs' = Refer(m)
      /\ newEntry' = newEntry \cup {ns} /\ worker' = [worker EXCEPT ![m] = w]
      /\ UNCHANGED <<ready, watched, port, listener, connectors, rcvList, app, handles, fault, missed>>
    BY <1>3 DEF Make
<1>10. \A t \in Ids : t < ns => t < nextId /\ t # ns
    BY <1>3 DEF Ids
<1>11. ns \in 1 .. MaxSockets + 1
    BY <1>3, SocketsAssumption DEF Ids
<1> HIDE DEF l, p, E, a, w
<1>12. /\ sock' \in [Ids -> Sockets] /\ sock'[ns] = a
       /\ \A t \in Ids : t # ns =>
             /\ sock'[t].place = sock[t].place /\ sock'[t].mux = sock[t].mux
             /\ sock'[t].lsn = sock[t].lsn /\ sock'[t].onList = sock[t].onList
             /\ sock'[t].broken = sock[t].broken
             /\ sock'[t].aged => sock[t].aged
             /\ sock'[t] = sock[t] \/ (t \in E /\ sock'[t].status = "CLOSED")
    <2>1. \A t \in Ids : sock[t] \in Sockets
        BY <1>1 DEF TypeOK
    <2> QED  BY <2>1, <1>3, <1>6, <1>8, Struck
<1>13. queued' \in [Ids -> SUBSET Ids] /\ \A k \in Ids : queued'[k] \subseteq queued[k]
    BY <1>1, <1>2, <1>9 DEF TypeOK
<1>14. /\ worker' \in [Ids -> Standing({"listen", "made", "enqueue", "announce", "complete"})]
       /\ \A k \in Ids : worker'[k] = IF k = m THEN w ELSE worker[k]
    BY <1>1, <1>7, <1>9 DEF TypeOK
<1>15. ~Exists(ns) /\ Exists(ns)' /\ \A t \in Ids : t # ns => (Exists(t)' <=> Exists(t))
    BY <1>3, <1>4, <1>6, <1>12 DEF Exists
<1>16. MuxCounted' /\ refs' \in [Ids -> Nat]
    BY <1>3, <1>6, <1>9, <1>12, <1>15, Referred
<1>17. TypeOK'
    <2>1. newEntry' \subseteq Ids
        BY <1>1, <1>3, <1>9 DEF TypeOK
    <2> QED  BY <1>1, <2>1, <1>9, <1>11, <1>12, <1>13, <1>14, <1>16 DEF TypeOK
<1>18. ASSUME NEW t \in Ids PROVE Unused(t)'
    <2> SUFFICES ASSUME t < ns PROVE Unused(t)'
        BY <1>9 DEF Unused
    <2>1. t < nextId /\ t # ns /\ t \notin E
        BY <1>5, <1>10
    <2> QED  BY <2>1, <1>1, <1>9, <1>12 DEF Unused
<1>19. ASSUME NEW t \in Ids PROVE Listed(t)'
    <2>1. CASE t = ns
        BY <2>1, <1>1, <1>6, <1>9, <1>12, <1>15 DEF Listed
    <2>2. CASE t # ns
        BY <2>2, <1>1, <1>9, <1>12, <1>15 DEF Listed
    <2> QED  BY <2>1, <2>2
<1>20. ASSUME NEW t \in Ids PROVE Heard(t)'
    <2>1. listener'[t] = listener[t] /\ listener[t] \in Ids \cup {None}
        BY <1>1, <1>9 DEF TypeOK
    <2>2. listener[t] # None => Exists(listener[t]) /\ sock[listener[t]].mux = t /\ listener[t] # ns
        BY <1>1, <1>15 DEF Heard
    <2> QED  BY <2>1, <2>2, <1>12, <1>15 DEF Heard
<1>21. ASSUME NEW t \in Ids PROVE Unbound(t)' /\ Connector(t)'
    <2>1. CASE t = ns
        BY <2>1, <1>1, <1>6, <1>9, <1>12, <1>15 DEF Unbound, Connector
    <2>2. CASE t # ns /\ t # m
        BY <2>2, <1>1, <1>6, <1>9, <1>12, <1>14, <1>15 DEF Unbound, NoMux, Connector
    <2>3. CASE t # ns /\ t = m
        BY <2>3, <1>1, <1>2, <1>9, <1>12 DEF Unbound, NoMux, Connector
    <2> QED  BY <2>1, <2>2, <2>3
<1>22. queued[ns] = {} /\ \A k \in Ids : ns \notin queued[k]
    <2>1. sock[ns].place = "none"
        BY <1>4
    <2>2. \A k \in Ids : Queued(k)
        BY <1>1
    <2> QED  BY <2>1, <2>2 DEF Queued
<1>23. ASSUME NEW k \in Ids PROVE InHand(k)'
    <2>1. CASE k = m
        <3>1. worker'[k].at = "made" /\ worker'[k].s = ns
            BY <2>1, <1>7, <1>14
        <3>2. l # ns /\ sock'[l].place = "live"
            BY <1>2, <1>4, <1>12 DEF Located
        <3> QED  BY <2>1, <3>1, <3>2, <1>2, <1>4, <1>6, <1>9, <1>12, <1>13, <1>22 DEF InHand
    <2>2. CASE k # m
        <3> SUFFICES ASSUME worker[k].at \in {"made", "enqueue"} PROVE InHand(k)'
            BY <2>2, <1>14 DEF InHand
        <3> DEFINE q == worker[k].s
                   j == sock[q].lsn
        <3>1. /\ sock[q].place = IF worker[k].at = "made" THEN "made" ELSE "live"
              /\ sock[q].mux = k /\ sock[q].status # "INIT" /\ ~sock[q].broken
              /\ q \notin handles /\ app.s # q /\ \A i \in Ids : q \notin queued[i]
              /\ j \in Ids /\ (sock[j].place = "live" \/ (sock[j].place = "closed" /\ ~sock[j].aged))
            BY <1>1 DEF InHand
        <3>2. q \in Ids /\ q # ns /\ j # ns
            BY <3>1, <1>1, <1>4, Stands DEF Idle
        <3> QED  BY <2>2, <3>1, <3>2, <1>9, <1>12, <1>13, <1>14 DEF InHand
    <2> QED  BY <2>1, <2>2
<1>24. ASSUME NEW k \in Ids PROVE Queued(k)'
    <2>1. ASSUME NEW q \in queued'[k] PROVE q \in Ids /\ q # ns /\ k # ns /\ q \in queued[k]
        BY <1>1, <1>13, <1>22 DEF TypeOK
    <2> QED  BY <2>1, <1>1, <1>9, <1>12 DEF Queued
<1>25. ASSUME NEW k \in Ids PROVE Event(k)'
    <2>1. \A i \in Ids : worker[i].at = "announce" => worker'[i] = worker[i]
        BY <1>2, <1>14
    <2>2. CASE k = ns
        BY <2>2, <1>13, <1>22 DEF Event
    <2>3. CASE k # ns
        <3>1. (Located(k)' => Located(k)) /\ sock'[k].broken = sock[k].broken
            BY <2>3, <1>12 DEF Located
        <3> QED  BY <3>1, <2>1, <1>1, <1>9, <1>13 DEF Event
    <2> QED  BY <2>2, <2>3
<1> QED  BY <1>16, <1>17, <1>18, <1>19, <1>20, <1>21, <1>23, <1>24, <1>25 DEF Inv, Multiplexed, Accepting

-----------------------------------------------------------------------------
(* The garbage collector *)

(* What the first two loops of checkBrokenSockets() make of a socket. *)
LEMMA CollectedFacts ==
    ASSUME TypeOK, NEW s \in Ids, NEW busy
    PROVE  LET c == Collected(s, busy)
           IN  /\ c \in Sockets /\ c.mux = sock[s].mux /\ c.lsn = sock[s].lsn
               /\ c.onList = sock[s].onList /\ c.broken = sock[s].broken
               /\ c.aged => sock[s].aged
               /\ IF Due(s, busy) THEN c.place = "closed" /\ c.status = "CLOSED" /\ ~c.aged
                                  ELSE c.place = sock[s].place /\ c.status = sock[s].status
               /\ sock[s].place \notin {"live", "closed"} => c = sock[s]
<1>1. sock[s] \in Sockets
    BY DEF TypeOK
<1>2. CASE Due(s, busy)
    <2>1. Collected(s, busy) = [sock[s] EXCEPT !.status = "CLOSED", !.aged = FALSE, !.place = "closed"]
        BY <1>2 DEF Collected, Due
    <2> QED  BY <2>1, <1>1, <1>2, ZenonT(40) DEF Sockets, Statuses, Places, Due
<1>3. CASE ~Due(s, busy) /\ sock[s].place = "closed" /\ sock[s].linger /\ s \notin busy
    <2>1. Collected(s, busy) = [sock[s] EXCEPT !.linger = FALSE, !.closing = TRUE, !.aged = FALSE]
        BY <1>3 DEF Collected
    <2> QED  BY <2>1, <1>1, <1>3, ZenonT(40) DEF Sockets
<1>4. CASE ~Due(s, busy) /\ ~(sock[s].place = "closed" /\ sock[s].linger /\ s \notin busy)
    <2>1. Collected(s, busy) = sock[s]
        BY <1>4 DEF Collected
    <2> QED  BY <2>1, <1>1, <1>4
<1> QED  BY <1>2, <1>3, <1>4

(* A socket is deleted long after everyone else let go of it, the connections queued at a
   listener that goes are closed with it, and a multiplexer goes with its last socket. *)
LEMMA CollectStep == ASSUME Inv, NEW busy, Collect(busy) PROVE Inv'
<1> DEFINE due     == {s \in Ids : Due(s, busy)}
           gone    == {s \in Ids : Removable(Collected(s, busy))}
           kept    == [l \in Ids |-> queued[l] \ due]
           orphans == UNION {kept[l] : l \in gone}
           left    == [m \in Ids |-> refs[m] - Cardinality({s \in gone : sock[s].mux = m})]
<1>1. /\ TypeOK /\ MuxCounted
      /\ \A t \in Ids : Unused(t) /\ Listed(t) /\ Heard(t) /\ Unbound(t) /\ Connector(t)
      /\ \A t \in Ids : InHand(t) /\ Queued(t) /\ Event(t)
    BY DEF Inv, Multiplexed, Accepting
<1>2. /\ UNCHANGED <<nextId, ready, watched, worker, app, handles>>
      /\ queued' = [l \in Ids |-> IF l \in gone THEN {} ELSE kept[l]]
      /\ refs' = left
      /\ port' = IF port # None /\ left[port] = 0 THEN None ELSE port
      /\ listener' = Unlisten(gone)
      /\ connectors' = {s \in connectors : left[sock[s].mux] > 0} \cap Unregister(gone)
      /\ newEntry' = {s \in newEntry : left[sock[s].mux] > 0}
      /\ rcvList' = {s \in rcvList : left[sock[s].mux] > 0}
      /\ missed' = missed \ gone
    BY DEF Collect
<1>3. sock' = [s \in Ids |->
             IF s \in gone THEN [Fresh EXCEPT !.place = "deleted"]
             ELSE IF s \in orphans
             THEN [Shut(sock[s]) EXCEPT !.broken = TRUE, !.status = "CLOSED", !.place = "closed", !.aged = FALSE]
             ELSE Collected(s, busy)]
    BY DEF Collect
<1>4. gone \subseteq Ids /\ \A s \in gone : sock[s].place = "closed" /\ sock[s].aged /\ ~sock[s].onList
    <2> SUFFICES ASSUME NEW s \in gone
                 PROVE  s \in Ids /\ sock[s].place = "closed" /\ sock[s].aged /\ ~sock[s].onList
        OBVIOUS
    <2> DEFINE c == Collected(s, busy)
    <2>1. s \in Ids /\ c.place = "closed" /\ c.aged /\ ~c.onList
        BY DEF Removable
    <2>2. /\ c.onList = sock[s].onList
          /\ c.aged => sock[s].aged
          /\ IF Due(s, busy) THEN ~c.aged ELSE c.place = sock[s].place
        BY <2>1, <1>1, CollectedFacts
    <2> QED  BY <2>1, <2>2
<1>5. \A s \in orphans : \E l \in gone : s \in queued[l] /\ s \in Ids /\ sock[s].place = "live" /\ sock[s].lsn = l
    <2> SUFFICES ASSUME NEW s \in orphans
                 PROVE  \E l \in gone : s \in queued[l] /\ s \in Ids /\ sock[s].place = "live" /\ sock[s].lsn = l
        OBVIOUS
    <2>1. PICK l \in gone : s \in kept[l]
        OBVIOUS
    <2>2. l \in Ids /\ s \in queued[l]
        BY <2>1, <1>4
    <2> QED  BY <2>2, <1>1 DEF Queued, TypeOK
<1>6. \A s \in due : sock[s].place = "live" /\ sock[s].broken
    BY DEF Due
<1>7. /\ \A k \in Ids : queued'[k] = IF k \in gone THEN {} ELSE queued[k] \ due
      /\ queued' \in [Ids -> SUBSET Ids]
    BY <1>1, <1>2 DEF TypeOK
<1>8. \A k \in Ids : left[k] = refs[k] - Cardinality({s \in gone : sock[s].mux = k})
    OBVIOUS
<1>9. ASSUME NEW s \in Ids
      PROVE  /\ sock'[s] \in Sockets
             /\ s \in gone => sock'[s].place = "deleted"
             /\ s \notin gone =>
                   /\ sock'[s].mux = sock[s].mux /\ sock'[s].lsn = sock[s].lsn
                   /\ sock'[s].onList = sock[s].onList
                   /\ sock'[s].aged => sock[s].aged
                   /\ IF s \in due \cup orphans
                      THEN sock'[s].place = "closed" /\ sock'[s].status = "CLOSED" /\ ~sock'[s].aged
                      ELSE /\ sock'[s].place = sock[s].place /\ sock'[s].status = sock[s].status
                           /\ sock'[s].broken = sock[s].broken
                   /\ sock[s].place \notin {"live", "closed"} => sock'[s] = sock[s]
    <2> DEFINE x == [Shut(sock[s]) EXCEPT !.broken = TRUE, !.status = "CLOSED", !.place = "closed", !.aged = FALSE]
               y == [Fresh EXCEPT !.place = "deleted"]
               c == Collected(s, busy)
    <2>1. y \in Sockets /\ y.place = "deleted"
        BY DEF Sockets, Fresh, Places, Statuses
    <2>2. /\ x \in Sockets /\ x.mux = sock[s].mux /\ x.lsn = sock[s].lsn /\ x.onList = sock[s].onList
          /\ x.aged = FALSE /\ x.place = "closed" /\ x.status = "CLOSED"
        <3>1. sock[s] \in Sockets
            BY <1>1 DEF TypeOK
        <3> QED  BY <3>1, ZenonT(40) DEF Sockets, Shut, Places, Statuses
    <2>3. /\ c \in Sockets /\ c.mux = sock[s].mux /\ c.lsn = sock[s].lsn
          /\ c.onList = sock[s].onList /\ c.broken = sock[s].broken
          /\ c.aged => sock[s].aged
          /\ IF s \in due THEN c.place = "closed" /\ c.status = "CLOSED" /\ ~c.aged
                          ELSE c.place = sock[s].place /\ c.status = sock[s].status
          /\ sock[s].place \notin {"live", "closed"} => c = sock[s]
        BY <1>1, CollectedFacts
    <2>4. sock'[s] = IF s \in gone THEN y ELSE IF s \in orphans THEN x ELSE c
        BY <1>3
    <2>5. s \in orphans => sock[s].place = "live"
        BY <1>5
    <2> HIDE DEF x, y, c, due, gone, orphans
    <2> QED  BY <2>1, <2>2, <2>3, <2>4, <2>5
<1>10. sock' \in [Ids -> Sockets]
    <2>1. DOMAIN sock' = Ids /\ sock' = [s \in Ids |-> sock'[s]]
        BY <1>3
    <2> QED  BY <2>1, <1>9
<1> HIDE DEF due, gone, kept, orphans, left
<1>11. ASSUME NEW s \in Ids
       PROVE  (Exists(s)' <=> Exists(s) /\ s \notin gone) /\ (s \in gone => Exists(s))
    BY <1>4, <1>5, <1>6, <1>9 DEF Exists
<1>12. ASSUME NEW m \in Ids
       PROVE  /\ left[m] = Cardinality(Users(m) \ gone) /\ left[m] \in Nat
              /\ left[m] > 0 <=> \E s \in Ids : Exists(s) /\ s \notin gone /\ sock[s].mux = m
    <2> DEFINE G == {s \in gone : sock[s].mux = m}
    <2>1. IsFiniteSet(Users(m)) /\ refs[m] = Cardinality(Users(m))
        BY <1>1, IdsFinite, FS_Subset DEF Users, MuxCounted
    <2>2. Users(m) \cap gone = G
        BY <1>4, <1>11 DEF Users
    <2>3. IsFiniteSet(Users(m) \ gone) /\ Cardinality(Users(m) \ gone) = Cardinality(Users(m)) - Cardinality(G)
        <3>1. /\ IsFiniteSet(Users(m) \ gone)
              /\ Cardinality(Users(m) \ gone) = Cardinality(Users(m)) - Cardinality(Users(m) \cap gone)
            BY <2>1, FS_Difference
        <3> QED  BY <2>2, <3>1
    <2>4. Cardinality(Users(m) \ gone) \in Nat
          /\ (Cardinality(Users(m) \ gone) = 0 <=> Users(m) \ gone = {})
        BY <2>3, FS_CardinalityType, FS_EmptySet
    <2>5. left[m] = Cardinality(Users(m) \ gone)
        BY <2>1, <2>3, <1>8
    <2>6. left[m] > 0 <=> Users(m) \ gone # {}
        BY <2>4, <2>5
    <2> QED  BY <2>4, <2>5, <2>6 DEF Users
<1>13. MuxCounted'
    <2>1. \A m \in Ids : {s \in Ids : Exists(s)' /\ sock'[s].mux = m} = Users(m) \ gone
        BY <1>9, <1>11 DEF Users
    <2> QED  BY <2>1, <1>2, <1>12 DEF MuxCounted
<1>14. /\ listener' \in [Ids -> Ids \cup {None}]
       /\ \A m \in Ids : listener'[m] = IF listener[m] \in gone THEN None ELSE listener[m]
    BY <1>1, <1>2 DEF TypeOK, Unlisten
<1>15. connectors' \subseteq connectors /\ newEntry' \subseteq newEntry /\ rcvList' \subseteq rcvList
    BY <1>2
<1>16. port' \in {port, None}
    BY <1>2
<1>17. TypeOK'
    <2>1. refs' \in [Ids -> Nat]
        BY <1>2, <1>12 DEF left
    <2> QED  BY <2>1, <1>1, <1>2, <1>7, <1>10, <1>14, <1>15, <1>16 DEF TypeOK
<1>18. ASSUME NEW s \in Ids PROVE Unused(s)'
    <2>1. s < nextId => sock[s] = Fresh /\ sock[s].place = "none"
        <3>1. Unused(s) /\ Fresh.place = "none"
            BY <1>1 DEF Fresh
        <3> QED  BY <3>1 DEF Unused
    <2>2. s < nextId => s \notin gone /\ sock'[s] = sock[s]
        BY <2>1, <1>4, <1>9
    <2> QED  BY <2>1, <2>2, <1>1, <1>2 DEF Unused
<1>19. ASSUME NEW s \in Ids PROVE Listed(s)'
    <2>1. s \in newEntry \cup rcvList => s \notin gone /\ left[sock[s].mux] > 0
        BY <1>1, <1>4, <1>12 DEF Listed
    <2> QED  BY <2>1, <1>1, <1>2, <1>4, <1>9, <1>11 DEF Listed
<1>20. ASSUME NEW m \in Ids PROVE Heard(m)'
    <2>1. listener[m] # None => listener[m] \in Ids /\ Exists(listener[m]) /\ sock[listener[m]].mux = m
        BY <1>1 DEF Heard, TypeOK
    <2> QED  BY <2>1, <1>9, <1>11, <1>14 DEF Heard
<1>21. ASSUME NEW s \in Ids PROVE Unbound(s)'
    <2> SUFFICES ASSUME sock'[s].place \in {"none", "live"}, sock'[s].status = "INIT" PROVE Unbound(s)'
        BY DEF Unbound
    <2>1. s \notin gone /\ sock'[s].place = sock[s].place /\ sock'[s].status = sock[s].status
          /\ sock'[s].mux = sock[s].mux /\ sock'[s].onList = sock[s].onList
        BY <1>9
    <2>2. NoMux(s) /\ sock[s].mux = None /\ ~sock[s].onList /\ s \notin connectors
        BY <2>1, <1>1 DEF Unbound
    <2>3. \A t \in Ids : Exists(t)' => Exists(t) /\ sock'[t].mux = sock[t].mux
        BY <1>9, <1>11
    <2>4. NoMux(s)'
        BY <2>2, <2>3, <1>2, <1>14, <1>16, IdsFinite DEF NoMux, None
    <2> QED  BY <2>1, <2>2, <2>4, <1>15 DEF Unbound
<1>22. ASSUME NEW s \in Ids PROVE Connector(s)'
    <2> SUFFICES ASSUME s \in connectors' PROVE Connector(s)'
        BY DEF Connector
    <2>1. /\ Exists(s) /\ sock[s].mux = s /\ ~sock[s].onList
          /\ sock[s].status \notin {"INIT", "OPENED"}
          /\ port # s /\ listener[s] = None /\ worker[s] = Idle
          /\ \A t \in Ids : Exists(t) /\ sock[t].mux = s => t = s
        BY <1>1, <1>15 DEF Connector
    <2>2. left[s] > 0
        BY <2>1, <1>2
    <2>3. s \notin gone
        <3>1. PICK t \in Ids : Exists(t) /\ t \notin gone /\ sock[t].mux = s
            BY <2>2, <1>12
        <3> QED  BY <2>1, <3>1
    <2>4. \A t \in Ids : Exists(t)' => Exists(t) /\ sock'[t].mux = sock[t].mux
        BY <1>9, <1>11
    <2>5. sock'[s].mux = s /\ ~sock'[s].onList /\ sock'[s].status \notin {"INIT", "OPENED"} /\ Exists(s)'
        BY <2>1, <2>3, <1>9, <1>11
    <2>6. port' # s /\ listener'[s] = None /\ worker'[s] = Idle
        BY <2>1, <1>2, <1>14, <1>16, IdsFinite DEF None
    <2> QED  BY <2>1, <2>4, <2>5, <2>6 DEF Connector
<1>23. ASSUME NEW m \in Ids PROVE InHand(m)'
    <2> SUFFICES ASSUME worker[m].at \in {"made", "enqueue"} PROVE InHand(m)'
        BY <1>2 DEF InHand
    <2> DEFINE q == worker[m].s
               l == sock[q].lsn
    <2>1. /\ sock[q].place = IF worker[m].at = "made" THEN "made" ELSE "live"
          /\ sock[q].mux = m /\ sock[q].status # "INIT" /\ ~sock[q].broken
          /\ q \notin handles /\ app.s # q /\ \A i \in Ids : q \notin queued[i]
          /\ l \in Ids /\ (sock[l].place = "live" \/ (sock[l].place = "closed" /\ ~sock[l].aged))
        BY <1>1 DEF InHand
    <2>2. q \in Ids
        BY <1>1, Stands DEF Idle
    <2>3. q \notin gone /\ q \notin due \cup orphans
        BY <2>1, <2>2, <1>4, <1>5, <1>6
    <2>4. /\ sock'[q].place = sock[q].place /\ sock'[q].mux = m /\ sock'[q].status = sock[q].status
          /\ sock'[q].broken = sock[q].broken /\ sock'[q].lsn = l
        BY <2>1, <2>2, <2>3, <1>9
    <2>5. l \notin gone
        BY <2>1, <1>4
    <2>6. sock'[l].place = "live" \/ (sock'[l].place = "closed" /\ ~sock'[l].aged)
        BY <2>1, <2>5, <1>9
    <2>7. \A i \in Ids : q \notin queued'[i]
        BY <2>1, <1>7
    <2> QED  BY <2>1, <2>4, <2>6, <2>7, <1>2 DEF InHand
<1>24. ASSUME NEW l \in Ids, NEW q \in queued'[l]
       PROVE  l \notin gone /\ q \in queued[l] /\ q \in Ids /\ q \notin gone /\ q \notin due \cup orphans
    <2>1. l \notin gone /\ q \in queued[l] /\ q \notin due /\ q \in Ids
        BY <1>1, <1>7 DEF TypeOK
    <2>2. sock[q].place = "live" /\ sock[q].lsn = l
        BY <2>1, <1>1 DEF Queued
    <2> QED  BY <2>1, <2>2, <1>4, <1>5
<1>25. ASSUME NEW l \in Ids PROVE Queued(l)'
    BY <1>1, <1>2, <1>9, <1>24 DEF Queued
<1>26. ASSUME NEW l \in Ids PROVE Event(l)'
    <2> SUFFICES ASSUME Located(l)', ~sock'[l].broken, NEW q \in queued'[l] \ missed'
                 PROVE  l \in ready' \/ \E m \in Ids : worker'[m].at = "announce" /\ worker'[m].s = q
        BY DEF Event
    <2>1. l \notin gone /\ q \in queued[l] \ missed
        BY <1>2, <1>24
    <2>2. Located(l) /\ ~sock[l].broken
        BY <2>1, <1>9 DEF Located
    <2> QED  BY <2>1, <2>2, <1>1, <1>2 DEF Event
<1> QED  BY <1>13, <1>17, <1>18, <1>19, <1>20, <1>21, <1>22, <1>23, <1>25, <1>26
           DEF Inv, Multiplexed, Accepting

-----------------------------------------------------------------------------
(* The theorems *)

LEMMA InvNext == Inv /\ [Next]_vars => Inv'
<1> SUFFICES ASSUME Inv, [Next]_vars PROVE Inv'
    OBVIOUS
<1>1. ASSUME NEW s \in Ids,
             Bind(s) \/ Listen(s) \/ Watch(s) \/ Connect(s) \/ Accept(s) \/ CloseListener(s)
                 \/ Close(s) \/ CloseGone(s)
      PROVE  Inv'
    BY <1>1, BindStep, ListenStep, WatchStep, ConnectStep, AcceptStep, CloseListenerStep,
       CloseStep, CloseGoneStep
<1>2. CASE AppNext
    BY <1>1, <1>2, NewSocketStep, ConnectingStep, AcceptedStep, ClosedStep DEF AppNext
<1>3. ASSUME NEW m \in Ids,
             NewEntries(m) \/ Refuse(m) \/ Make(m) \/ Insert(m) \/ Enqueue(m) \/ Announce(m)
                 \/ Complete(m) \/ \E p \in Peers : Request(m, p)
      PROVE  Inv'
    BY <1>3, NewEntriesStep, RefuseStep, MakeStep, InsertStep, EnqueueStep, AnnounceStep,
       CompleteStep, RequestStep
<1>4. ASSUME NEW s \in Ids, Answer(s) \/ Expire(s) \/ Drop(s) \/ Break(s)
      PROVE  Inv'
    BY <1>4, AnswerStep, ExpireStep, DropStep, BreakStep
<1>5. CASE WorkerNext
    BY <1>3, <1>4, <1>5 DEF WorkerNext
<1>6. ASSUME NEW busy, Collect(busy) PROVE Inv'
    BY <1>6, CollectStep
<1>7. ASSUME NEW s \in Ids, Age(s) PROVE Inv'
    BY <1>7, AgeStep
<1>8. CASE UNCHANGED vars
    <2>1. TypeOK'
        BY <1>8 DEF vars, tables, Inv, TypeOK
    <2>2. Gentle
        BY <1>8 DEF vars, tables, Gentle, Inv, Multiplexed, Unused, Exists
    <2>3. Quiet
        BY <1>8 DEF vars, tables, Quiet, Located
    <2> QED  BY <2>1, <2>2, <2>3, QuietKeeps
<1> QED  BY <1>2, <1>5, <1>6, <1>7, <1>8 DEF Next

LEMMA Invariant == Spec => []Inv
    BY InvInit, InvNext, PTL DEF Spec

(* The tables of the multiplexers hold no socket that was deleted, and none of a
   multiplexer that is gone: whatever the application, the workers and the collector do in
   whatever order, the list and hash of a worker, m_pListener, the rendezvous queue and the
   queues of the listeners are left before a socket goes. *)
THEOREM TablesStayLive == Spec => []TablesLive
    BY Invariant, InvTables, PTL

(* m_iRefCount is the number of sockets that use the multiplexer, for any number of
   sockets that share it, so removeSocket() deletes it with the last of them. *)
THEOREM MuxesCounted == Spec => []MuxCounted
<1>1. Inv => MuxCounted
    BY DEF Inv, Multiplexed
<1> QED  BY <1>1, Invariant, PTL

(* However accept() and newConnection() interleave, a connection that came since the
   listener is watched never waits in the queue without the listener's event, unless the
   worker is about to set it. *)
THEOREM EventsSet == Spec => []QueueAnnounced
    BY Invariant, InvQueue, PTL
=============================================================================
