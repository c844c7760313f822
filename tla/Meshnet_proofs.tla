-------------------------- MODULE Meshnet_proofs --------------------------
(***************************************************************************)
(* Proofs about Meshnet, for every number of nodes, of connections, of     *)
(* breaks and of messages on their way, whoever dials whom.                *)
(*                                                                         *)
(* What the two ends of a connection know of each other is only what is on *)
(* its way: the invariant relates, for each connection, the packets in its *)
(* two streams to what each end has already done with the handshake, and   *)
(* each node's _writers to the connections it has open.                    *)
(***************************************************************************)
EXTENDS Meshnet, TLAPS

(* No node can be given the address of a node behind NAT. *)
NatNotDialled == \A d \in Dials : d[2] \notin BehindNat

-----------------------------------------------------------------------------
(* The inductive invariant: what holds however often a dial is repeated *)

Packet == {"request", "response", "data"}

Client(c) == ends[c]["client"]
Server(c) == ends[c]["server"]

Data(q) == q \in Seq({"data"})
Answer(q) == q # <<>> /\ Head(q) = "response" /\ Data(Tail(q))

(* A slot no connection has. *)
Vacant(c) ==
    /\ \A s \in Side : state[c][s] = "none" /\ ends[c][s] = NoNode /\ inbox[c][s] = <<>>
    /\ c \notin broken

(* A connection one end at least of which is not closed; a closed end receives nothing. *)
Made(c) ==
    /\ state[c]["client"] \in {"open", "closed"}
    /\ state[c]["server"] \in {"backlog", "open", "closed"}
    /\ \E s \in Side : state[c][s] # "closed"
    /\ Client(c) \in Node /\ Server(c) \in Node /\ <<Client(c), Server(c)>> \in Dials
    /\ \A s \in Side : state[c][s] = "closed" => inbox[c][s] = <<>>

(* The server has read the request. *)
Heard(c) == Open(c, "server") /\ Data(inbox[c]["server"])

(* exclusive_handshake keeps the connection at the server's end. *)
Chosen(c) == Client(c) \in BehindNat \/ Client(c) < Server(c)

(* Until the server has read the request, the client waits and nothing was sent to it; from
   then on only data arrive, from a client that chose the connection, and the response is
   on its way to a client that still waits. *)
ServerEnd(c) ==
    state[c]["server"] \in {"backlog", "open"} =>
        \/ /\ inbox[c]["server"] = <<"request">>
           /\ Open(c, "client") => c \in waiting /\ inbox[c]["client"] = <<>>
        \/ /\ Heard(c)
           /\ Open(c, "client") /\ c \in waiting /\ c \notin broken => inbox[c]["client"] # <<>>
           /\ inbox[c]["server"] # <<>> => Client(c) < Server(c)
           /\ Chosen(c) => readers[Server(c)][c] = Client(c)

(* A client that waits receives the response first; one that does not has chosen the
   connection and registered its reader. *)
ClientEnd(c) ==
    Open(c, "client") =>
        \/ c \in waiting /\ (inbox[c]["client"] = <<>> \/ Answer(inbox[c]["client"]))
        \/ /\ c \notin waiting /\ Data(inbox[c]["client"])
           /\ Client(c) < Server(c) /\ readers[Client(c)][c] = Server(c)

ConnectionOK(c) ==
    /\ c \in waiting => Open(c, "client")
    /\ Vacant(c) \/ Made(c)
    /\ ServerEnd(c)
    /\ ClientEnd(c)

(* A node writes to a connection it has open, to the node at the other end, on which it has
   its reader and has finished the handshake. *)
WriterOK(x, y) ==
    writers[x][y] # NoSid =>
        LET c == writers[x][y]
        IN  /\ x # y /\ readers[x][c] = y
            /\ \/ Client(c) = x /\ Server(c) = y /\ Open(c, "client") /\ c \notin waiting
               \/ Client(c) = y /\ Server(c) = x /\ Heard(c)

Types ==
    /\ ends \in [Conn -> [Side -> Node \cup {NoNode}]]
    /\ state \in [Conn -> [Side -> {"none", "backlog", "open", "closed"}]]
    /\ broken \subseteq Conn /\ breaks \in 0 .. MaxBreaks
    /\ inbox \in [Conn -> [Side -> Seq(Packet)]]
    /\ waiting \subseteq Conn
    /\ pending \in [Dials -> 0 .. MaxPending]
    /\ readers \in [Node -> [Conn -> Node \cup {NoNode}]]
    /\ writers \in [Node -> [Node -> Conn \cup {NoSid}]]
    /\ forsaken \subseteq Dials /\ doubled \subseteq Dials /\ hasty \subseteq Dials

Inv ==
    /\ Types
    /\ \A c \in Conn : ConnectionOK(c)
    /\ \A x, y \in Node : WriterOK(x, y)

-----------------------------------------------------------------------------
(* The streams of packets *)

(* Reading from and adding to a stream of messages. *)
LEMMA DataStream ==
    ASSUME NEW q, Data(q)
    PROVE  /\ Data(Append(q, "data")) /\ q \in Seq(Packet)
           /\ q # <<>> => Head(q) = "data" /\ Data(Tail(q))
    BY DEF Data, Packet

(* The response stays in front of the messages that follow it. *)
LEMMA AnswerStream ==
    ASSUME NEW q \in Seq(Packet), Answer(q)
    PROVE  Answer(Append(q, "data"))
<1>1. Append(q, "data") # <<>> /\ Head(Append(q, "data")) = Head(q)
    BY DEF Answer, Packet
<1>2. Tail(Append(q, "data")) = Append(Tail(q), "data")
    BY DEF Answer, Packet
<1> QED  BY <1>1, <1>2 DEF Answer, Data

(* The first packets. *)
LEMMA FirstPackets ==
    /\ Data(<<>>) /\ ~Answer(<<>>)
    /\ Append(<<>>, "response") \in Seq(Packet) /\ Answer(Append(<<>>, "response"))
    /\ <<"request">> \in Seq(Packet) /\ <<"request">> # <<>> /\ Head(<<"request">>) = "request"
    /\ Tail(<<"request">>) = <<>> /\ ~Data(<<"request">>)
<1>1. Data(<<>>) /\ ~Answer(<<>>)
    BY DEF Data, Answer
<1>2. Append(<<>>, "response") \in Seq(Packet) /\ Append(<<>>, "response") # <<>>
      /\ Head(Append(<<>>, "response")) = "response" /\ Tail(Append(<<>>, "response")) = <<>>
    BY DEF Packet
<1>3. <<"request">> \in Seq(Packet) /\ <<"request">> # <<>> /\ Head(<<"request">>) = "request"
      /\ Tail(<<"request">>) = <<>>
    BY DEF Packet
<1>4. ~Data(<<"request">>)
    <2>1. Data(<<"request">>) => Head(<<"request">>) = "data"
        BY <1>3, DataStream
    <2> QED  BY <2>1, <1>3
<1> QED  BY <1>1, <1>2, <1>3, <1>4 DEF Answer

-----------------------------------------------------------------------------
(* Closing *)

(* Node a closes its end of e, if e is among cs; e is then given up. *)
Closes(a, cs, e, s) == e \in cs /\ ends[e][s] = a
Freed(a, cs, e) == \A s \in Side : Closes(a, cs, e, s) \/ state[e][s] \in {"none", "closed"}

(* What close_socket(c) at node a may do, connection by connection: the connections cs are
   c and at most the writer of the node that c reads from; the writers on cs are erased,
   and the reader of c. *)
Shuts(a, c, cs) ==
    /\ c \in cs /\ \A e \in cs : e = c \/ (readers[a][c] \in Node /\ e = writers[a][readers[a][c]])
    /\ \A e \in Conn : Freed(a, cs, e) =>
          /\ \A s \in Side : state'[e][s] = "none" /\ ends'[e][s] = NoNode /\ inbox'[e][s] = <<>>
          /\ e \notin broken'
    /\ \A e \in Conn : ~Freed(a, cs, e) =>
          /\ e \in broken' <=> e \in broken
          /\ \A s \in Side :
                /\ ends'[e][s] = ends[e][s]
                /\ Closes(a, cs, e, s) => state'[e][s] = "closed" /\ inbox'[e][s] = <<>>
                /\ ~Closes(a, cs, e, s) => state'[e][s] = state[e][s] /\ inbox'[e][s] = inbox[e][s]
    /\ \A e \in Conn : e \in waiting' <=> e \in waiting /\ ~Closes(a, cs, e, "client")
    /\ readers'[a][c] = NoNode
    /\ \A x \in Node, e \in Conn :
          readers'[x][e] = readers[x][e] \/ (x = a /\ e \in cs /\ readers'[x][e] = NoNode)
    /\ \A x, y \in Node :
          writers'[x][y] = IF x = a /\ writers[x][y] \in cs THEN NoSid ELSE writers[x][y]

(* What close_channel(c) may plan when every writer also reads from its node: the case of a
   connection that only writes cannot arise. *)
LEMMA PlanFacts ==
    ASSUME NEW a \in Node, NEW c \in Conn,
           NEW rd \in [Conn -> Node \cup {NoNode}], NEW wr \in [Node -> Conn \cup {NoSid}],
           \A y \in Node : wr[y] # NoSid => rd[wr[y]] = y,
           NEW p \in ClosePlans(rd, wr, c)
    PROVE  /\ p.sids \subseteq Conn /\ c \in p.sids
           /\ \A e \in p.sids : e = c \/ (rd[c] \in Node /\ e = wr[rd[c]])
           /\ \A y \in Node : y \in p.dropWriters <=> wr[y] \in p.sids
           /\ p.dropReaders \subseteq {c}
           /\ c \notin p.dropReaders => rd[c] = NoNode
<1> DEFINE r == rd[c]
           w == WritersOn(wr, c)
<1>1. NoSid \notin Conn /\ NoNode \notin Node
    BY MeshnetAssumption
<1>2. w = {n \in Node : wr[n] = c} /\ \A n \in w : n = r
    BY <1>1 DEF WritersOn
<1>3. CASE r = NoNode
    <2>1. w = {}
        BY <1>1, <1>2, <1>3
    <2>2. p = Plan({c}, {}, {})
        BY <2>1, <1>3 DEF ClosePlans
    <2> QED  BY <2>1, <2>2, <1>1, <1>2, <1>3 DEF Plan
<1>4. CASE r # NoNode /\ w # {}
    <2>1. r \in Node /\ w = {r}
        BY <1>2, <1>4
    <2>2. p = Plan({c}, {c}, {r})
        BY <2>1, <1>4 DEF ClosePlans
    <2> QED  BY <2>1, <2>2, <1>1, <1>2, <1>4 DEF Plan
<1>5. CASE r # NoNode /\ w = {} /\ wr[r] # NoSid
    <2>1. r \in Node /\ wr[r] \in Conn
        BY <1>5
    <2>2. p = Plan({c, wr[r]}, {c}, {r})
        BY <1>5 DEF ClosePlans
    <2>3. \A y \in Node : y = r <=> wr[y] \in {c, wr[r]}
        BY <2>1, <1>1, <1>2, <1>5
    <2> QED  BY <2>1, <2>2, <2>3, <1>1, <1>5 DEF Plan
<1>6. CASE r # NoNode /\ w = {} /\ wr[r] = NoSid
    <2>1. p = Plan({c}, {c}, {})
        BY <1>6 DEF ClosePlans
    <2> QED  BY <2>1, <1>1, <1>2, <1>6 DEF Plan
<1> QED  BY <1>3, <1>4, <1>5, <1>6

(* close_socket() is what Shuts says. *)
LEMMA CloseSocketShuts ==
    ASSUME Inv, NEW c \in Conn, NEW side \in Side, Open(c, side), CloseSocket(c, side),
           NEW a, a = At(c, side)
    PROVE  /\ a \in Node
           /\ \E cs \in SUBSET Conn : Shuts(a, c, cs)
           /\ ends' \in [Conn -> [Side -> Node \cup {NoNode}]]
           /\ state' \in [Conn -> [Side -> {"none", "backlog", "open", "closed"}]]
           /\ broken' \subseteq Conn /\ breaks' \in 0 .. MaxBreaks
           /\ inbox' \in [Conn -> [Side -> Seq(Packet)]]
           /\ waiting' \subseteq Conn
           /\ readers' \in [Node -> [Conn -> Node \cup {NoNode}]]
           /\ writers' \in [Node -> [Node -> Conn \cup {NoSid}]]
<1>1. Types
    BY DEF Inv
<1>2. a \in Node
    BY DEF Inv, ConnectionOK, Vacant, Made, Open, At, Side, Client, Server
<1>3. PICK p \in ClosePlans(readers[a], writers[a], c) :
            /\ CloseEnds(a, p.sids)
            /\ waiting' = {x \in waiting : ~(x \in p.sids /\ At(x, "client") = a)}
            /\ readers' = [readers EXCEPT ![a] = ReadersAfter(@, p)]
            /\ writers' = [writers EXCEPT ![a] = WritersAfter(@, p)]
    BY DEF CloseSocket
<1>4. readers[a] \in [Conn -> Node \cup {NoNode}] /\ writers[a] \in [Node -> Conn \cup {NoSid}]
    BY <1>1, <1>2 DEF Types
<1>5. \A y \in Node : writers[a][y] # NoSid => readers[a][writers[a][y]] = y
    BY <1>2 DEF Inv, WriterOK
<1> DEFINE cs == p.sids
<1>6. /\ cs \subseteq Conn /\ c \in cs
      /\ \A e \in cs : e = c \/ (readers[a][c] \in Node /\ e = writers[a][readers[a][c]])
      /\ \A y \in Node : y \in p.dropWriters <=> writers[a][y] \in cs
      /\ p.dropReaders \subseteq {c}
      /\ c \notin p.dropReaders => readers[a][c] = NoNode
    BY <1>2, <1>3, <1>4, <1>5, PlanFacts
<1>7. /\ state' = [e \in Conn |-> [s \in Side |-> IF Freed(a, cs, e) THEN "none"
                                   ELSE IF Closes(a, cs, e, s) THEN "closed" ELSE state[e][s]]]
      /\ ends' = [e \in Conn |-> [s \in Side |-> IF Freed(a, cs, e) THEN NoNode ELSE ends[e][s]]]
      /\ inbox' = [e \in Conn |-> [s \in Side |->
                        IF Freed(a, cs, e) \/ Closes(a, cs, e, s) THEN <<>> ELSE inbox[e][s]]]
      /\ broken' = {e \in broken : ~Freed(a, cs, e)}
      /\ breaks' = breaks
    BY <1>3 DEF CloseEnds, Freed, Closes
<1>8. /\ readers' = [readers EXCEPT ![a] =
                       [e \in Conn |-> IF e \in p.dropReaders THEN NoNode ELSE readers[a][e]]]
      /\ writers' = [writers EXCEPT ![a] =
                       [y \in Node |-> IF y \in p.dropWriters THEN NoSid ELSE writers[a][y]]]
    BY <1>1, <1>2, <1>3, <1>4 DEF ReadersAfter, WritersAfter, Types
<1>9. /\ \A x \in Node, e \in Conn :
            readers'[x][e] = IF x = a /\ e \in p.dropReaders THEN NoNode ELSE readers[x][e]
      /\ \A x, y \in Node :
            writers'[x][y] = IF x = a /\ y \in p.dropWriters THEN NoSid ELSE writers[x][y]
      /\ readers' \in [Node -> [Conn -> Node \cup {NoNode}]]
      /\ writers' \in [Node -> [Node -> Conn \cup {NoSid}]]
    BY <1>1, <1>2, <1>8 DEF Types
<1>10. \A e \in Conn : e \in waiting' <=> e \in waiting /\ ~Closes(a, cs, e, "client")
    BY <1>3 DEF Closes, At
<1> HIDE DEF cs
<1>11. \A e \in Conn : Freed(a, cs, e) =>
          /\ \A s \in Side : state'[e][s] = "none" /\ ends'[e][s] = NoNode /\ inbox'[e][s] = <<>>
          /\ e \notin broken'
    BY <1>7
<1>12. \A e \in Conn : ~Freed(a, cs, e) =>
          /\ e \in broken' <=> e \in broken
          /\ \A s \in Side :
                /\ ends'[e][s] = ends[e][s]
                /\ Closes(a, cs, e, s) => state'[e][s] = "closed" /\ inbox'[e][s] = <<>>
                /\ ~Closes(a, cs, e, s) => state'[e][s] = state[e][s] /\ inbox'[e][s] = inbox[e][s]
    BY <1>7
<1>13. Shuts(a, c, cs)
    <2>1. readers'[a][c] = NoNode
        BY <1>2, <1>6, <1>9
    <2>2. \A x \in Node, e \in Conn :
            readers'[x][e] = readers[x][e] \/ (x = a /\ e \in cs /\ readers'[x][e] = NoNode)
        BY <1>6, <1>9
    <2>3. \A x, y \in Node :
            writers'[x][y] = IF x = a /\ writers[x][y] \in cs THEN NoSid ELSE writers[x][y]
        BY <1>6, <1>9
    <2> QED  BY <2>1, <2>2, <2>3, <1>6, <1>10, <1>11, <1>12 DEF Shuts
<1>14. /\ ends' \in [Conn -> [Side -> Node \cup {NoNode}]]
       /\ state' \in [Conn -> [Side -> {"none", "backlog", "open", "closed"}]]
       /\ broken' \subseteq Conn /\ breaks' \in 0 .. MaxBreaks
       /\ waiting' \subseteq Conn
    BY <1>1, <1>3, <1>7 DEF Types
<1>15. inbox' \in [Conn -> [Side -> Seq(Packet)]]
    <2>1. <<>> \in Seq(Packet)
        OBVIOUS
    <2> QED  BY <2>1, <1>1, <1>7 DEF Types
<1> QED  BY <1>2, <1>6, <1>9, <1>13, <1>14, <1>15

-----------------------------------------------------------------------------
(* What a step leaves alone *)

Same(e) ==
    /\ \A s \in Side : /\ state'[e][s] = state[e][s] /\ ends'[e][s] = ends[e][s]
                       /\ inbox'[e][s] = inbox[e][s]
    /\ e \in broken' <=> e \in broken
    /\ e \in waiting' <=> e \in waiting
    /\ \A x \in Node : readers'[x][e] = readers[x][e]

(* A connection none of whose parts changes. *)
LEMMA SameConnection ==
    ASSUME NEW e \in Conn, ConnectionOK(e), Same(e)
    PROVE  ConnectionOK(e)'
<1>1. /\ state'[e]["client"] = state[e]["client"] /\ state'[e]["server"] = state[e]["server"]
      /\ ends'[e]["client"] = ends[e]["client"] /\ ends'[e]["server"] = ends[e]["server"]
      /\ inbox'[e]["client"] = inbox[e]["client"] /\ inbox'[e]["server"] = inbox[e]["server"]
    BY DEF Same, Side
<1>2. CASE Vacant(e)
    <2>1. Vacant(e)'
        BY <1>2 DEF Vacant, Same
    <2> QED  BY <2>1, <1>2 DEF Vacant, Same, ConnectionOK, ServerEnd, ClientEnd, Open, Side
<1>3. CASE Made(e)
    <2>1. Made(e)'
        BY <1>1, <1>3 DEF Made, Same, Client, Server
    <2>2. readers'[Client(e)][e] = readers[Client(e)][e] /\ readers'[Server(e)][e] = readers[Server(e)][e]
        BY <1>3 DEF Made, Same
    <2>3. ServerEnd(e)'
        BY <1>1, <2>2 DEF ConnectionOK, ServerEnd, Same, Open, Heard, Chosen, Client, Server
    <2>4. ClientEnd(e)'
        BY <1>1, <2>2 DEF ConnectionOK, ClientEnd, Same, Open, Client, Server
    <2> QED  BY <1>1, <2>1, <2>3, <2>4 DEF ConnectionOK, Same, Open
<1> QED  BY <1>2, <1>3 DEF ConnectionOK

(* What a writer relies on. *)
Keeps(e) ==
    /\ ends'[e]["client"] = ends[e]["client"] /\ ends'[e]["server"] = ends[e]["server"]
    /\ Open(e, "client") => Open(e, "client")'
    /\ Heard(e) => Heard(e)'
    /\ e \in waiting' => e \in waiting

LEMMA SameKeeps ==
    ASSUME NEW e \in Conn, Same(e)
    PROVE  Keeps(e)
    BY DEF Same, Keeps, Open, Heard, Side

(* A writer that does not change, on a connection that keeps what it relies on. *)
LEMMA KeptWriter ==
    ASSUME NEW x \in Node, NEW y \in Node, WriterOK(x, y), writers'[x][y] = writers[x][y],
           writers[x][y] # NoSid =>
               Keeps(writers[x][y]) /\ readers'[x][writers[x][y]] = readers[x][writers[x][y]]
    PROVE  WriterOK(x, y)'
<1> DEFINE e == writers[x][y]
<1>1. SUFFICES ASSUME e # NoSid  PROVE WriterOK(x, y)'
    BY DEF WriterOK
<1>2. Keeps(e) /\ readers'[x][e] = readers[x][e]
    BY <1>1
<1> QED  BY <1>1, <1>2 DEF WriterOK, Keeps, Client, Server

(* Closing keeps the invariant at every connection. *)
LEMMA ShutsConnections ==
    ASSUME Inv, NEW a \in Node, NEW c \in Conn, NEW cs \in SUBSET Conn, Shuts(a, c, cs), NEW e \in Conn
    PROVE  ConnectionOK(e)'
<1>0. ConnectionOK(e) /\ "client" \in Side /\ "server" \in Side
    BY DEF Inv, Side
<1>1. CASE Freed(a, cs, e)
    <2>1. Vacant(e)'
        BY <1>1 DEF Shuts, Vacant
    <2>2. e \notin waiting'
        <3>1. SUFFICES ASSUME e \in waiting PROVE Closes(a, cs, e, "client")
            BY DEF Shuts
        <3> QED  BY <3>1, <1>0, <1>1 DEF Freed, ConnectionOK, Open
    <2> QED  BY <2>1, <2>2, <1>0 DEF Vacant, ConnectionOK, ServerEnd, ClientEnd, Open
<1>2. CASE ~Freed(a, cs, e)
    <2>1. Made(e)
        BY <1>0, <1>2 DEF Vacant, ConnectionOK, Freed
    <2>2. /\ e \in broken' <=> e \in broken
          /\ e \in waiting' <=> e \in waiting /\ ~Closes(a, cs, e, "client")
          /\ ends'[e]["client"] = ends[e]["client"] /\ ends'[e]["server"] = ends[e]["server"]
        BY <1>0, <1>2 DEF Shuts
    <2>3. /\ Closes(a, cs, e, "client") => state'[e]["client"] = "closed" /\ inbox'[e]["client"] = <<>>
          /\ ~Closes(a, cs, e, "client") => /\ state'[e]["client"] = state[e]["client"]
                                            /\ inbox'[e]["client"] = inbox[e]["client"]
          /\ Closes(a, cs, e, "server") => state'[e]["server"] = "closed" /\ inbox'[e]["server"] = <<>>
          /\ ~Closes(a, cs, e, "server") => /\ state'[e]["server"] = state[e]["server"]
                                            /\ inbox'[e]["server"] = inbox[e]["server"]
        BY <1>0, <1>2 DEF Shuts
    <2>4. /\ ~Closes(a, cs, e, "client") => readers'[Client(e)][e] = readers[Client(e)][e]
          /\ ~Closes(a, cs, e, "server") => readers'[Server(e)][e] = readers[Server(e)][e]
        BY <2>1 DEF Made, Shuts, Closes, Client, Server
    <2>5. Made(e)'
        <3>1. \E s \in Side : state'[e][s] # "closed"
            BY <1>0, <1>2, <2>3 DEF Freed, Side
        <3>2. \A s \in Side : state'[e][s] = "closed" => inbox'[e][s] = <<>>
            BY <2>1, <2>3 DEF Made, Side
        <3> QED  BY <2>1, <2>2, <2>3, <3>1, <3>2 DEF Made, Client, Server
    <2>6. ServerEnd(e)'
        BY <1>0, <2>2, <2>3, <2>4 DEF ConnectionOK, ServerEnd, Open, Heard, Chosen, Client, Server
    <2>7. ClientEnd(e)'
        BY <1>0, <2>2, <2>3, <2>4 DEF ConnectionOK, ClientEnd, Open, Client, Server
    <2> QED  BY <1>0, <2>2, <2>3, <2>5, <2>6, <2>7 DEF ConnectionOK, Open
<1> QED  BY <1>1, <1>2

(* Closing keeps the invariant at every writer that it does not erase: it closes neither
   that end nor the reader. *)
LEMMA ShutsWriters ==
    ASSUME Inv, NEW a \in Node, NEW c \in Conn, NEW cs \in SUBSET Conn, Shuts(a, c, cs),
           NEW x \in Node, NEW y \in Node
    PROVE  WriterOK(x, y)'
<1> DEFINE e == writers[x][y]
<1>1. SUFFICES ASSUME writers'[x][y] # NoSid  PROVE WriterOK(x, y)'
    BY DEF WriterOK
<1>2. /\ writers'[x][y] = e /\ e # NoSid /\ ~(x = a /\ e \in cs)
    BY <1>1 DEF Shuts
<1>3. e \in Conn /\ WriterOK(x, y)
    BY <1>2 DEF Inv, Types
<1>4. x # y /\ readers[x][e] = y
    BY <1>2, <1>3 DEF WriterOK
<1>5. readers'[x][e] = y
    BY <1>2, <1>3, <1>4 DEF Shuts
<1>6. CASE Client(e) = x /\ Server(e) = y /\ Open(e, "client") /\ e \notin waiting
    <2>1. ~Closes(a, cs, e, "client") /\ "client" \in Side /\ "server" \in Side
        BY <1>2, <1>6 DEF Closes, Client, Side
    <2>2. ~Freed(a, cs, e)
        BY <2>1, <1>6 DEF Freed, Open
    <2> QED  BY <2>1, <2>2, <1>2, <1>3, <1>4, <1>5, <1>6 DEF Shuts, WriterOK, Client, Server, Open
<1>7. CASE Client(e) = y /\ Server(e) = x /\ Heard(e)
    <2>1. ~Closes(a, cs, e, "server") /\ "client" \in Side /\ "server" \in Side
        BY <1>2, <1>7 DEF Closes, Server, Side
    <2>2. ~Freed(a, cs, e)
        BY <2>1, <1>7 DEF Freed, Open, Heard
    <2> QED  BY <2>1, <2>2, <1>2, <1>3, <1>4, <1>5, <1>7 DEF Shuts, WriterOK, Client, Server, Open, Heard
<1> QED  BY <1>2, <1>3, <1>6, <1>7 DEF WriterOK

-----------------------------------------------------------------------------
(* The actions *)

(* Close_socket() at an end that is open keeps the invariant, but for what is scheduled. *)
LEMMA CloseSocketInv ==
    ASSUME Inv, NEW c \in Conn, NEW side \in Side, Open(c, side), CloseSocket(c, side),
           pending' \in [Dials -> 0 .. MaxPending], forsaken' \subseteq Dials,
           doubled' \subseteq Dials, hasty' \subseteq Dials
    PROVE  Inv'
<1> DEFINE a == At(c, side)
<1>1. PICK cs \in SUBSET Conn : Shuts(a, c, cs)
    BY CloseSocketShuts
<1>2. a \in Node /\ Types'
    BY CloseSocketShuts DEF Types
<1> HIDE DEF a
<1>3. \A e \in Conn : ConnectionOK(e)'
    BY <1>1, <1>2, ShutsConnections
<1>4. \A x, y \in Node : WriterOK(x, y)'
    BY <1>1, <1>2, ShutsWriters
<1> QED  BY <1>2, <1>3, <1>4 DEF Inv

LEMMA InitInv == Init => Inv
<1> SUFFICES ASSUME Init PROVE Inv
    OBVIOUS
<1>1. Types
    BY MeshnetAssumption DEF Init, Types
<1>2. \A c \in Conn : ConnectionOK(c)
    BY DEF Init, ConnectionOK, Vacant, ServerEnd, ClientEnd, Open, Side
<1>3. \A x, y \in Node : WriterOK(x, y)
    BY DEF Init, WriterOK
<1> QED  BY <1>1, <1>2, <1>3 DEF Inv

(* The pair of nodes of an end that is open was told to dial. *)
LEMMA OpenMade ==
    ASSUME Inv, NEW c \in Conn, NEW side \in Side, state[c][side] # "none"
    PROVE  Made(c)
    BY DEF Inv, ConnectionOK, Vacant

LEMMA LoseInv ==
    ASSUME Inv, NEW c \in Conn, NEW side \in Side, Lose(c, side)
    PROVE  Inv'
<1>1. Open(c, side) /\ CloseSocket(c, side) /\ ScheduleReconnection(c, side) /\ UNCHANGED <<forsaken, hasty>>
    BY DEF Lose
<1>2. Made(c)
    BY <1>1, OpenMade DEF Open
<1>3. pending' \in [Dials -> 0 .. MaxPending] /\ doubled' \subseteq Dials
    <2>1. pending \in [Dials -> 0 .. MaxPending] /\ doubled \subseteq Dials
        BY DEF Inv, Types
    <2>2. CASE UNCHANGED <<pending, doubled>>
        BY <2>1, <2>2
    <2>3. ASSUME side = "client", NEW k \in Repeats,
                 pending[<<At(c, side), Peer(c, side)>>] + k <= MaxPending,
                 pending' = [pending EXCEPT ![<<At(c, side), Peer(c, side)>>] = @ + k],
                 doubled' = IF k > 1 THEN doubled \cup {<<At(c, side), Peer(c, side)>>} ELSE doubled
          PROVE  pending' \in [Dials -> 0 .. MaxPending] /\ doubled' \subseteq Dials
        <3>1. <<At(c, side), Peer(c, side)>> \in Dials
            BY <2>3, <1>2 DEF Made, At, Peer, Other, Client, Server
        <3>2. k \in Nat /\ MaxPending \in Nat
            BY MeshnetAssumption
        <3> QED  BY <3>1, <3>2, <2>1, <2>3
    <2> QED  BY <1>1, <2>2, <2>3 DEF ScheduleReconnection
<1> QED  BY <1>1, <1>3, CloseSocketInv DEF Inv, Types

LEMMA LoseUnannouncedInv ==
    ASSUME Inv, NEW c \in Conn, NEW side \in Side, LoseUnannounced(c, side)
    PROVE  Inv'
<1>1. Open(c, side) /\ CloseSocket(c, side) /\ UNCHANGED <<pending, doubled, hasty>>
      /\ forsaken' = IF side = "client" THEN forsaken \cup {<<At(c, side), Peer(c, side)>>} ELSE forsaken
    BY DEF LoseUnannounced
<1>2. Made(c)
    BY <1>1, OpenMade DEF Open
<1>3. /\ forsaken' \subseteq Dials /\ doubled' \subseteq Dials /\ hasty' \subseteq Dials
      /\ pending' \in [Dials -> 0 .. MaxPending]
    BY <1>1, <1>2 DEF Inv, Types, Made, At, Peer, Other, Client, Server
<1> QED  BY <1>1, <1>3, CloseSocketInv

LEMMA BreakInv ==
    ASSUME Inv, NEW c \in Conn, Break(c)
    PROVE  Inv'
<1>1. PICK s \in Side : state[c][s] # "none"
    BY DEF Break
<1>2. Made(c) /\ ConnectionOK(c)
    BY <1>1, OpenMade DEF Inv
<1>3. /\ broken' = broken \cup {c} /\ breaks < MaxBreaks /\ breaks' = breaks + 1
      /\ UNCHANGED <<ends, state, inbox, waiting, pending, readers, writers, forsaken, doubled, hasty>>
    BY DEF Break, nodeVars
<1>4. Types'
    BY <1>3, MeshnetAssumption DEF Inv, Types
<1>5. ASSUME NEW e \in Conn PROVE ConnectionOK(e)'
    <2>1. CASE e # c
        BY <2>1, <1>3, SameConnection DEF Same, Inv
    <2>2. CASE e = c
        BY <2>2, <1>2, <1>3 DEF ConnectionOK, Made, ServerEnd, ClientEnd, Open, Heard, Chosen, Client, Server
    <2> QED  BY <2>1, <2>2
<1>6. ASSUME NEW x \in Node, NEW y \in Node PROVE WriterOK(x, y)'
    BY <1>3, KeptWriter DEF Keeps, Inv, Open, Heard
<1> QED  BY <1>4, <1>5, <1>6 DEF Inv

LEMMA AcceptInv ==
    ASSUME Inv, NEW c \in Conn, Accept(c)
    PROVE  Inv'
<1>1. /\ state[c]["server"] = "backlog" /\ state' = [state EXCEPT ![c]["server"] = "open"]
      /\ UNCHANGED <<ends, broken, inbox, breaks, waiting, pending, readers, writers, forsaken, doubled, hasty>>
    BY DEF Accept, nodeVars
<1>2. Types /\ "server" \in Side /\ "client" \in Side
    BY DEF Inv, Side
<1>3. Made(c) /\ ConnectionOK(c)
    BY <1>1, <1>2, OpenMade DEF Inv
<1>4. /\ state'[c]["server"] = "open" /\ state'[c]["client"] = state[c]["client"]
      /\ \A e \in Conn : e # c => state'[e] = state[e]
    BY <1>1, <1>2 DEF Types
<1>5. Types'
    BY <1>1, <1>2 DEF Types
<1>6. ASSUME NEW e \in Conn PROVE ConnectionOK(e)'
    <2>1. CASE e # c
        BY <2>1, <1>1, <1>4, SameConnection DEF Same, Inv
    <2>2. CASE e = c
        <3>1. Made(c)'
            BY <1>1, <1>3, <1>4 DEF Made, Side, Client, Server
        <3>2. ServerEnd(c)' /\ ClientEnd(c)'
            BY <1>1, <1>3, <1>4 DEF ConnectionOK, ServerEnd, ClientEnd, Open, Heard, Client, Server
        <3> QED  BY <2>2, <3>1, <3>2, <1>1, <1>3, <1>4 DEF ConnectionOK, Open
    <2> QED  BY <2>1, <2>2
<1>7. ASSUME NEW x \in Node, NEW y \in Node PROVE WriterOK(x, y)'
    <2>1. \A e \in Conn : Keeps(e)
        BY <1>1, <1>4 DEF Keeps, Open, Heard
    <2> QED  BY <2>1, <1>1, KeptWriter DEF Inv, Types
<1> QED  BY <1>5, <1>6, <1>7 DEF Inv

(* What a dial does, and when. *)
Dialled(a, b, c) ==
    /\ Types /\ Vacant(c) /\ a \in Node /\ b \in Node /\ <<a, b>> \in Dials
    /\ "client" \in Side /\ "server" \in Side
    /\ hasty' = IF Overtaken(a, b) THEN hasty \cup {<<a, b>>} ELSE hasty
    /\ pending[<<a, b>>] > 0 /\ pending' = [pending EXCEPT ![<<a, b>>] = @ - 1]
    /\ pending' \in [Dials -> 0 .. MaxPending]
    /\ state'[c]["client"] = "open" /\ state'[c]["server"] = "backlog"
    /\ ends'[c]["client"] = a /\ ends'[c]["server"] = b
    /\ inbox'[c]["server"] = <<"request">> /\ inbox'[c]["client"] = <<>>
    /\ \A e \in Conn : e # c => state'[e] = state[e] /\ ends'[e] = ends[e] /\ inbox'[e] = inbox[e]
    /\ state' \in [Conn -> [Side -> {"none", "backlog", "open", "closed"}]]
    /\ ends' \in [Conn -> [Side -> Node \cup {NoNode}]]
    /\ inbox' \in [Conn -> [Side -> Seq(Packet)]]
    /\ waiting' = waiting \cup {c}
    /\ UNCHANGED <<broken, breaks, readers, writers, forsaken, doubled>>

LEMMA DialEffect ==
    ASSUME Inv, NEW d \in Dials, NEW c \in Conn, Dial(d[1], d[2], c)
    PROVE  Dialled(d[1], d[2], c)
<1> DEFINE a == d[1]
           b == d[2]
<1>0. d = <<a, b>> /\ a \in Node /\ b \in Node /\ "client" \in Side /\ "server" \in Side
    BY MeshnetAssumption DEF Side
<1>1. /\ hasty' = IF Overtaken(a, b) THEN hasty \cup {<<a, b>>} ELSE hasty
      /\ pending[<<a, b>>] > 0 /\ \A s \in Side : state[c][s] = "none"
      /\ pending' = [pending EXCEPT ![<<a, b>>] = @ - 1]
      /\ ends' = [ends EXCEPT ![c] = [s \in Side |-> IF s = "client" THEN a ELSE b]]
      /\ state' = [state EXCEPT ![c] = [s \in Side |-> IF s = "client" THEN "open" ELSE "backlog"]]
      /\ inbox' = [inbox EXCEPT ![c]["server"] = <<"request">>]
      /\ waiting' = waiting \cup {c}
      /\ UNCHANGED <<broken, breaks, readers, writers, forsaken, doubled>>
    BY DEF Dial
<1> HIDE DEF a, b
<1>2. Types
    BY DEF Inv
<1>3. Vacant(c)
    BY <1>0, <1>1 DEF Inv, ConnectionOK, Made
<1>4. /\ state'[c]["client"] = "open" /\ state'[c]["server"] = "backlog"
      /\ ends'[c]["client"] = a /\ ends'[c]["server"] = b
      /\ \A e \in Conn : e # c => state'[e] = state[e] /\ ends'[e] = ends[e]
    BY <1>0, <1>1, <1>2 DEF Types
<1>5. /\ inbox'[c]["server"] = <<"request">> /\ inbox'[c]["client"] = <<>>
      /\ \A e \in Conn : e # c => inbox'[e] = inbox[e]
    BY <1>0, <1>1, <1>2, <1>3 DEF Types, Vacant
<1>6. inbox' \in [Conn -> [Side -> Seq(Packet)]]
    BY <1>0, <1>1, <1>2, FirstPackets DEF Types
<1>7. /\ ends' \in [Conn -> [Side -> Node \cup {NoNode}]]
      /\ state' \in [Conn -> [Side -> {"none", "backlog", "open", "closed"}]]
    BY <1>0, <1>1, <1>2 DEF Types
<1>8. pending' \in [Dials -> 0 .. MaxPending]
    BY <1>0, <1>1, <1>2, MeshnetAssumption DEF Types
<1>9. Dialled(a, b, c)
    BY <1>0, <1>1, <1>2, <1>3, <1>4, <1>5, <1>6, <1>7, <1>8 DEF Dialled
<1> QED  BY <1>9 DEF a, b

LEMMA DialInv ==
    ASSUME Inv, NEW d \in Dials, NEW c \in Conn, Dial(d[1], d[2], c)
    PROVE  Inv'
<1>1. PICK a \in Node, b \in Node : Dialled(a, b, c)
    <2>1. Dialled(d[1], d[2], c)
        BY DialEffect
    <2>2. d[1] \in Node /\ d[2] \in Node
        BY <2>1 DEF Dialled
    <2> QED  BY <2>1, <2>2
<1>2. Types'
    BY <1>1 DEF Dialled, Types
<1>3. ASSUME NEW e \in Conn PROVE ConnectionOK(e)'
    <2>1. CASE e # c
        BY <2>1, <1>1, SameConnection DEF Dialled, Same, Inv
    <2>2. CASE e = c
        <3>1. Made(c)'
            BY <1>1 DEF Dialled, Made, Side, Client, Server
        <3>2. ServerEnd(c)' /\ ClientEnd(c)'
            BY <1>1 DEF Dialled, ServerEnd, ClientEnd, Open
        <3> QED  BY <2>2, <3>1, <3>2, <1>1 DEF Dialled, ConnectionOK, Open
    <2> QED  BY <2>1, <2>2
<1>4. ASSUME NEW x \in Node, NEW y \in Node PROVE WriterOK(x, y)'
    <2>1. writers[x][y] # c
        <3>1. state[c]["client"] = "none" /\ state[c]["server"] = "none" /\ c # NoSid
            BY <1>1, MeshnetAssumption DEF Dialled, Vacant
        <3> QED  BY <3>1 DEF Inv, WriterOK, Open, Heard
    <2>2. \A e \in Conn : e # c => Keeps(e)
        BY <1>1 DEF Dialled, Keeps, Open, Heard
    <2> QED  BY <2>1, <2>2, <1>1, KeptWriter DEF Dialled, Inv, Types
<1> QED  BY <1>2, <1>3, <1>4 DEF Inv

LEMMA ReadDataInv ==
    ASSUME Inv, NEW c \in Conn, NEW side \in Side, ReadData(c, side)
    PROVE  Inv'
<1>1. /\ Open(c, side) /\ inbox[c][side] # <<>> /\ Head(inbox[c][side]) = "data"
      /\ inbox' = [inbox EXCEPT ![c][side] = Tail(@)]
      /\ UNCHANGED <<ends, state, broken, breaks, waiting, pending, readers, writers, forsaken, doubled, hasty>>
    BY DEF ReadData, Receives, nodeVars
<1>2. Types /\ ConnectionOK(c) /\ Made(c)
    BY <1>1, OpenMade DEF Inv, Open
<1>3. /\ inbox'[c][side] = Tail(inbox[c][side])
      /\ \A s \in Side : s # side => inbox'[c][s] = inbox[c][s]
      /\ \A e \in Conn : e # c => inbox'[e] = inbox[e]
    BY <1>1, <1>2 DEF Types
<1>4. Types'
    <2>1. inbox[c][side] \in Seq(Packet)
        BY <1>2 DEF Types
    <2>2. Tail(inbox[c][side]) \in Seq(Packet)
        BY <2>1, <1>1
    <2> QED  BY <2>2, <1>1, <1>2 DEF Types
<1>5. /\ side = "server" => Data(inbox[c]["server"]) /\ Data(inbox'[c]["server"])
      /\ side = "client" => c \notin waiting /\ Data(inbox'[c]["client"])
    <2>1. ASSUME side = "server" PROVE Data(inbox[c]["server"])
        BY <2>1, <1>1, <1>2, FirstPackets DEF ConnectionOK, ServerEnd, Open, Heard
    <2>2. ASSUME side = "client" PROVE c \notin waiting /\ Data(inbox[c]["client"])
        BY <2>2, <1>1, <1>2 DEF ConnectionOK, ClientEnd, Open, Answer
    <2> QED  BY <2>1, <2>2, <1>1, <1>3, DataStream
<1>6. side = "server" \/ side = "client"
    BY DEF Side
<1>7. ASSUME NEW e \in Conn PROVE ConnectionOK(e)'
    <2>1. CASE e # c
        BY <2>1, <1>1, <1>3, SameConnection DEF Same, Inv
    <2>2. CASE e = c
        <3>1. Made(c)'
            BY <1>1, <1>2, <1>3 DEF Made, Side, Client, Server, Open
        <3>2. ServerEnd(c)'
            <4>1. CASE side = "server"
                <5>1. inbox'[c]["client"] = inbox[c]["client"] /\ inbox[c]["server"] # <<"request">>
                    BY <4>1, <1>3, <1>5, FirstPackets DEF Side
                <5> QED  BY <4>1, <5>1, <1>1, <1>2, <1>5 DEF ConnectionOK, ServerEnd, Open, Heard, Chosen, Client, Server
            <4>2. CASE side = "client"
                <5>1. inbox'[c]["server"] = inbox[c]["server"]
                    BY <4>2, <1>3 DEF Side
                <5> QED  BY <4>2, <5>1, <1>1, <1>2, <1>5 DEF ConnectionOK, ServerEnd, Open, Heard, Chosen, Client, Server
            <4> QED  BY <4>1, <4>2, <1>6
        <3>3. ClientEnd(c)'
            BY <1>1, <1>2, <1>3, <1>5, <1>6 DEF ConnectionOK, ClientEnd, Open, Client, Server, Side
        <3> QED  BY <2>2, <3>1, <3>2, <3>3, <1>1, <1>2 DEF ConnectionOK, Open
    <2> QED  BY <2>1, <2>2
<1>8. ASSUME NEW x \in Node, NEW y \in Node PROVE WriterOK(x, y)'
    <2>1. \A e \in Conn : Keeps(e)
        BY <1>1, <1>3, <1>5, <1>6 DEF Keeps, Open, Heard, Side
    <2> QED  BY <2>1, <1>1, KeptWriter DEF Inv, Types
<1> QED  BY <1>4, <1>7, <1>8 DEF Inv

(* exclusive_handshake at the two ends: the server keeps a connection whose client is
   behind NAT or has the smaller identifier, the client one on which it has the smaller
   identifier, when no node behind NAT is dialled.  So the client keeps only what the
   server keeps, and no node keeps a connection to itself. *)
LEMMA Verdicts ==
    ASSUME NatNotDialled, NEW c \in Conn, Made(c)
    PROVE  /\ VerdictAt(c, "server") = "use" <=> Chosen(c)
           /\ VerdictAt(c, "client") = "use" <=> Client(c) < Server(c)
           /\ Client(c) < Server(c) => Chosen(c)
           /\ Chosen(c) => Client(c) # Server(c)
           /\ ~(Client(c) < Server(c) /\ Client(c) = Server(c))
<1>1. /\ Client(c) \in Node /\ Server(c) \in Node /\ <<Client(c), Server(c)>> \in Dials
      /\ Node \subseteq Nat
    BY MeshnetAssumption DEF Made
<1>2. Server(c) \notin BehindNat
    BY <1>1 DEF NatNotDialled
<1>3. /\ VerdictAt(c, "server") = Verdict(Server(c), Client(c), FALSE, Client(c) \in BehindNat)
      /\ VerdictAt(c, "client") = Verdict(Client(c), Server(c), TRUE, Server(c) \in BehindNat)
    BY DEF VerdictAt, At, Peer, Other, Client, Server
<1>4. Client(c) \in Nat /\ Server(c) \in Nat
    BY <1>1
<1> QED  BY <1>2, <1>3, <1>4 DEF Verdict, Chosen

(* on_completed: the two entries of the node for the connection. *)
LEMMA UseEffect ==
    ASSUME Types, NEW c \in Conn, NEW side \in Side, NEW a \in Node, NEW b \in Node,
           a = At(c, side), b = Peer(c, side), UseConnection(c, side)
    PROVE  /\ readers' \in [Node -> [Conn -> Node \cup {NoNode}]]
           /\ writers' \in [Node -> [Node -> Conn \cup {NoSid}]]
           /\ readers'[a][c] = b
           /\ \A x \in Node, e \in Conn : x # a \/ e # c => readers'[x][e] = readers[x][e]
           /\ writers'[a][b] = c
           /\ \A x, y \in Node : x # a \/ y # b => writers'[x][y] = writers[x][y]
<1>1. /\ readers' = [readers EXCEPT ![a] = [readers[a] EXCEPT ![c] = b]]
      /\ writers' = [writers EXCEPT ![a] = [writers[a] EXCEPT ![b] = c]]
    BY DEF UseConnection, Completed
<1> QED  BY <1>1 DEF Types

(* What reading a request does, and when. *)
Requested(c) ==
    /\ Types /\ ConnectionOK(c) /\ Made(c) /\ "server" \in Side /\ "client" \in Side
    /\ Client(c) \in Node /\ Server(c) \in Node /\ Open(c, "server")
    /\ UNCHANGED <<ends, state, broken, breaks, waiting, pending, forsaken, doubled, hasty>>
    /\ inbox[c]["server"] = <<"request">>
    /\ Open(c, "client") => c \in waiting /\ inbox[c]["client"] = <<>>
    /\ inbox'[c]["server"] = <<>>
    /\ inbox'[c]["client"] = IF Reaches(c, "client") THEN Append(inbox[c]["client"], "response")
                                                     ELSE inbox[c]["client"]
    /\ \A e \in Conn : e # c => inbox'[e] = inbox[e]
    /\ inbox' \in [Conn -> [Side -> Seq(Packet)]]
    /\ readers' \in [Node -> [Conn -> Node \cup {NoNode}]]
    /\ writers' \in [Node -> [Node -> Conn \cup {NoSid}]]
    /\ Chosen(c) => /\ readers'[Server(c)][c] = Client(c) /\ writers'[Server(c)][Client(c)] = c
                    /\ Client(c) # Server(c)
    /\ ~Chosen(c) => readers' = readers /\ writers' = writers
    /\ \A x \in Node, e \in Conn : x # Server(c) \/ e # c => readers'[x][e] = readers[x][e]
    /\ \A x, y \in Node : x # Server(c) \/ y # Client(c) => writers'[x][y] = writers[x][y]

LEMMA RequestEffect ==
    ASSUME NatNotDialled, Inv, NEW c \in Conn, ReadRequest(c)
    PROVE  Requested(c)
<1> DEFINE a == Client(c)
           b == Server(c)
<1>1. /\ Open(c, "server") /\ inbox[c]["server"] # <<>> /\ Head(inbox[c]["server"]) = "request"
      /\ inbox' = [inbox EXCEPT ![c] =
                    [s \in Side |-> IF s = "server" THEN Tail(@[s])
                                    ELSE IF Reaches(c, s) THEN Append(@[s], "response") ELSE @[s]]]
      /\ \/ VerdictAt(c, "server") = "use" /\ UseConnection(c, "server")
         \/ VerdictAt(c, "server") = "wait" /\ UNCHANGED <<readers, writers>>
      /\ UNCHANGED <<ends, state, broken, breaks, waiting, pending, forsaken, doubled, hasty>>
    BY DEF ReadRequest, Receives
<1>2. Types /\ ConnectionOK(c) /\ Made(c) /\ "server" \in Side /\ "client" \in Side
    BY <1>1, OpenMade DEF Inv, Open, Side
<1>3. a \in Node /\ b \in Node
    BY <1>2 DEF Made
<1>4. inbox[c]["server"] = <<"request">> /\ (Open(c, "client") => c \in waiting /\ inbox[c]["client"] = <<>>)
    BY <1>1, <1>2, DataStream DEF ConnectionOK, ServerEnd, Open, Heard
<1>5. /\ inbox'[c]["server"] = <<>>
      /\ inbox'[c]["client"] = IF Reaches(c, "client") THEN Append(inbox[c]["client"], "response")
                                                       ELSE inbox[c]["client"]
      /\ \A e \in Conn : e # c => inbox'[e] = inbox[e]
    BY <1>1, <1>2, <1>4, FirstPackets DEF Types
<1>6. inbox' \in [Conn -> [Side -> Seq(Packet)]]
    <2>1. inbox'[c]["server"] \in Seq(Packet) /\ inbox'[c]["client"] \in Seq(Packet)
        BY <1>2, <1>5 DEF Types, Packet
    <2>2. inbox'[c] \in [Side -> Seq(Packet)]
        BY <1>1, <1>2, <2>1 DEF Side, Types
    <2> QED  BY <1>1, <1>2, <2>2 DEF Types
<1>7. /\ readers' \in [Node -> [Conn -> Node \cup {NoNode}]]
      /\ writers' \in [Node -> [Node -> Conn \cup {NoSid}]]
      /\ Chosen(c) => readers'[b][c] = a /\ writers'[b][a] = c
      /\ ~Chosen(c) => readers' = readers /\ writers' = writers
      /\ \A x \in Node, e \in Conn : x # b \/ e # c => readers'[x][e] = readers[x][e]
      /\ \A x, y \in Node : x # b \/ y # a => writers'[x][y] = writers[x][y]
    <2>1. CASE VerdictAt(c, "server") = "use" /\ UseConnection(c, "server")
        <3>1. b = At(c, "server") /\ a = Peer(c, "server") /\ Chosen(c)
            BY <2>1, <1>2, Verdicts DEF At, Peer, Other, Client, Server
        <3> QED  BY <3>1, <2>1, <1>2, <1>3, UseEffect
    <2>2. CASE VerdictAt(c, "server") = "wait" /\ UNCHANGED <<readers, writers>>
        BY <2>2, <1>2, Verdicts DEF Types
    <2> QED  BY <1>1, <2>1, <2>2
<1>8. Chosen(c) => a # b
    BY <1>2, Verdicts
<1> QED  BY <1>1, <1>2, <1>3, <1>4, <1>5, <1>6, <1>7, <1>8 DEF Requested

LEMMA ReadRequestInv ==
    ASSUME NatNotDialled, Inv, NEW c \in Conn, ReadRequest(c)
    PROVE  Inv'
<1> Requested(c)
    BY RequestEffect
<1>1. Types'
    BY DEF Requested, Types
<1>2. Heard(c)' /\ ~Heard(c) /\ ends'[c] = ends[c]
    BY FirstPackets DEF Requested, Heard, Open
<1>3. ASSUME NEW e \in Conn PROVE ConnectionOK(e)'
    <2>1. CASE e # c
        BY <2>1, SameConnection DEF Requested, Same, Inv
    <2>2. CASE e = c
        <3>1. Made(c)'
            BY DEF Requested, Made, Side, Client, Server, Open, Reaches
        <3>2. Open(c, "client") => \/ c \in broken /\ inbox'[c]["client"] = <<>>
                                   \/ Answer(inbox'[c]["client"])
            BY FirstPackets DEF Requested, Reaches, Open
        <3>3. ServerEnd(c)'
            BY <3>2, <1>2 DEF Requested, ServerEnd, Open, Chosen, Answer, Client, Server
        <3>4. ClientEnd(c)'
            BY <3>2 DEF Requested, ClientEnd, Open
        <3> QED  BY <2>2, <3>1, <3>3, <3>4 DEF Requested, ConnectionOK, Open
    <2> QED  BY <2>1, <2>2
<1>4. ASSUME NEW x \in Node, NEW y \in Node PROVE WriterOK(x, y)'
    <2>1. CASE x = Server(c) /\ y = Client(c) /\ Chosen(c)
        BY <2>1, <1>2 DEF Requested, WriterOK, Client, Server
    <2>2. CASE ~(x = Server(c) /\ y = Client(c) /\ Chosen(c))
        <3>1. \A e \in Conn : Keeps(e)
            BY <1>2 DEF Requested, Keeps, Open, Heard
        <3>2. writers'[x][y] = writers[x][y]
            BY <2>2 DEF Requested
        <3>3. ASSUME writers[x][y] = c PROVE x # Server(c)
            BY <3>3, <1>2, MeshnetAssumption DEF Inv, WriterOK
        <3>4. ASSUME writers[x][y] # NoSid PROVE readers'[x][writers[x][y]] = readers[x][writers[x][y]]
            BY <3>3, <3>4 DEF Requested, Types
        <3> QED  BY <3>1, <3>2, <3>4, KeptWriter DEF Inv, Types
    <2> QED  BY <2>1, <2>2
<1> QED  BY <1>1, <1>3, <1>4 DEF Inv

(* What using a connection whose response has come does, and when. *)
Responded(c) ==
    /\ Types /\ ConnectionOK(c) /\ Made(c) /\ "server" \in Side /\ "client" \in Side
    /\ Client(c) \in Node /\ Server(c) \in Node /\ Open(c, "client") /\ c \in waiting
    /\ Client(c) < Server(c) /\ Client(c) # Server(c)
    /\ waiting' = waiting \ {c}
    /\ UNCHANGED <<ends, state, broken, breaks, pending, forsaken, doubled, hasty>>
    /\ Answer(inbox[c]["client"]) /\ inbox'[c]["client"] = Tail(inbox[c]["client"])
    /\ inbox'[c]["server"] = inbox[c]["server"]
    /\ \A e \in Conn : e # c => inbox'[e] = inbox[e]
    /\ inbox' \in [Conn -> [Side -> Seq(Packet)]]
    /\ readers' \in [Node -> [Conn -> Node \cup {NoNode}]]
    /\ writers' \in [Node -> [Node -> Conn \cup {NoSid}]]
    /\ readers'[Client(c)][c] = Server(c) /\ writers'[Client(c)][Server(c)] = c
    /\ \A x \in Node, e \in Conn : x # Client(c) \/ e # c => readers'[x][e] = readers[x][e]
    /\ \A x, y \in Node : x # Client(c) \/ y # Server(c) => writers'[x][y] = writers[x][y]

LEMMA ResponseEffect ==
    ASSUME NatNotDialled, Inv, NEW c \in Conn, ReadResponse(c)
    PROVE  \/ Responded(c)
           \/ /\ Open(c, "client") /\ c \in waiting /\ CloseSocket(c, "client")
              /\ UNCHANGED <<pending, forsaken, doubled, hasty>>
<1> DEFINE a == Client(c)
           b == Server(c)
<1>1. /\ Open(c, "client") /\ inbox[c]["client"] # <<>> /\ Head(inbox[c]["client"]) = "response"
      /\ c \in waiting /\ UNCHANGED <<pending, forsaken, doubled, hasty>>
    BY DEF ReadResponse, Receives
<1>2. Types /\ ConnectionOK(c) /\ Made(c) /\ "server" \in Side /\ "client" \in Side
    BY <1>1, OpenMade DEF Inv, Open, Side
<1>3. a \in Node /\ b \in Node
    BY <1>2 DEF Made
<1>4. Answer(inbox[c]["client"])
    BY <1>1, <1>2 DEF ConnectionOK, ClientEnd
<1>5. CASE VerdictAt(c, "client") = "unusable" /\ CloseSocket(c, "client")
    BY <1>1, <1>5
<1>6. CASE /\ VerdictAt(c, "client") = "use"
           /\ UseConnection(c, "client")
           /\ inbox' = [inbox EXCEPT ![c]["client"] = Tail(@)]
           /\ waiting' = waiting \ {c}
           /\ UNCHANGED <<ends, state, broken, breaks>>
    <2>1. a < b /\ a # b
        BY <1>2, <1>6, Verdicts
    <2>2. a = At(c, "client") /\ b = Peer(c, "client")
        BY DEF At, Peer, Other, Client, Server
    <2>3. /\ readers' \in [Node -> [Conn -> Node \cup {NoNode}]]
          /\ writers' \in [Node -> [Node -> Conn \cup {NoSid}]]
          /\ readers'[a][c] = b /\ writers'[a][b] = c
          /\ \A x \in Node, e \in Conn : x # a \/ e # c => readers'[x][e] = readers[x][e]
          /\ \A x, y \in Node : x # a \/ y # b => writers'[x][y] = writers[x][y]
        BY <2>2, <1>2, <1>3, <1>6, UseEffect
    <2>4. /\ inbox'[c]["client"] = Tail(inbox[c]["client"])
          /\ inbox'[c]["server"] = inbox[c]["server"]
          /\ \A e \in Conn : e # c => inbox'[e] = inbox[e]
        BY <1>2, <1>6 DEF Types
    <2>5. inbox' \in [Conn -> [Side -> Seq(Packet)]]
        <3>1. inbox[c]["client"] \in Seq(Packet)
            BY <1>2 DEF Types
        <3>2. Tail(inbox[c]["client"]) \in Seq(Packet)
            BY <3>1, <1>1
        <3> QED  BY <3>2, <1>2, <1>6 DEF Types
    <2> QED  BY <1>1, <1>2, <1>3, <1>4, <1>6, <2>1, <2>3, <2>4, <2>5 DEF Responded
<1> QED  BY <1>5, <1>6 DEF ReadResponse

LEMMA ReadResponseInv ==
    ASSUME NatNotDialled, Inv, NEW c \in Conn, ReadResponse(c)
    PROVE  Inv'
<1>1. CASE Open(c, "client") /\ CloseSocket(c, "client") /\ UNCHANGED <<pending, forsaken, doubled, hasty>>
    BY <1>1, CloseSocketInv DEF Inv, Types, Side
<1>2. CASE Responded(c)
    <2> USE <1>2
    <2>1. Types'
        BY DEF Responded, Types
    <2>2. ASSUME NEW e \in Conn PROVE ConnectionOK(e)'
        <3>1. CASE e # c
            BY <3>1, SameConnection DEF Same, Inv, Responded
        <3>2. CASE e = c
            <4>1. Made(c)'
                BY DEF Responded, Made, Side, Client, Server, Open
            <4>2. ServerEnd(c)'
                <5>1. inbox[c]["client"] # <<>> /\ readers'[Server(c)][c] = readers[Server(c)][c]
                    BY DEF Responded, Answer
                <5> QED  BY <5>1 DEF Responded, ConnectionOK, ServerEnd, Open, Heard, Chosen, Client, Server
            <4>3. ClientEnd(c)'
                BY DEF Responded, ClientEnd, Open, Answer, Client, Server
            <4> QED  BY <3>2, <4>1, <4>2, <4>3 DEF Responded, ConnectionOK, Open
        <3> QED  BY <3>1, <3>2
    <2>3. ASSUME NEW x \in Node, NEW y \in Node PROVE WriterOK(x, y)'
        <3>1. CASE x = Client(c) /\ y = Server(c)
            BY <3>1, MeshnetAssumption DEF Responded, WriterOK, Client, Server, Open
        <3>2. CASE ~(x = Client(c) /\ y = Server(c))
            <4>1. \A e \in Conn : Keeps(e)
                BY DEF Responded, Keeps, Open, Heard
            <4>2. writers'[x][y] = writers[x][y]
                BY <3>2 DEF Responded
            <4>3. ASSUME writers[x][y] = c PROVE x # Client(c)
                BY <4>3, MeshnetAssumption DEF Responded, Inv, WriterOK
            <4>4. ASSUME writers[x][y] # NoSid PROVE readers'[x][writers[x][y]] = readers[x][writers[x][y]]
                BY <4>3, <4>4 DEF Responded, Types
            <4> QED  BY <4>1, <4>2, <4>4, KeptWriter DEF Inv, Types
        <3> QED  BY <3>1, <3>2
    <2> QED  BY <2>1, <2>2, <2>3 DEF Inv
<1> QED  BY <1>1, <1>2, ResponseEffect

(* node::send() finds the end of its own node, and writes to the other. *)
LEMMA SendSide ==
    ASSUME Inv, NEW x \in Node, NEW y \in Node, NEW c \in Conn, c = writers[x][y]
    PROVE  \/ /\ Other(SideOf(x, c)) = "server"
              /\ Client(c) = x /\ Server(c) = y /\ Open(c, "client") /\ c \notin waiting
           \/ /\ Other(SideOf(x, c)) = "client"
              /\ Client(c) = y /\ Server(c) = x /\ Heard(c)
<1>1. WriterOK(x, y) /\ c # NoSid
    BY MeshnetAssumption DEF Inv
<1>2. CASE Client(c) = x /\ Server(c) = y /\ Open(c, "client") /\ c \notin waiting
    <2>1. \A s \in Side : ends[c][s] = x <=> s = "client"
        BY <1>1, <1>2 DEF WriterOK, Side, Client, Server
    <2>2. SideOf(x, c) = "client"
        BY <2>1 DEF SideOf, Side
    <2> QED  BY <2>2, <1>2 DEF Other
<1>3. CASE Client(c) = y /\ Server(c) = x /\ Heard(c)
    <2>1. \A s \in Side : ends[c][s] = x <=> s = "server"
        BY <1>1, <1>3 DEF WriterOK, Side, Client, Server
    <2>2. SideOf(x, c) = "server"
        BY <2>1 DEF SideOf, Side
    <2> QED  BY <2>2, <1>3 DEF Other
<1> QED  BY <1>1, <1>2, <1>3 DEF WriterOK

LEMMA SendInv ==
    ASSUME Inv, NEW x0 \in Node, NEW y0 \in Node, Send(x0, y0)
    PROVE  Inv'
<1>1. /\ writers[x0][y0] # NoSid
      /\ Put(writers[x0][y0], Other(SideOf(x0, writers[x0][y0])), "data")
      /\ UNCHANGED <<ends, state, broken, breaks, waiting, pending, readers, writers, forsaken, doubled, hasty>>
    BY DEF Send, nodeVars
<1>2. Types
    BY DEF Inv
<1>3. PICK c \in Conn : c = writers[x0][y0]
    BY <1>1, <1>2 DEF Types
<1>4. PICK side \in Side :
        /\ side = Other(SideOf(x0, c))
        /\ \/ side = "server" /\ Client(c) = x0 /\ Server(c) = y0 /\ Open(c, "client") /\ c \notin waiting
           \/ side = "client" /\ Client(c) = y0 /\ Server(c) = x0 /\ Heard(c)
    BY <1>3, SendSide DEF Side
<1>5. side \in Side /\ "client" \in Side /\ "server" \in Side
    BY <1>4 DEF Side
<1>6. Made(c) /\ ConnectionOK(c)
    BY <1>3, <1>4, <1>5, OpenMade DEF Inv, Open, Heard
<1>7. CASE ~Reaches(c, side)
    <2>1. inbox' = inbox
        BY <1>1, <1>3, <1>4, <1>7 DEF Put
    <2>2. \A e \in Conn : Same(e)
        BY <1>1, <2>1 DEF Same
    <2>3. Types' /\ (\A e \in Conn : ConnectionOK(e)')
        BY <1>1, <1>2, <2>1, <2>2, SameConnection DEF Types, Inv
    <2>4. ASSUME NEW x \in Node, NEW y \in Node PROVE WriterOK(x, y)'
        BY <2>2, <1>1, KeptWriter, SameKeeps DEF Inv, Types
    <2> QED  BY <2>3, <2>4 DEF Inv
<1>8. CASE Reaches(c, side)
    <2>1. inbox' = [inbox EXCEPT ![c][side] = Append(@, "data")]
        BY <1>1, <1>3, <1>4, <1>8 DEF Put
    <2>2. /\ inbox'[c][side] = Append(inbox[c][side], "data")
          /\ \A s \in Side : s # side => inbox'[c][s] = inbox[c][s]
          /\ \A e \in Conn : e # c => inbox'[e] = inbox[e]
        BY <1>2, <1>3, <1>5, <2>1 DEF Types
    <2>3. inbox[c][side] \in Seq(Packet) /\ Append(inbox[c][side], "data") \in Seq(Packet)
        BY <1>2, <1>3, <1>5 DEF Types, Packet
    <2>4. Append(inbox[c][side], "data") # <<>>
        BY <2>3
    <2>5. Types'
        BY <1>1, <1>2, <1>3, <1>5, <2>1, <2>3 DEF Types
    <2>7. /\ side = "server" => /\ Client(c) < Server(c) /\ Data(inbox[c]["server"])
                                /\ Heard(c) /\ Data(inbox'[c]["server"])
          /\ side = "client" => \/ c \in waiting /\ Answer(inbox[c]["client"]) /\ Answer(inbox'[c]["client"])
                                \/ c \notin waiting /\ Data(inbox[c]["client"]) /\ Data(inbox'[c]["client"])
        <3>1. ASSUME side = "server"
              PROVE  /\ Client(c) < Server(c) /\ Data(inbox[c]["server"])
                     /\ Heard(c) /\ Data(inbox'[c]["server"])
            <4>1. Client(c) < Server(c)
                BY <3>1, <1>4, <1>6 DEF ConnectionOK, ClientEnd
            <4>2. Heard(c)
                BY <3>1, <1>4, <1>6, <1>8 DEF ConnectionOK, ServerEnd, Reaches
            <4> QED  BY <4>1, <4>2, <3>1, <2>2, DataStream DEF Heard
        <3>2. ASSUME side = "client"
              PROVE  \/ c \in waiting /\ Answer(inbox[c]["client"]) /\ Answer(inbox'[c]["client"])
                     \/ c \notin waiting /\ Data(inbox[c]["client"]) /\ Data(inbox'[c]["client"])
            <4>1. Open(c, "client") /\ c \notin broken /\ Heard(c) /\ inbox[c]["server"] # <<"request">>
                BY <3>2, <1>4, <1>6, <1>8, FirstPackets DEF Reaches, Made, Open, Heard
            <4>2. c \in waiting => inbox[c]["client"] # <<>>
                BY <4>1, <1>6 DEF ConnectionOK, ServerEnd, Heard, Open
            <4> QED  BY <4>1, <4>2, <3>2, <2>2, <2>3, <1>6, DataStream, AnswerStream DEF ConnectionOK, ClientEnd
        <3> QED  BY <3>1, <3>2
    <2>8. ASSUME NEW e \in Conn PROVE ConnectionOK(e)'
        <3>1. CASE e # c
            BY <3>1, <1>1, <2>2, SameConnection DEF Same, Inv
        <3>2. CASE e = c
            <4>1. Made(c)'
                BY <1>1, <1>6, <1>8, <2>2 DEF Made, Side, Client, Server, Reaches
            <4>2. CASE side = "server"
                <5>1. inbox'[c]["client"] = inbox[c]["client"] /\ inbox[c]["server"] # <<"request">>
                    BY <4>2, <2>2, <2>7, <1>5, FirstPackets
                <5>2. ServerEnd(c)'
                    BY <4>2, <5>1, <1>1, <1>6, <2>7 DEF ConnectionOK, ServerEnd, Open, Heard, Chosen, Client, Server
                <5>3. ClientEnd(c)'
                    BY <5>1, <1>1, <1>6 DEF ConnectionOK, ClientEnd, Open, Client, Server
                <5> QED  BY <3>2, <4>1, <5>2, <5>3, <1>1, <1>6 DEF ConnectionOK, Open
            <4>3. CASE side = "client"
                <5>1. /\ inbox'[c]["server"] = inbox[c]["server"] /\ Heard(c)
                      /\ inbox[c]["server"] # <<"request">> /\ inbox'[c]["client"] # <<>>
                    BY <4>3, <2>2, <2>4, <1>4, <1>5, FirstPackets DEF Heard
                <5>2. ServerEnd(c)'
                    BY <4>3, <5>1, <1>1, <1>6 DEF ConnectionOK, ServerEnd, Open, Heard, Chosen, Client, Server
                <5>3. ClientEnd(c)'
                    BY <4>3, <2>7, <1>1, <1>6 DEF ConnectionOK, ClientEnd, Open, Client, Server
                <5> QED  BY <3>2, <4>1, <5>2, <5>3, <1>1, <1>6 DEF ConnectionOK, Open
            <4> QED  BY <4>2, <4>3, <1>4
        <3> QED  BY <3>1, <3>2
    <2>9. ASSUME NEW x \in Node, NEW y \in Node PROVE WriterOK(x, y)'
        <3>1. \A e \in Conn : Keeps(e)
            BY <1>1, <1>5, <2>2, <2>7, <1>4 DEF Keeps, Open, Heard
        <3> QED  BY <3>1, <1>1, KeptWriter DEF Inv, Types
    <2> QED  BY <2>5, <2>8, <2>9 DEF Inv
<1> QED  BY <1>7, <1>8

LEMMA NextInv ==
    ASSUME NatNotDialled, Inv, [Next]_vars
    PROVE  Inv'
<1>1. ASSUME NEW d \in Dials, NEW c \in Conn, Dial(d[1], d[2], c) PROVE Inv'
    BY <1>1, DialInv
<1>2. ASSUME NEW c \in Conn, Accept(c) \/ Loss(c) \/ Read(c) \/ Break(c) PROVE Inv'
    BY <1>2, AcceptInv, LoseInv, LoseUnannouncedInv, ReadRequestInv, ReadResponseInv, ReadDataInv,
       BreakInv DEF Loss, Read
<1>3. ASSUME NEW a \in Node, NEW b \in Node, Send(a, b) PROVE Inv'
    BY <1>3, SendInv
<1>4. CASE UNCHANGED vars
    <2>1. UNCHANGED <<ends, state, broken, inbox, breaks, waiting, pending, readers, writers, forsaken, doubled, hasty>>
        BY <1>4 DEF vars, netVars, nodeVars
    <2>2. Types' /\ \A e \in Conn : Same(e)
        BY <2>1 DEF Inv, Types, Same
    <2> QED  BY <2>1, <2>2, SameConnection, KeptWriter, SameKeeps DEF Inv, Types
<1> QED  BY <1>1, <1>2, <1>3, <1>4 DEF Next

LEMMA InvDataFindsReader ==
    ASSUME Inv
    PROVE  DataFindsReader
<1>1. TypeOK
    BY DEF Inv, Types, TypeOK, ConnectionOK, Open, Packet
<1>2. ASSUME NEW c \in Conn, NEW side \in Side, Receives(c, side, "data")
      PROVE  readers[At(c, side)][c] = Peer(c, side)
    <2>1. Open(c, side) /\ inbox[c][side] # <<>> /\ Head(inbox[c][side]) = "data" /\ ConnectionOK(c)
        BY <1>2 DEF Receives, Inv
    <2>2. CASE side = "server"
        BY <2>1, <2>2, FirstPackets
        DEF ConnectionOK, ServerEnd, Open, Chosen, At, Peer, Other, Client, Server
    <2>3. CASE side = "client"
        BY <2>1, <2>3 DEF ConnectionOK, ClientEnd, Answer, At, Peer, Other, Client, Server
    <2> QED  BY <2>2, <2>3 DEF Side
<1> QED  BY <1>1, <1>2 DEF DataFindsReader

(* A message that arrives finds the reader of the node that sent it, however often the
   network breaks connections, whoever dials whom and however many dials a lost connection
   schedules, if no node behind NAT is dialled. *)
THEOREM MeshDataFindsReader == NatNotDialled => (Spec => []DataFindsReader)
<1> SUFFICES ASSUME NatNotDialled PROVE Spec => []DataFindsReader
    OBVIOUS
<1>1. Init => Inv
    BY InitInv
<1>2. Inv /\ [Next]_vars => Inv'
    BY NextInv
<1>3. Inv => DataFindsReader
    BY InvDataFindsReader
<1> QED  BY <1>1, <1>2, <1>3, PTL DEF Spec

-----------------------------------------------------------------------------
(* What holds of the dials of which no loss was scheduled twice *)

Once(c) == <<Client(c), Server(c)>> \notin doubled

(* Of the scheduled dial and the connections of a pair that the dialling node has open,
   there is at most one. *)
DialsOnce ==
    /\ \A d \in Dials : d \notin doubled => pending[d] <= 1
    /\ \A c \in Conn : Open(c, "client") /\ Once(c) => pending[<<Client(c), Server(c)>>] = 0
    /\ \A c, e \in Conn : /\ Open(c, "client") /\ Open(e, "client") /\ Once(c)
                          /\ Client(c) = Client(e) /\ Server(c) = Server(e)
                          => c = e

(* A reader is of a node that the identifiers allow, also one that close_channel() left
   behind when it closed the other socket of a channel. *)
ReaderRole ==
    \A x, y \in Node, c \in Conn : readers[x][c] = y =>
        \/ <<x, y>> \in Dials /\ x < y
        \/ <<y, x>> \in Dials /\ (y \in BehindNat \/ y < x)

(* On the dialling side none is left behind. *)
ClientReader ==
    \A x, y \in Node, c \in Conn :
        readers[x][c] = y /\ <<x, y>> \in Dials /\ <<x, y>> \notin doubled /\ x < y =>
        Client(c) = x /\ Server(c) = y /\ Open(c, "client") /\ c \notin waiting

(* The dialling node writes on the connection it keeps. *)
ClientKept ==
    \A c \in Conn : Open(c, "client") /\ c \notin waiting /\ Once(c) => writers[Client(c)][Server(c)] = c

OnceInv == DialsOnce /\ ReaderRole /\ ClientReader /\ ClientKept

(* Closing ends connections and begins none. *)
LEMMA ShutsFewer ==
    ASSUME Inv, NEW a \in Node, NEW c \in Conn, NEW cs \in SUBSET Conn, Shuts(a, c, cs),
           NEW e \in Conn, NEW s \in Side, state'[e][s] \in {"backlog", "open"}
    PROVE  /\ ~Freed(a, cs, e) /\ ~Closes(a, cs, e, s) /\ state'[e][s] = state[e][s]
           /\ inbox'[e][s] = inbox[e][s]
           /\ ends'[e]["client"] = ends[e]["client"] /\ ends'[e]["server"] = ends[e]["server"]
    BY DEF Shuts, Side

LEMMA ShutsOnce ==
    ASSUME Inv, OnceInv, NEW a \in Node, NEW c \in Conn, NEW cs \in SUBSET Conn, Shuts(a, c, cs),
           doubled \subseteq doubled'
    PROVE  ReaderRole' /\ ClientReader' /\ ClientKept'
<1>0. "client" \in Side /\ "server" \in Side /\ NoNode \notin Node
    BY MeshnetAssumption DEF Side
<1>1. \A x, y \in Node, e \in Conn : readers'[x][e] = y => readers[x][e] = y
    BY <1>0 DEF Shuts
<1>2. ReaderRole'
    BY <1>1 DEF OnceInv, ReaderRole
<1>3. ClientReader'
    <2> SUFFICES ASSUME NEW x \in Node, NEW y \in Node, NEW e \in Conn,
                        readers'[x][e] = y, <<x, y>> \in Dials, <<x, y>> \notin doubled', x < y
                 PROVE  (Client(e) = x /\ Server(e) = y /\ Open(e, "client") /\ e \notin waiting)'
        BY DEF ClientReader
    <2>1. readers[x][e] = y /\ Client(e) = x /\ Server(e) = y /\ Open(e, "client") /\ e \notin waiting
        BY <1>1 DEF OnceInv, ClientReader
    <2>2. ~Closes(a, cs, e, "client")
        <3>1. SUFFICES ASSUME e \in cs, x = a PROVE FALSE
            BY <2>1 DEF Closes, Client
        <3>2. e # c
            BY <3>1, <1>0 DEF Shuts
        <3>3. readers[a][c] \in Node /\ e = writers[a][readers[a][c]]
            BY <3>1, <3>2 DEF Shuts
        <3>4. readers[a][e] = readers[a][c]
            BY <3>3, MeshnetAssumption DEF Inv, WriterOK
        <3>5. Client(c) = x /\ Server(c) = y /\ Open(c, "client")
            BY <3>1, <3>4, <2>1 DEF OnceInv, ClientReader
        <3> QED  BY <3>2, <3>5, <2>1 DEF OnceInv, DialsOnce, Once
    <2>3. ~Freed(a, cs, e)
        BY <2>1, <2>2, <1>0 DEF Freed, Open
    <2> QED  BY <2>1, <2>2, <2>3, <1>0 DEF Shuts, Client, Server, Open
<1>4. ClientKept'
    <2> SUFFICES ASSUME NEW e \in Conn, Open(e, "client")', e \notin waiting', Once(e)'
                 PROVE  writers'[Client(e)'][Server(e)'] = e
        BY DEF ClientKept
    <2>1. /\ ~Closes(a, cs, e, "client") /\ Open(e, "client")
          /\ Client(e)' = Client(e) /\ Server(e)' = Server(e)
        BY <1>0, ShutsFewer DEF Open, Client, Server
    <2>2. e \notin waiting /\ Once(e)
        BY <2>1 DEF Shuts, Once
    <2>3. writers[Client(e)][Server(e)] = e /\ Client(e) \in Node /\ Server(e) \in Node
        BY <2>1, <2>2, <1>0, OpenMade DEF OnceInv, ClientKept, Made, Open
    <2> QED  BY <2>1, <2>3 DEF Shuts, Closes, Client
<1> QED  BY <1>2, <1>3, <1>4

(* Closing with nothing scheduled, or with the lost connection scheduled once, or more often,
   which is remembered. *)
LEMMA CloseSocketOnce ==
    ASSUME Inv, OnceInv, NEW c \in Conn, NEW side \in Side, Open(c, side), CloseSocket(c, side),
           doubled \subseteq doubled',
           \/ pending' = pending
           \/ /\ side = "client"
              /\ \E k \in Nat : /\ pending' = [pending EXCEPT ![<<Client(c), Server(c)>>] = @ + k]
                                /\ k = 1 \/ <<Client(c), Server(c)>> \in doubled'
    PROVE  OnceInv'
<1> DEFINE a == At(c, side)
<1>1. PICK cs \in SUBSET Conn : Shuts(a, c, cs)
    BY CloseSocketShuts
<1>2. a \in Node
    BY CloseSocketShuts
<1>3. Made(c) /\ "client" \in Side /\ pending \in [Dials -> 0 .. MaxPending] /\ MaxPending \in Nat
    BY OpenMade, MeshnetAssumption DEF Open, Inv, Types, Side
<1>4. side = "client" => Closes(a, cs, c, "client")
    BY <1>1 DEF Closes, At, Shuts
<1> HIDE DEF a
<1>5. ReaderRole' /\ ClientReader' /\ ClientKept'
    BY <1>1, <1>2, ShutsOnce
<1>6. ASSUME NEW e \in Conn, Open(e, "client")'
      PROVE  /\ Open(e, "client") /\ ~Closes(a, cs, e, "client")
             /\ Client(e)' = Client(e) /\ Server(e)' = Server(e)
             /\ <<Client(e), Server(e)>> \in Dials
    <2>1. /\ Open(e, "client") /\ ~Closes(a, cs, e, "client")
          /\ Client(e)' = Client(e) /\ Server(e)' = Server(e)
        BY <1>1, <1>2, <1>3, <1>6, ShutsFewer DEF Open, Client, Server
    <2> QED  BY <2>1, <1>3, OpenMade DEF Open, Made
<1>7. CASE pending' = pending
    <2>1. \A e \in Conn : Open(e, "client")' /\ Once(e)' => Once(e)
        BY <1>6 DEF Once
    <2>2. DialsOnce'
        BY <1>6, <1>7, <2>1 DEF OnceInv, DialsOnce
    <2> QED  BY <2>2, <1>5 DEF OnceInv
<1>8. ASSUME side = "client", NEW k \in Nat,
             pending' = [pending EXCEPT ![<<Client(c), Server(c)>>] = @ + k],
             k = 1 \/ <<Client(c), Server(c)>> \in doubled'
      PROVE  OnceInv'
    <2> DEFINE p == <<Client(c), Server(c)>>
    <2>1. p \in Dials /\ Open(c, "client") /\ (p \notin doubled' => pending[p] = 0)
        BY <1>3, <1>8 DEF Made, OnceInv, DialsOnce, Once
    <2>2. /\ p \notin doubled' => pending'[p] = 1
          /\ \A d \in Dials : d # p => pending'[d] = pending[d]
        BY <2>1, <1>3, <1>8
    <2>3. ASSUME NEW e \in Conn, Open(e, "client")', Once(e)' PROVE Once(e) /\ <<Client(e), Server(e)>> # p
        <3>1. Open(e, "client") /\ e # c /\ Once(e)
            BY <1>4, <1>6, <1>8, <2>3 DEF Once
        <3> QED  BY <3>1, <2>1 DEF OnceInv, DialsOnce
    <2> HIDE DEF p
    <2>4. \A d \in Dials : d \notin doubled' => pending'[d] <= 1
        BY <2>2 DEF OnceInv, DialsOnce
    <2>5. ASSUME NEW e \in Conn, Open(e, "client")', Once(e)'
          PROVE  pending'[<<Client(e)', Server(e)'>>] = 0
        BY <1>6, <2>2, <2>3, <2>5 DEF OnceInv, DialsOnce
    <2>6. ASSUME NEW e \in Conn, NEW f \in Conn, Open(e, "client")', Open(f, "client")', Once(e)',
                 Client(e)' = Client(f)', Server(e)' = Server(f)'
          PROVE  e = f
        BY <1>6, <2>3, <2>6 DEF OnceInv, DialsOnce
    <2>7. DialsOnce'
        BY <2>4, <2>5, <2>6 DEF DialsOnce
    <2> QED  BY <2>7, <1>5 DEF OnceInv
<1> QED  BY <1>7, <1>8

LEMMA InitOnce == Init => OnceInv
<1> SUFFICES ASSUME Init PROVE OnceInv
    OBVIOUS
<1>1. DialsOnce
    BY DEF Init, DialsOnce, Open, Side
<1>2. ReaderRole /\ ClientReader
    BY MeshnetAssumption DEF Init, ReaderRole, ClientReader
<1>3. ClientKept
    BY DEF Init, ClientKept, Open, Side
<1> QED  BY <1>1, <1>2, <1>3 DEF OnceInv

(* Steps that touch neither a client's end nor a node's maps. *)
LEMMA OnceUntouched ==
    ASSUME OnceInv, \A c \in Conn : state'[c]["client"] = state[c]["client"],
           UNCHANGED <<ends, waiting, pending, readers, writers, doubled>>
    PROVE  OnceInv'
    BY DEF OnceInv, DialsOnce, ReaderRole, ClientReader, ClientKept, Once, Open, Client, Server

LEMMA LoseOnce ==
    ASSUME Inv, OnceInv, NEW c \in Conn, NEW side \in Side,
           Lose(c, side) \/ LoseUnannounced(c, side)
    PROVE  OnceInv'
<1>1. /\ Open(c, side) /\ CloseSocket(c, side)
      /\ ScheduleReconnection(c, side) \/ UNCHANGED <<pending, doubled>>
    BY DEF Lose, LoseUnannounced
<1>2. CASE UNCHANGED <<pending, doubled>>
    BY <1>1, <1>2, CloseSocketOnce
<1>3. ASSUME side = "client", NEW k \in Repeats,
             pending' = [pending EXCEPT ![<<At(c, side), Peer(c, side)>>] = @ + k],
             doubled' = IF k > 1 THEN doubled \cup {<<At(c, side), Peer(c, side)>>} ELSE doubled
      PROVE  OnceInv'
    <2>1. At(c, side) = Client(c) /\ Peer(c, side) = Server(c)
        BY <1>3 DEF At, Peer, Other, Client, Server
    <2>2. k \in Nat /\ (k = 1 \/ k > 1)
        BY MeshnetAssumption
    <2>3. doubled \subseteq doubled' /\ (k = 1 \/ <<Client(c), Server(c)>> \in doubled')
        BY <1>3, <2>1, <2>2
    <2>4. pending' = [pending EXCEPT ![<<Client(c), Server(c)>>] = @ + k]
        BY <1>3, <2>1
    <2> QED  BY <1>1, <1>3, <2>2, <2>3, <2>4, CloseSocketOnce
<1> QED  BY <1>1, <1>2, <1>3 DEF ScheduleReconnection

LEMMA DialOnce ==
    ASSUME Inv, OnceInv, NEW d \in Dials, NEW c \in Conn, Dial(d[1], d[2], c)
    PROVE  OnceInv'
<1>1. PICK a \in Node, b \in Node : Dialled(a, b, c)
    <2>1. Dialled(d[1], d[2], c)
        BY DialEffect
    <2>2. d[1] \in Node /\ d[2] \in Node
        BY <2>1 DEF Dialled
    <2> QED  BY <2>1, <2>2
<1>2. /\ <<a, b>> \in Dials /\ pending \in [Dials -> 0 .. MaxPending] /\ MaxPending \in Nat
      /\ pending[<<a, b>>] > 0 /\ pending' = [pending EXCEPT ![<<a, b>>] = @ - 1] /\ doubled' = doubled
    BY <1>1, MeshnetAssumption DEF Dialled, Types
<1>3. <<a, b>> \notin doubled => pending[<<a, b>>] = 1
    BY <1>2 DEF OnceInv, DialsOnce
<1>4. (<<a, b>> \notin doubled => pending'[<<a, b>>] = 0) /\ \A p \in Dials : p # <<a, b>> => pending'[p] = pending[p]
    BY <1>2, <1>3
<1>5. /\ Open(c, "client")' /\ Client(c)' = a /\ Server(c)' = b /\ ~Open(c, "client")
      /\ UNCHANGED <<readers, writers>> /\ waiting' = waiting \cup {c}
    BY <1>1 DEF Dialled, Open, Client, Server, Vacant
<1>6. \A e \in Conn : e # c => /\ Open(e, "client")' <=> Open(e, "client")
                               /\ Client(e)' = Client(e) /\ Server(e)' = Server(e)
    BY <1>1 DEF Dialled, Open, Client, Server
<1>7. ASSUME NEW e \in Conn, Open(e, "client")
      PROVE  /\ e # c /\ <<Client(e), Server(e)>> \in Dials
             /\ Once(e) => <<Client(e), Server(e)>> # <<a, b>>
    BY <1>3, <1>5, <1>7, OpenMade DEF OnceInv, DialsOnce, Once, Open, Side, Made
<1>8. DialsOnce'
    <2>1. \A p \in Dials : p \notin doubled' => pending'[p] <= 1
        BY <1>2, <1>4 DEF OnceInv, DialsOnce
    <2>2. ASSUME NEW e \in Conn, Open(e, "client")', Once(e)'
          PROVE  pending'[<<Client(e)', Server(e)'>>] = 0
        BY <2>2, <1>2, <1>4, <1>5, <1>6, <1>7 DEF OnceInv, DialsOnce, Once
    <2>3. ASSUME NEW e \in Conn, NEW f \in Conn, Open(e, "client")', Open(f, "client")', Once(e)',
                 Client(e)' = Client(f)', Server(e)' = Server(f)'
          PROVE  e = f
        BY <2>3, <1>2, <1>5, <1>6, <1>7 DEF OnceInv, DialsOnce, Once
    <2> QED  BY <2>1, <2>2, <2>3 DEF DialsOnce
<1>9. ReaderRole'
    BY <1>5 DEF OnceInv, ReaderRole
<1>10. ClientReader'
    BY <1>2, <1>5, <1>6 DEF OnceInv, ClientReader
<1>11. ClientKept'
    BY <1>2, <1>5, <1>6 DEF OnceInv, ClientKept, Once
<1> QED  BY <1>8, <1>9, <1>10, <1>11 DEF OnceInv

(* The server registers a reader that is not one of a connection it dials itself. *)
LEMMA ReadRequestOnce ==
    ASSUME NatNotDialled, Inv, OnceInv, NEW c \in Conn, ReadRequest(c)
    PROVE  OnceInv'
<1> Requested(c)
    BY RequestEffect
<1>1. CASE ~Chosen(c)
    BY <1>1, OnceUntouched DEF Requested
<1>2. CASE Chosen(c)
    <2> DEFINE a == Client(c)
               b == Server(c)
    <2>1. /\ a \in Node /\ b \in Node /\ <<a, b>> \in Dials /\ (a \in BehindNat \/ a < b)
          /\ readers'[b][c] = a
          /\ \A x \in Node, e \in Conn : x # b \/ e # c => readers'[x][e] = readers[x][e]
          /\ \A x, y \in Node : x # b \/ y # a => writers'[x][y] = writers[x][y]
          /\ UNCHANGED <<ends, state, waiting, pending, doubled>>
        BY <1>2 DEF Requested, Chosen, Made
    <2>2. \A e \in Conn : /\ Open(e, "client")' <=> Open(e, "client")
                          /\ Client(e)' = Client(e) /\ Server(e)' = Server(e)
        BY <2>1 DEF Open, Client, Server
    <2>3. ~(<<b, a>> \in Dials /\ b < a)
        <3>1. <<b, a>> \in Dials => a \notin BehindNat
            BY DEF NatNotDialled
        <3>2. a \in Nat /\ b \in Nat
            BY <2>1, MeshnetAssumption
        <3> QED  BY <3>1, <3>2, <2>1
    <2> HIDE DEF a, b
    <2>4. DialsOnce'
        BY <2>1, <2>2 DEF OnceInv, DialsOnce, Once
    <2>5. ReaderRole'
        BY <2>1 DEF OnceInv, ReaderRole
    <2>6. ClientReader'
        BY <2>1, <2>2, <2>3 DEF OnceInv, ClientReader
    <2>7. ClientKept'
        <3> SUFFICES ASSUME NEW e \in Conn, Open(e, "client"), e \notin waiting, Once(e)
                     PROVE  writers'[Client(e)][Server(e)] = e
            BY <2>1, <2>2 DEF ClientKept, Once
        <3>1. /\ Client(e) < Server(e) /\ Client(e) \in Node /\ Server(e) \in Node
              /\ <<Client(e), Server(e)>> \in Dials
            BY OpenMade DEF Made, Inv, ConnectionOK, ClientEnd, Open, Side
        <3>2. writers[Client(e)][Server(e)] = e
            BY DEF OnceInv, ClientKept
        <3>3. ~(Client(e) = b /\ Server(e) = a)
            BY <3>1, <2>3
        <3> QED  BY <3>1, <3>2, <3>3, <2>1
    <2> QED  BY <2>4, <2>5, <2>6, <2>7 DEF OnceInv
<1> QED  BY <1>1, <1>2

LEMMA ReadResponseOnce ==
    ASSUME NatNotDialled, Inv, OnceInv, NEW c \in Conn, ReadResponse(c)
    PROVE  OnceInv'
<1>1. CASE Open(c, "client") /\ CloseSocket(c, "client") /\ UNCHANGED <<pending, doubled>>
    BY <1>1, CloseSocketOnce DEF Side
<1>2. CASE Responded(c)
    <2> DEFINE a == Client(c)
               b == Server(c)
    <2>1. /\ a \in Node /\ b \in Node /\ <<a, b>> \in Dials /\ a < b
          /\ readers'[a][c] = b /\ writers'[a][b] = c /\ Open(c, "client")
          /\ \A x \in Node, e \in Conn : x # a \/ e # c => readers'[x][e] = readers[x][e]
          /\ \A x, y \in Node : x # a \/ y # b => writers'[x][y] = writers[x][y]
          /\ UNCHANGED <<ends, state, pending, doubled>> /\ waiting' = waiting \ {c}
        BY <1>2 DEF Responded, Made
    <2>2. \A e \in Conn : /\ Open(e, "client")' <=> Open(e, "client")
                          /\ Client(e)' = Client(e) /\ Server(e)' = Server(e)
        BY <2>1 DEF Open, Client, Server
    <2>3. a = Client(c) /\ b = Server(c)
        OBVIOUS
    <2> HIDE DEF a, b
    <2>4. DialsOnce'
        BY <2>1, <2>2 DEF OnceInv, DialsOnce, Once
    <2>5. ReaderRole'
        BY <2>1 DEF OnceInv, ReaderRole
    <2>6. ClientReader'
        BY <2>1, <2>2, <2>3 DEF OnceInv, ClientReader
    <2>7. ClientKept'
        <3> SUFFICES ASSUME NEW e \in Conn, Open(e, "client"), e \notin waiting', e # c, Once(e)
                     PROVE  writers'[Client(e)][Server(e)] = e
            BY <2>1, <2>2, <2>3 DEF ClientKept, Once
        <3>1. Client(e) \in Node /\ Server(e) \in Node
            BY OpenMade DEF Made, Open, Side
        <3>2. writers[Client(e)][Server(e)] = e
            BY <2>1 DEF OnceInv, ClientKept
        <3>3. ~(Client(e) = a /\ Server(e) = b)
            BY <2>1, <2>3 DEF OnceInv, DialsOnce
        <3> QED  BY <3>1, <3>2, <3>3, <2>1
    <2> QED  BY <2>4, <2>5, <2>6, <2>7 DEF OnceInv
<1> QED  BY <1>1, <1>2, ResponseEffect

LEMMA NextOnce ==
    ASSUME NatNotDialled, Inv, OnceInv, [Next]_vars
    PROVE  OnceInv'
<1>1. ASSUME NEW d \in Dials, NEW c \in Conn, Dial(d[1], d[2], c) PROVE OnceInv'
    BY <1>1, DialOnce
<1>2. ASSUME NEW c \in Conn, Accept(c) \/ Break(c) \/ \E side \in Side : ReadData(c, side) PROVE OnceInv'
    <2>1. UNCHANGED <<ends, waiting, pending, readers, writers, doubled>>
        BY <1>2 DEF Accept, Break, ReadData, nodeVars
    <2>2. \A e \in Conn : state'[e]["client"] = state[e]["client"]
        <3>1. state' = state \/ state' = [state EXCEPT ![c]["server"] = "open"]
            BY <1>2 DEF Accept, Break, ReadData
        <3>2. state \in [Conn -> [Side -> {"none", "backlog", "open", "closed"}]] /\ "client" \in Side
            BY DEF Inv, Types, Side
        <3> QED  BY <3>1, <3>2
    <2> QED  BY <2>1, <2>2, OnceUntouched
<1>3. ASSUME NEW c \in Conn, Loss(c) PROVE OnceInv'
    BY <1>3, LoseOnce DEF Loss
<1>4. ASSUME NEW c \in Conn, ReadRequest(c) \/ ReadResponse(c) PROVE OnceInv'
    BY <1>4, ReadRequestOnce, ReadResponseOnce
<1>5. ASSUME NEW a \in Node, NEW b \in Node, Send(a, b) PROVE OnceInv'
    BY <1>5, OnceUntouched DEF Send, nodeVars
<1>6. CASE UNCHANGED vars
    BY <1>6, OnceUntouched DEF vars, netVars, nodeVars
<1> QED  BY <1>1, <1>2, <1>3, <1>4, <1>5, <1>6 DEF Next, Read

LEMMA OnceOneMaster ==
    ASSUME Inv, OnceInv
    PROVE  OneMaster
<1>1. ASSUME NEW c \in Conn, Uses(c)
      PROVE  /\ Open(c, "client") /\ Client(c) < Server(c) /\ Client(c) \in Nat /\ Server(c) \in Nat
             /\ {At(c, s) : s \in Side} = {Client(c), Server(c)}
    <2>1. Open(c, "client") /\ c \notin waiting
        BY <1>1 DEF Uses, Side
    <2>2. Client(c) \in Node /\ Server(c) \in Node
        BY <2>1, OpenMade DEF Made, Open, Side
    <2>3. Client(c) < Server(c)
        BY <2>1 DEF Inv, ConnectionOK, ClientEnd
    <2>4. {At(c, s) : s \in Side} = {Client(c), Server(c)}
        BY DEF At, Side, Client, Server
    <2> QED  BY <2>1, <2>2, <2>3, <2>4, MeshnetAssumption
<1>2. ASSUME NEW c1 \in Conn, NEW c2 \in Conn, Uses(c1), Uses(c2), c1 # c2,
             {At(c1, s) : s \in Side} = {At(c2, s) : s \in Side}
      PROVE  Client(c1) = Client(c2) /\ <<Client(c1), Server(c1)>> \in doubled
    <2>1. {Client(c1), Server(c1)} = {Client(c2), Server(c2)}
        BY <1>1, <1>2
    <2>2. Client(c1) = Client(c2) /\ Server(c1) = Server(c2)
        <3>1. \/ Client(c1) = Client(c2) /\ Server(c1) = Server(c2)
              \/ Client(c1) = Server(c2) /\ Server(c1) = Client(c2)
            BY <2>1
        <3> QED  BY <3>1, <1>1, <1>2
    <2> QED  BY <2>2, <1>1, <1>2 DEF OnceInv, DialsOnce, Once
<1> QED  BY <1>2 DEF OneMaster, At, Client, Server

(* Of the connections that two nodes dialled to each other at most one is ever used, and two
   of the same direction only after one loss was scheduled twice: exclusive_handshake's choice
   by identifiers, however often connections break and are scheduled, if no node behind NAT
   is dialled. *)
THEOREM MeshOneMaster == NatNotDialled => (Spec => []OneMaster)
<1> SUFFICES ASSUME NatNotDialled PROVE Spec => []OneMaster
    OBVIOUS
<1>1. Init => Inv /\ OnceInv
    BY InitInv, InitOnce
<1>2. Inv /\ OnceInv /\ [Next]_vars => Inv' /\ OnceInv'
    BY NextInv, NextOnce
<1>3. Inv /\ OnceInv => OneMaster
    BY OnceOneMaster
<1> QED  BY <1>1, <1>2, <1>3, PTL DEF Spec

-----------------------------------------------------------------------------
(* What holds of those that were also made again only after the peer had read the lost one *)

Patient(c) == <<Client(c), Server(c)>> \notin doubled \cup hasty

(* What is left of the earlier connections of a pair has been read. *)
Unread ==
    \A c, e \in Conn : /\ Open(c, "client") /\ Patient(c) /\ c # e
                       /\ Client(c) = Client(e) /\ Server(c) = Server(e)
                       => inbox[e]["server"] = <<>>

(* The dialled node writes on the connection that both keep. *)
ServerKept ==
    \A c \in Conn :
        Open(c, "client") /\ Heard(c) /\ Chosen(c) /\ Patient(c) => writers[Server(c)][Client(c)] = c

PatientInv == Unread /\ ServerKept

LEMMA InitPatient == Init => PatientInv
    BY DEF Init, PatientInv, Unread, ServerKept, Open, Side

(* Steps that change neither a client's end nor the writers, let no server have read a
   request, and add to a server's stream only from a client that has the connection open. *)
LEMMA PatientUntouched ==
    ASSUME OnceInv, PatientInv, UNCHANGED <<ends, writers, doubled, hasty>>,
           \A e \in Conn : /\ state'[e]["client"] = state[e]["client"]
                           /\ Heard(e)' => Heard(e)
                           /\ inbox'[e]["server"] # <<>> => inbox[e]["server"] # <<>> \/ Open(e, "client")
    PROVE  PatientInv'
<1>1. \A e \in Conn : /\ Open(e, "client")' <=> Open(e, "client")
                      /\ Client(e)' = Client(e) /\ Server(e)' = Server(e)
                      /\ Chosen(e)' <=> Chosen(e)
                      /\ (Patient(e)' <=> Patient(e)) /\ (Patient(e) => Once(e))
    BY DEF Open, Client, Server, Chosen, Patient, Once
<1>2. Unread'
    BY <1>1 DEF OnceInv, DialsOnce, PatientInv, Unread
<1>3. ServerKept'
    BY <1>1 DEF PatientInv, ServerKept
<1> QED  BY <1>2, <1>3 DEF PatientInv

LEMMA CloseSocketPatient ==
    ASSUME Inv, PatientInv, NEW c \in Conn, NEW side \in Side, Open(c, side), CloseSocket(c, side),
           doubled \subseteq doubled', hasty' = hasty
    PROVE  PatientInv'
<1> DEFINE a == At(c, side)
<1>1. PICK cs \in SUBSET Conn : Shuts(a, c, cs)
    BY CloseSocketShuts
<1>2. a \in Node /\ "client" \in Side /\ "server" \in Side
    BY CloseSocketShuts DEF Side
<1> HIDE DEF a
<1>3. ASSUME NEW e \in Conn, Open(e, "client")'
      PROVE  /\ Open(e, "client") /\ Client(e)' = Client(e) /\ Server(e)' = Server(e)
             /\ Client(e) \in Node /\ Server(e) \in Node /\ (Patient(e)' => Patient(e))
    <2>1. Open(e, "client") /\ Client(e)' = Client(e) /\ Server(e)' = Server(e)
        BY <1>1, <1>2, <1>3, ShutsFewer DEF Open, Client, Server
    <2> QED  BY <2>1, <1>2, OpenMade DEF Made, Open, Patient
<1>4. Unread'
    <2> SUFFICES ASSUME NEW e \in Conn, NEW f \in Conn, Open(e, "client")', Patient(e)', e # f,
                        Client(e)' = Client(f)', Server(e)' = Server(f)'
                 PROVE  inbox'[f]["server"] = <<>>
        BY DEF Unread
    <2>1. CASE Freed(a, cs, f)
        BY <2>1, <1>1, <1>2 DEF Shuts
    <2>2. CASE ~Freed(a, cs, f)
        <3>1. Client(f)' = Client(f) /\ Server(f)' = Server(f)
            BY <2>2, <1>1, <1>2 DEF Shuts, Client, Server
        <3>2. inbox[f]["server"] = <<>>
            BY <3>1, <1>3 DEF PatientInv, Unread
        <3> QED  BY <3>2, <2>2, <1>1, <1>2 DEF Shuts
    <2> QED  BY <2>1, <2>2
<1>5. ServerKept'
    <2> SUFFICES ASSUME NEW e \in Conn, Open(e, "client")', Heard(e)', Chosen(e)', Patient(e)'
                 PROVE  writers'[Server(e)'][Client(e)'] = e
        BY DEF ServerKept
    <2>1. ~Closes(a, cs, e, "server") /\ Heard(e)
        BY <1>1, <1>2, ShutsFewer DEF Heard, Open
    <2>2. Chosen(e)
        BY <1>3 DEF Chosen
    <2>3. writers[Server(e)][Client(e)] = e
        BY <2>1, <2>2, <1>3 DEF PatientInv, ServerKept
    <2> QED  BY <2>1, <2>3, <1>1, <1>3 DEF Shuts, Closes, Server
<1> QED  BY <1>4, <1>5 DEF PatientInv

(* The new connection is the only one of the pair with anything to be read. *)
LEMMA DialPatient ==
    ASSUME Inv, OnceInv, PatientInv, NEW d \in Dials, NEW c \in Conn, Dial(d[1], d[2], c)
    PROVE  PatientInv'
<1>1. PICK a \in Node, b \in Node : Dialled(a, b, c)
    <2>1. Dialled(d[1], d[2], c)
        BY DialEffect
    <2>2. d[1] \in Node /\ d[2] \in Node
        BY <2>1 DEF Dialled
    <2> QED  BY <2>1, <2>2
<1>2. /\ Client(c)' = a /\ Server(c)' = b /\ ~Open(c, "server")' /\ ~Open(c, "client")
      /\ writers' = writers /\ pending[<<a, b>>] > 0 /\ doubled' = doubled /\ hasty \subseteq hasty'
      /\ <<a, b>> \notin hasty' => ~Overtaken(a, b)
    BY <1>1 DEF Dialled, Open, Client, Server, Vacant
<1>3. \A e \in Conn : e # c => /\ Open(e, "client")' <=> Open(e, "client")
                               /\ Heard(e)' <=> Heard(e)
                               /\ Client(e)' = Client(e) /\ Server(e)' = Server(e)
                               /\ Chosen(e)' <=> Chosen(e)
                               /\ inbox'[e]["server"] = inbox[e]["server"]
                               /\ Patient(e)' => Patient(e)
    BY <1>1, <1>2 DEF Dialled, Open, Client, Server, Heard, Chosen, Patient
<1>4. ASSUME NEW e \in Conn, Client(e) = a, Server(e) = b, <<a, b>> \notin doubled' \cup hasty'
      PROVE  ~Open(e, "client") /\ inbox[e]["server"] = <<>>
    <2>1. ~Open(e, "client")
        BY <1>2, <1>4 DEF OnceInv, DialsOnce, Once
    <2>2. Made(e)
        BY <1>4, MeshnetAssumption DEF Inv, ConnectionOK, Vacant, Client, Side
    <2>3. state[e]["client"] = "closed"
        BY <2>1, <2>2 DEF Made, Open
    <2> QED  BY <2>1, <2>3, <1>2, <1>4 DEF Overtaken, At, Client, Server
<1>5. Unread'
    <2> SUFFICES ASSUME NEW e \in Conn, NEW f \in Conn, Open(e, "client")', Patient(e)', e # f,
                        Client(e)' = Client(f)', Server(e)' = Server(f)'
                 PROVE  inbox'[f]["server"] = <<>>
        BY DEF Unread
    <2>1. CASE e = c
        <3>1. <<a, b>> \notin doubled' \cup hasty' /\ Client(f) = a /\ Server(f) = b
            BY <2>1, <1>2, <1>3 DEF Patient
        <3> QED  BY <3>1, <2>1, <1>3, <1>4
    <2>2. CASE f = c
        <3>1. <<a, b>> \notin doubled' \cup hasty' /\ Client(e) = a /\ Server(e) = b /\ Open(e, "client")
            BY <2>2, <1>2, <1>3 DEF Patient
        <3> QED  BY <3>1, <1>4
    <2>3. CASE e # c /\ f # c
        BY <2>3, <1>3 DEF PatientInv, Unread
    <2> QED  BY <2>1, <2>2, <2>3
<1>6. ServerKept'
    BY <1>2, <1>3 DEF PatientInv, ServerKept, Heard
<1> QED  BY <1>5, <1>6 DEF PatientInv

LEMMA ReadRequestPatient ==
    ASSUME NatNotDialled, Inv, OnceInv, PatientInv, NEW c \in Conn, ReadRequest(c)
    PROVE  PatientInv'
<1> Requested(c)
    BY RequestEffect
<1>1. \A e \in Conn : /\ Open(e, "client")' <=> Open(e, "client")
                      /\ Client(e)' = Client(e) /\ Server(e)' = Server(e)
                      /\ (Chosen(e)' <=> Chosen(e)) /\ (Patient(e)' <=> Patient(e))
    BY DEF Requested, Open, Client, Server, Chosen, Patient
<1>2. \A e \in Conn : e # c => inbox'[e]["server"] = inbox[e]["server"] /\ (Heard(e)' <=> Heard(e))
    BY DEF Requested, Heard, Open
<1>3. inbox'[c]["server"] = <<>> /\ inbox[c]["server"] # <<>>
    BY FirstPackets DEF Requested
<1>4. Unread'
    BY <1>1, <1>2, <1>3 DEF PatientInv, Unread
<1>5. ServerKept'
    <2> SUFFICES ASSUME NEW e \in Conn, Open(e, "client"), Heard(e)', Chosen(e), Patient(e)
                 PROVE  writers'[Server(e)][Client(e)] = e
        BY <1>1 DEF ServerKept
    <2>1. CASE e = c
        BY <2>1 DEF Requested
    <2>2. CASE e # c
        <3>1. writers[Server(e)][Client(e)] = e
            BY <2>2, <1>2 DEF PatientInv, ServerKept
        <3>2. ~(Server(e) = Server(c) /\ Client(e) = Client(c))
            BY <2>2, <1>3 DEF PatientInv, Unread
        <3>3. Server(e) \in Node /\ Client(e) \in Node
            BY OpenMade DEF Made, Open, Side
        <3> QED  BY <3>1, <3>2, <3>3 DEF Requested
    <2> QED  BY <2>1, <2>2
<1> QED  BY <1>4, <1>5 DEF PatientInv

LEMMA ReadResponsePatient ==
    ASSUME NatNotDialled, Inv, OnceInv, PatientInv, NEW c \in Conn, ReadResponse(c)
    PROVE  PatientInv'
<1>1. CASE Open(c, "client") /\ CloseSocket(c, "client") /\ UNCHANGED <<doubled, hasty>>
    BY <1>1, CloseSocketPatient DEF Side
<1>2. CASE Responded(c)
    <2> USE <1>2
    <2>1. \A e \in Conn : /\ Open(e, "client")' <=> Open(e, "client")
                          /\ Client(e)' = Client(e) /\ Server(e)' = Server(e)
                          /\ Chosen(e)' <=> Chosen(e)
                          /\ inbox'[e]["server"] = inbox[e]["server"] /\ (Heard(e)' <=> Heard(e))
                          /\ Patient(e)' <=> Patient(e)
        BY DEF Responded, Open, Client, Server, Chosen, Heard, Patient
    <2>2. Unread'
        BY <2>1 DEF PatientInv, Unread
    <2>3. ServerKept'
        <3> SUFFICES ASSUME NEW e \in Conn, Open(e, "client"), Heard(e), Chosen(e), Patient(e)
                     PROVE  writers'[Server(e)][Client(e)] = e
            BY <2>1 DEF ServerKept
        <3>1. writers[Server(e)][Client(e)] = e
            BY DEF PatientInv, ServerKept
        <3>2. Server(e) \in Node /\ Client(e) \in Node
            BY OpenMade DEF Made, Open, Side
        <3>3. ~(Server(e) = Client(c) /\ Client(e) = Server(c))
            <4>1. /\ Client(c) < Server(c) /\ <<Client(c), Server(c)>> \in Dials
                  /\ Client(c) \in Node /\ Server(c) \in Node
                BY DEF Responded, Made
            <4>2. Client(c) \in Nat /\ Server(c) \in Nat /\ Server(c) \notin BehindNat
                BY <4>1, MeshnetAssumption DEF NatNotDialled
            <4> QED  BY <4>1, <4>2 DEF Chosen
        <3> QED  BY <3>1, <3>2, <3>3 DEF Responded
    <2> QED  BY <2>2, <2>3 DEF PatientInv
<1> QED  BY <1>1, <1>2, ResponseEffect

LEMMA ReadDataPatient ==
    ASSUME Inv, OnceInv, PatientInv, NEW c \in Conn, NEW side \in Side, ReadData(c, side)
    PROVE  PatientInv'
<1>1. /\ Open(c, side) /\ inbox[c][side] # <<>> /\ Head(inbox[c][side]) = "data"
      /\ inbox' = [inbox EXCEPT ![c][side] = Tail(@)]
      /\ UNCHANGED <<ends, state, writers, doubled, hasty>>
    BY DEF ReadData, Receives, nodeVars
<1>2. inbox \in [Conn -> [Side -> Seq(Packet)]] /\ "server" \in Side /\ ConnectionOK(c)
    BY DEF Inv, Types, Side
<1>3. /\ \A e \in Conn : e # c => inbox'[e]["server"] = inbox[e]["server"]
      /\ side # "server" => inbox'[c]["server"] = inbox[c]["server"]
    BY <1>1, <1>2
<1>4. side = "server" => Heard(c) /\ inbox[c]["server"] # <<>>
    BY <1>1, <1>2, FirstPackets DEF ConnectionOK, ServerEnd, Open
<1>5. \A e \in Conn : /\ state'[e]["client"] = state[e]["client"]
                      /\ Heard(e)' => Heard(e)
                      /\ inbox'[e]["server"] # <<>> => inbox[e]["server"] # <<>>
    BY <1>1, <1>3, <1>4 DEF Heard, Open
<1> QED  BY <1>1, <1>5, PatientUntouched

LEMMA AcceptPatient ==
    ASSUME Inv, OnceInv, PatientInv, NEW c \in Conn, Accept(c)
    PROVE  PatientInv'
<1>1. /\ state[c]["server"] = "backlog" /\ state' = [state EXCEPT ![c]["server"] = "open"]
      /\ UNCHANGED <<ends, inbox, writers, doubled, hasty>>
    BY DEF Accept, nodeVars
<1>2. /\ state \in [Conn -> [Side -> {"none", "backlog", "open", "closed"}]]
      /\ "server" \in Side /\ "client" \in Side /\ ConnectionOK(c)
    BY DEF Inv, Types, Side
<1>3. /\ state'[c]["client"] = state[c]["client"]
      /\ \A e \in Conn : e # c => state'[e] = state[e]
    BY <1>1, <1>2
<1>4. ~Data(inbox[c]["server"])
    BY <1>1, <1>2, FirstPackets DEF ConnectionOK, ServerEnd, Heard, Open
<1>5. \A e \in Conn : state'[e]["client"] = state[e]["client"] /\ (Heard(e)' => Heard(e))
    BY <1>1, <1>3, <1>4 DEF Heard, Open
<1> QED  BY <1>1, <1>5, PatientUntouched

LEMMA SendPatient ==
    ASSUME Inv, OnceInv, PatientInv, NEW x \in Node, NEW y \in Node, Send(x, y)
    PROVE  PatientInv'
<1>1. /\ writers[x][y] # NoSid
      /\ Put(writers[x][y], Other(SideOf(x, writers[x][y])), "data")
      /\ UNCHANGED <<ends, state, writers, doubled, hasty>>
    BY DEF Send, nodeVars
<1>2. Types /\ "server" \in Side
    BY DEF Inv, Side
<1>3. PICK c \in Conn : c = writers[x][y]
    BY <1>1, <1>2 DEF Types
<1>4. PICK side \in Side :
        /\ side = Other(SideOf(x, c))
        /\ side = "server" => Open(c, "client") /\ c \notin waiting
    BY <1>3, SendSide DEF Side
<1>5. \/ inbox' = inbox
      \/ inbox' = [inbox EXCEPT ![c][side] = Append(@, "data")] /\ Reaches(c, side)
    BY <1>1, <1>3, <1>4 DEF Put
<1>6. /\ \A e \in Conn : e # c => inbox'[e]["server"] = inbox[e]["server"]
      /\ side # "server" => inbox'[c]["server"] = inbox[c]["server"]
    BY <1>2, <1>4, <1>5 DEF Types
<1>7. side = "server" /\ Open(c, "server") => Heard(c)
    BY <1>4 DEF Inv, ConnectionOK, ServerEnd, Open
<1>8. \A e \in Conn : /\ state'[e]["client"] = state[e]["client"]
                      /\ Heard(e)' => Heard(e)
                      /\ inbox'[e]["server"] # <<>> => inbox[e]["server"] # <<>> \/ Open(e, "client")
    BY <1>1, <1>4, <1>6, <1>7 DEF Heard, Open
<1> QED  BY <1>1, <1>8, PatientUntouched

LEMMA NextPatient ==
    ASSUME NatNotDialled, Inv, OnceInv, PatientInv, [Next]_vars
    PROVE  PatientInv'
<1>1. ASSUME NEW d \in Dials, NEW c \in Conn, Dial(d[1], d[2], c) PROVE PatientInv'
    BY <1>1, DialPatient
<1>2. ASSUME NEW c \in Conn, Loss(c) PROVE PatientInv'
    <2> SUFFICES ASSUME NEW side \in Side, Lose(c, side) \/ LoseUnannounced(c, side) PROVE PatientInv'
        BY <1>2 DEF Loss
    <2>1. Open(c, side) /\ CloseSocket(c, side) /\ hasty' = hasty
        BY DEF Lose, LoseUnannounced
    <2>2. doubled \subseteq doubled'
        BY DEF Lose, LoseUnannounced, ScheduleReconnection
    <2> QED  BY <2>1, <2>2, CloseSocketPatient
<1>3. ASSUME NEW c \in Conn, Accept(c) \/ Read(c) PROVE PatientInv'
    BY <1>3, AcceptPatient, ReadRequestPatient, ReadResponsePatient, ReadDataPatient DEF Read
<1>4. ASSUME NEW c \in Conn, Break(c) PROVE PatientInv'
    BY <1>4, PatientUntouched DEF Break, nodeVars, Heard, Open
<1>5. ASSUME NEW a \in Node, NEW b \in Node, Send(a, b) PROVE PatientInv'
    BY <1>5, SendPatient
<1>6. CASE UNCHANGED vars
    BY <1>6, PatientUntouched DEF vars, netVars, nodeVars, Heard, Open
<1> QED  BY <1>1, <1>2, <1>3, <1>4, <1>5, <1>6 DEF Next

LEMMA PatientAgreement ==
    ASSUME NatNotDialled, Inv, OnceInv, PatientInv
    PROVE  Agreement
<1> SUFFICES ASSUME Quiet, NEW x \in Node, NEW y \in Node, writers[x][y] # NoSid
             PROVE  /\ readers[y][writers[x][y]] = x
                    /\ \/ writers[y][x] # NoSid
                       \/ {<<x, y>>, <<y, x>>} \cap (doubled \cup hasty) # {}
    BY DEF Agreement
<1>1. PICK c \in Conn : c = writers[x][y]
    BY DEF Inv, Types
<1>2. c # NoSid /\ "client" \in Side /\ "server" \in Side /\ WriterOK(x, y) /\ ConnectionOK(c)
    BY MeshnetAssumption DEF Side, Inv
<1>3. \/ Client(c) = x /\ Server(c) = y /\ Open(c, "client") /\ c \notin waiting
      \/ Client(c) = y /\ Server(c) = x /\ Heard(c)
    BY <1>1, <1>2 DEF WriterOK
<1>4. Made(c) /\ Open(c, "client") /\ Open(c, "server")
    <2>1. Made(c)
        BY <1>2, <1>3, OpenMade DEF Open, Heard
    <2> QED  BY <2>1, <1>2 DEF Quiet, Made, Open
<1>5. inbox[c]["client"] = <<>> /\ inbox[c]["server"] = <<>> /\ c \notin broken
    BY <1>2 DEF Quiet
<1>6. Heard(c) /\ c \notin waiting
    BY <1>2, <1>4, <1>5, FirstPackets DEF ConnectionOK, ServerEnd, Open
<1>7. Client(c) < Server(c)
    BY <1>2, <1>4, <1>6 DEF ConnectionOK, ClientEnd
<1>8. Chosen(c)
    BY <1>7 DEF Chosen
<1>9. readers[Client(c)][c] = Server(c) /\ readers[Server(c)][c] = Client(c)
    BY <1>2, <1>4, <1>6, <1>8, <1>5, FirstPackets DEF ConnectionOK, ClientEnd, ServerEnd, Open
<1>10. Patient(c) => writers[Server(c)][Client(c)] = c /\ writers[Client(c)][Server(c)] = c
    BY <1>4, <1>6, <1>8 DEF OnceInv, ClientKept, PatientInv, ServerKept, Patient, Once
<1>11. <<Client(c), Server(c)>> \in {<<x, y>>, <<y, x>>}
    BY <1>3
<1> QED  BY <1>1, <1>2, <1>3, <1>9, <1>10, <1>11 DEF Patient

(* When the net is quiet, what a node writes is read under its name at the other end, and both
   nodes of a pair have a channel or neither has, if no node behind NAT is dialled, unless one
   loss of a connection between the two was scheduled twice, or dialled again before the peer had read
   the rest of it. *)
THEOREM MeshAgreement == NatNotDialled => (Spec => []Agreement)
<1> SUFFICES ASSUME NatNotDialled PROVE Spec => []Agreement
    OBVIOUS
<1>1. Init => Inv /\ OnceInv /\ PatientInv
    BY InitInv, InitOnce, InitPatient
<1>2. Inv /\ OnceInv /\ PatientInv /\ [Next]_vars => Inv' /\ OnceInv' /\ PatientInv'
    BY NextInv, NextOnce, NextPatient
<1>3. Inv /\ OnceInv /\ PatientInv => Agreement
    BY PatientAgreement
<1> QED  BY <1>1, <1>2, <1>3, PTL DEF Spec
=============================================================================
