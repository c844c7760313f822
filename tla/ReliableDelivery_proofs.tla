---------------------- MODULE ReliableDelivery_proofs ----------------------
(***************************************************************************)
(* Proofs about ReliableDelivery, for every number of envelopes, dials and *)
(* faults.  The order of delivery and what a sender may forget rest on one *)
(* invariant: what each database holds bounds what the connections carry.  *)
(***************************************************************************)
EXTENDS ReliableDelivery, FiniteSetTheorems, SequenceTheorems, WellFoundedInduction, TLAPS

----------------------------------------------------------------------------
(* The inductive invariant *)

\* What the connection c may carry when st are the databases: envelopes its
\* writer has numbered, and answers to envelopes its writer has recorded.
Carried(c, st) ==
    {m \in [type : {"hello", "payload", "ack", "nack"}, eid : Nat] :
        /\ m.type = "payload" => m.eid \in 1 .. st[c[1]].row
        /\ m.type \in {"ack", "nack"} => m.eid <= st[c[1]].recent}

Connections(c, st) ==
    [w : BOOLEAN, r : {"anon", "peer", "closed"}, up : BOOLEAN, once : BOOLEAN, cut : BOOLEAN,
     pipe : Seq(Carried(c, st))]

ConnSound(cs, st) ==
    \A c \in DOMAIN cs : c \in Conns /\ cs[c] \in Connections(c, st)

\* Types of the memory of a host and of its databases.
Memory ==
    [disc : BOOLEAN, deferred : BOOLEAN, expired : BOOLEAN, ignored : BOOLEAN,
     writer : Conns \union {NoConn}, dropR : SUBSET Conns, dropW : SUBSET Conns,
     eid : Nat \union {NoEid}]

Databases == [row : Nat, unacked : SUBSET Nat, acked : SUBSET Nat, recent : Nat]

TypeOK ==
    /\ host \in [Hosts -> Memory] /\ store \in [Hosts -> Databases]
    /\ dials \in [Hosts -> 0 .. MaxDials] /\ repeats \in [Hosts -> Nat]
    /\ delivered \in [Hosts -> Seq(Nat)] /\ faults \in 0 .. MaxFaults

\* The writer of a host is a connection it dialled, and what it is about to
\* remove was dialled before; the number a process remembers is the one in
\* its database; an expired peer is no longer discovered; and a discovered
\* one is not stranded.
MemorySound(h) ==
    /\ host[h].writer # NoConn => host[h].writer[1] = h /\ host[h].writer[2] <= dials[h]
    /\ \A c \in host[h].dropW : c[2] <= dials[h]
    /\ host[h].eid # NoEid => host[h].eid = store[h].row
    /\ host[h].expired => ~host[h].disc
    /\ host[h].disc /\ ~host[h].ignored =>
          \/ host[h].writer # NoConn /\ host[h].writer \notin host[h].dropW
          \/ host[h].deferred

\* A host remembers only numbers it gave out, and forgets only those the
\* other has recorded.
StoreSound(h) ==
    /\ store[h].unacked \subseteq 1 .. store[h].row
    /\ \A e \in 1 .. store[h].row : e \in store[h].unacked \/ e <= store[Peer(h)].recent

Given(d) == {d[i] : i \in DOMAIN d}

LastGiven(d) == IF d = <<>> THEN 0 ELSE d[Len(d)]

\* The positions at which the envelope before is given again.
Repeated(d) == {i \in 2 .. Len(d) : d[i] = d[i - 1]}

\* What an application was given, for the recorded number rec and k crashes
\* in a delivery: the last envelope is the recorded one, or the next if the
\* process crashed before recording it, and then one of the k crashes has not yet
\* shown as a repetition.
InOrder(d, rec, k) ==
    /\ d \in Seq(Nat) /\ rec \in Nat /\ k \in Nat
    /\ LastGiven(d) \in {rec, rec + 1}
    /\ \A i \in DOMAIN d : d[i] = IF i = 1 THEN 1
                                  ELSE IF i \in Repeated(d) THEN d[i - 1] ELSE d[i - 1] + 1
    /\ Cardinality(Repeated(d)) + (IF LastGiven(d) = rec THEN 0 ELSE 1) <= k

\* ... and every recorded envelope was given to it, and nothing that the
\* other host has not numbered.
DeliverySound(h) ==
    /\ InOrder(delivered[h], store[h].recent, repeats[h])
    /\ 1 .. store[h].recent \subseteq Given(delivered[h])
    /\ Given(delivered[h]) \subseteq 1 .. store[Peer(h)].row

Inv ==
    /\ TypeOK
    /\ \A h \in Hosts : MemorySound(h) /\ StoreSound(h) /\ DeliverySound(h)
    /\ ConnSound(conn, store)

----------------------------------------------------------------------------
(* The operators of the model *)

\* Each of the two hosts has the other for a peer.
LEMMA PeerIsHost ==
    ASSUME NEW h \in Hosts
    PROVE  Peer(h) \in Hosts /\ Peer(h) # h
<1>1. SUFFICES \E p \in Hosts : p # h
    BY DEF Peer
<1>2. SUFFICES ASSUME Hosts = {h} PROVE FALSE
    OBVIOUS
<1>3. Cardinality(Hosts) = 1
    BY <1>2, FS_Singleton
<1> QED  BY <1>3, DeliveryAssumption

\* The numbers in use are finitely many.
LEMMA BoundedIsFinite ==
    ASSUME NEW r \in Nat, NEW S \in SUBSET (1 .. r)
    PROVE  IsFiniteSet(S)
<1>1. IsFiniteSet(1 .. r)
    BY FS_Interval
<1> QED  BY <1>1, FS_Subset

\* A set of numbers has an enumeration in ascending order: fetch_unacked()'s
\* rows can be listed by number.
LEMMA AscendingExists ==
    ASSUME NEW r \in Nat, NEW S \in SUBSET (1 .. r)
    PROVE  \E s \in [1 .. Cardinality(S) -> S] : \A i, j \in DOMAIN s : i < j => s[i] < s[j]
<1> DEFINE Lists(U) == \E s \in [1 .. Cardinality(U) -> U] : \A i, j \in DOMAIN s : i < j => s[i] < s[j]
           Bad == {n \in Nat : \E U \in SUBSET (1 .. n) : ~Lists(U)}
<1>1. SUFFICES Bad = {}
    OBVIOUS
<1>2. SUFFICES ASSUME Bad # {} PROVE FALSE
    OBVIOUS
<1>3. PICK n \in Bad : \A m \in Bad : ~(<<m, n>> \in OpToRel(<, Nat))
    <2>1. Bad \subseteq Nat
        OBVIOUS
    <2> QED  BY <1>2, <2>1, NatLessThanWellFounded, WFMin
<1>4. n \in Nat /\ \A m \in Bad : ~(m < n)
    BY <1>3 DEF OpToRel
<1>5. PICK U \in SUBSET (1 .. n) : ~Lists(U)
    OBVIOUS
<1>6. n # 0
    <2>1. SUFFICES ASSUME n = 0 PROVE FALSE
        OBVIOUS
    <2>2. U = {}
        BY <2>1
    <2>3. Cardinality(U) = 0
        BY <2>2, FS_EmptySet
    <2>4. <<>> \in [1 .. Cardinality(U) -> U] /\ DOMAIN <<>> = {}
        BY <2>3
    <2> QED  BY <2>4, <1>5
<1>7. n - 1 \in Nat /\ n - 1 \notin Bad
    <2> HIDE DEF Bad
    <2> QED  BY <1>4, <1>6
<1>8. Lists(U \ {n})
    <2>1. U \ {n} \in SUBSET (1 .. (n - 1))
        BY <1>7
    <2> QED  BY <2>1, <1>7
<1>9. n \in U
    <2>1. n \notin U => U \ {n} = U
        OBVIOUS
    <2> QED  BY <1>5, <1>8, <2>1
<1> DEFINE k == Cardinality(U \ {n})
<1>10. IsFiniteSet(U) /\ k \in Nat /\ Cardinality(U) = k + 1
    <2>1. IsFiniteSet(U)
        BY <1>4, BoundedIsFinite
    <2>2. Cardinality(U) \in Nat /\ k = Cardinality(U) - 1 /\ k \in Nat
        BY <2>1, <1>9, FS_RemoveElement, FS_CardinalityType
    <2> QED  BY <2>1, <2>2
<1> HIDE DEF k, Bad, Lists
<1>11. PICK s \in [1 .. k -> U \ {n}] : \A i, j \in DOMAIN s : i < j => s[i] < s[j]
    BY <1>8 DEF k, Lists
<1> DEFINE t == [i \in 1 .. (k + 1) |-> IF i = k + 1 THEN n ELSE s[i]]
<1>12. t \in [1 .. (k + 1) -> U]
    BY <1>9, <1>10
<1>13. \A i, j \in 1 .. (k + 1) : i < j => t[i] < t[j]
    <2> TAKE i, j \in 1 .. (k + 1)
    <2> HAVE i < j
    <2>1. i \in 1 .. k /\ s[i] \in U \ {n}
        BY <1>10
    <2>2. s[i] \in 1 .. n /\ s[i] # n
        BY <2>1
    <2>3. s[i] < n
        BY <1>4, <2>2
    <2> QED  BY <2>1, <2>3, <1>10, <1>11
<1>14. Lists(U)
    BY <1>10, <1>12, <1>13 DEF Lists
<1> QED  BY <1>5, <1>14

\* What is sent again is a sequence of the unacknowledged numbers.
LEMMA AscendingIsSeq ==
    ASSUME NEW r \in Nat, NEW S \in SUBSET (1 .. r)
    PROVE  Ascending(S) \in Seq(S)
<1>1. Ascending(S) \in [1 .. Cardinality(S) -> S]
    BY AscendingExists DEF Ascending
<1>2. Cardinality(S) \in Nat
    BY BoundedIsFinite, FS_CardinalityType
<1> QED  BY <1>1, <1>2

----------------------------------------------------------------------------
(* Connections: every operation on them keeps what they carry bounded by   *)
(* the databases.                                                          *)

\* Databases only grow, and with them what a connection may carry.
LEMMA ConnGrows ==
    ASSUME NEW cs, NEW st, NEW st2, ConnSound(cs, st),
           \A h \in Hosts : /\ st[h].row \in Nat /\ st2[h].row \in Nat
                            /\ st[h].recent \in Nat /\ st2[h].recent \in Nat
                            /\ st[h].row <= st2[h].row /\ st[h].recent <= st2[h].recent
    PROVE  ConnSound(cs, st2)
<1> SUFFICES ASSUME NEW c \in DOMAIN cs
             PROVE  c \in Conns /\ cs[c] \in Connections(c, st2)
    BY DEF ConnSound
<1>1. c \in Conns /\ cs[c] \in Connections(c, st)
    BY DEF ConnSound
<1>2. c[1] \in Hosts
    BY <1>1 DEF Conns
<1>3. Carried(c, st) \subseteq Carried(c, st2)
    BY <1>2 DEF Carried
<1>4. cs[c].pipe \in Seq(Carried(c, st2))
    BY <1>1, <1>3, SeqMonotonic DEF Connections
<1> QED  BY <1>1, <1>4 DEF Connections

\* A closing writer leaves a prefix of what it had to send.
LEMMA CloseWSound ==
    ASSUME NEW cs, NEW st, ConnSound(cs, st), NEW c, NEW n,
           c \in DOMAIN cs => n \in 0 .. Len(cs[c].pipe)
    PROVE  ConnSound(CloseW(cs, c, n), st)
<1> DEFINE res == CloseW(cs, c, n)
<1> SUFFICES ASSUME NEW d \in DOMAIN res
             PROVE  d \in Conns /\ res[d] \in Connections(d, st)
    BY DEF ConnSound
<1>1. /\ d \in DOMAIN cs
      /\ res[d] = IF d = c THEN [cs[d] EXCEPT !.w = FALSE, !.pipe = SubSeq(@, 1, n)] ELSE cs[d]
    BY DEF CloseW
<1>2. d \in Conns /\ cs[d] \in Connections(d, st)
    BY <1>1 DEF ConnSound
<1>3. CASE d = c
    <2>1. cs[d].pipe \in Seq(Carried(d, st)) /\ n \in 0 .. Len(cs[d].pipe)
        BY <1>1, <1>2, <1>3 DEF Connections
    <2>2. \A i \in 1 .. n : cs[d].pipe[i] \in Carried(d, st)
        BY <2>1, ElementOfSeq
    <2>3. SubSeq(cs[d].pipe, 1, n) \in Seq(Carried(d, st))
        BY <2>1, <2>2, SubSeqProperties
    <2> QED  BY <1>1, <1>2, <1>3, <2>3, ZenonT(40) DEF Connections
<1> QED  BY <1>1, <1>2, <1>3

\* What a closing writer may have sent is within what it had to send.
LEMMA SentInPipe ==
    ASSUME NEW cs, NEW st, ConnSound(cs, st), NEW c, NEW n \in Sent(cs, c), c \in DOMAIN cs
    PROVE  n \in 0 .. Len(cs[c].pipe)
<1>1. cs[c].pipe \in Seq(Carried(c, st))
    BY DEF ConnSound, Connections
<1> QED  BY <1>1, LenProperties DEF Sent

\* A closing reader leaves nothing to read.
LEMMA CloseRSound ==
    ASSUME NEW cs, NEW st, ConnSound(cs, st), NEW S
    PROVE  ConnSound(CloseR(cs, S), st)
<1> DEFINE res == CloseR(cs, S)
<1> SUFFICES ASSUME NEW d \in DOMAIN res
             PROVE  d \in Conns /\ res[d] \in Connections(d, st)
    BY DEF ConnSound
<1>1. /\ d \in DOMAIN cs
      /\ res[d] = IF d \in S THEN [cs[d] EXCEPT !.r = "closed", !.pipe = <<>>] ELSE cs[d]
    BY DEF CloseR
<1>2. d \in Conns /\ cs[d] \in Connections(d, st)
    BY <1>1 DEF ConnSound
<1>3. <<>> \in Seq(Carried(d, st))
    BY EmptySeq
<1> QED  BY <1>1, <1>2, <1>3 DEF Connections

\* What is enqueued in a writer account must be what that host may send.
LEMMA PostSound ==
    ASSUME NEW cs, NEW st, ConnSound(cs, st), NEW c, NEW msgs,
           c # NoConn => msgs \in Seq(Carried(c, st))
    PROVE  ConnSound(Post(cs, c, msgs), st)
<1>1. CASE Post(cs, c, msgs) = cs
    BY <1>1
<1>2. CASE c # NoConn /\ Post(cs, c, msgs) = [cs EXCEPT ![c].pipe = @ \o msgs]
    <2> DEFINE res == [cs EXCEPT ![c].pipe = @ \o msgs]
    <2> SUFFICES ASSUME NEW d \in DOMAIN res
                 PROVE  d \in Conns /\ res[d] \in Connections(d, st)
        BY <1>2 DEF ConnSound
    <2>1. d \in DOMAIN cs /\ res[d] = IF d = c THEN [cs[d] EXCEPT !.pipe = @ \o msgs] ELSE cs[d]
        OBVIOUS
    <2>2. d \in Conns /\ cs[d] \in Connections(d, st)
        BY <2>1 DEF ConnSound
    <2>3. d = c => cs[d].pipe \o msgs \in Seq(Carried(d, st))
        BY <1>2, <2>2, ConcatProperties DEF Connections
    <2> QED  BY <2>1, <2>2, <2>3 DEF Connections
<1> QED  BY <1>1, <1>2 DEF Post

\* A new connection carries nothing.
LEMMA DialledSound ==
    ASSUME NEW cs, NEW st, ConnSound(cs, st), NEW c \in Conns, NEW once \in BOOLEAN
    PROVE  ConnSound(Dialled(cs, c, once), st)
<1> DEFINE res == Dialled(cs, c, once)
<1> SUFFICES ASSUME NEW d \in DOMAIN res
             PROVE  d \in Conns /\ res[d] \in Connections(d, st)
    BY DEF ConnSound
<1>1. /\ d = c \/ d \in DOMAIN cs
      /\ res[d] = IF d = c THEN [w |-> TRUE, r |-> "anon", up |-> FALSE, once |-> once, cut |-> FALSE, pipe |-> <<>>]
                  ELSE cs[d]
    BY DEF Dialled
<1>2. <<>> \in Seq(Carried(d, st))
    BY EmptySeq
<1> QED  BY <1>1, <1>2 DEF ConnSound, Connections

\* The state of a connection but for what it carries may change at will.
LEMMA FlagsSound ==
    ASSUME NEW cs, NEW st, ConnSound(cs, st), NEW c
    PROVE  /\ ConnSound([cs EXCEPT ![c].up = TRUE], st)
           /\ ConnSound([cs EXCEPT ![c].r = "peer"], st)
BY DEF ConnSound, Connections

\* Reading takes the first message and leaves the rest.
LEMMA TakenSound ==
    ASSUME ConnSound(conn, store), NEW h, NEW c, Ready(h, c)
    PROVE  /\ c \in Conns /\ c[1] = Peer(h)
           /\ Head(conn[c].pipe) \in Carried(c, store)
           /\ ConnSound(Taken(c), store)
<1>1. c \in DOMAIN conn /\ c[1] = Peer(h) /\ conn[c].pipe # <<>>
    BY DEF Ready, Readers
<1>2. c \in Conns /\ conn[c] \in Connections(c, store)
    BY <1>1 DEF ConnSound
<1>3. Head(conn[c].pipe) \in Carried(c, store) /\ Tail(conn[c].pipe) \in Seq(Carried(c, store))
    BY <1>1, <1>2, HeadTailProperties DEF Connections
<1>4. ConnSound(Taken(c), store)
    <2> SUFFICES ASSUME NEW d \in DOMAIN Taken(c)
                 PROVE  d \in Conns /\ Taken(c)[d] \in Connections(d, store)
        BY DEF ConnSound
    <2>1. /\ d \in DOMAIN conn
          /\ Taken(c)[d] = IF d = c THEN [conn[d] EXCEPT !.pipe = Tail(@)] ELSE conn[d]
        BY DEF Taken
    <2>2. d \in Conns /\ conn[d] \in Connections(d, store)
        BY <2>1 DEF ConnSound
    <2> QED  BY <1>3, <2>1, <2>2, ZenonT(40) DEF Connections
<1> QED  BY <1>1, <1>2, <1>3, <1>4

\* A break loses a suffix.
LEMMA CutSound ==
    ASSUME NEW cs, NEW st, ConnSound(cs, st), NEW c \in DOMAIN cs, NEW n \in Sent(cs, c)
    PROVE  ConnSound([cs EXCEPT ![c].cut = TRUE, ![c].pipe = SubSeq(@, 1, n)], st)
<1> DEFINE res == [cs EXCEPT ![c].cut = TRUE, ![c].pipe = SubSeq(@, 1, n)]
<1> SUFFICES ASSUME NEW d \in DOMAIN res
             PROVE  d \in Conns /\ res[d] \in Connections(d, st)
    BY DEF ConnSound
<1>1. d \in DOMAIN cs /\ d \in Conns /\ cs[d] \in Connections(d, st)
    BY DEF ConnSound
<1>2. res[d] = IF d = c THEN [cs[d] EXCEPT !.cut = TRUE, !.pipe = SubSeq(@, 1, n)] ELSE cs[d]
    BY <1>1
<1>3. n \in 0 .. Len(cs[c].pipe)
    BY SentInPipe
<1>4. d = c => SubSeq(cs[d].pipe, 1, n) \in Seq(Carried(d, st))
    BY <1>1, <1>3, ElementOfSeq, SubSeqProperties DEF Connections
<1> QED  BY <1>1, <1>2, <1>4 DEF Connections

----------------------------------------------------------------------------
(* Delivery *)

\* check_eid_sequence() accepts the number after the recorded one, and no
\* other; every other answer is about a number already recorded.
LEMMA VerdictFacts ==
    ASSUME NEW rec \in Nat, NEW e \in Nat
    PROVE  /\ Verdict(rec, e).type = "ack" <=> e = rec + 1
           /\ Verdict(rec, e).type \in {"ack", "nack"}
           /\ Verdict(rec, e).eid = IF e <= rec + 1 THEN e ELSE rec
<1>1. CASE e = rec + 1
    <2>1. ~(e <= rec)
        BY <1>1
    <2>2. Verdict(rec, e) = Message("ack", e)
        BY <1>1, <2>1 DEF Verdict
    <2> QED  BY <1>1, <2>2 DEF Message
<1>2. CASE e <= rec
    <2>1. e # rec + 1
        BY <1>2
    <2>2. Verdict(rec, e) = Message("nack", e)
        BY <1>2, <2>1 DEF Verdict
    <2> QED  BY <1>2, <2>1, <2>2 DEF Message
<1>3. CASE e > rec + 1
    <2>1. e # rec + 1 /\ ~(e <= rec)
        BY <1>3
    <2>2. Verdict(rec, e) = Message("nack", rec)
        BY <2>1 DEF Verdict
    <2> QED  BY <1>3, <2>1, <2>2 DEF Message
<1> QED  BY <1>1, <1>2, <1>3

\* Appending adds one element.
LEMMA GivenAppend ==
    ASSUME NEW d \in Seq(Nat), NEW e \in Nat
    PROVE  Given(Append(d, e)) = Given(d) \union {e}
<1> DEFINE d2 == Append(d, e)
<1>1. /\ DOMAIN d = 1 .. Len(d) /\ Len(d) \in Nat
      /\ DOMAIN d2 = 1 .. (Len(d) + 1) /\ d2[Len(d) + 1] = e
      /\ \A i \in 1 .. Len(d) : d2[i] = d[i]
    BY AppendProperties, LenProperties
<1> HIDE DEF d2
<1>2. \A i : i \in DOMAIN d2 <=> (i \in DOMAIN d \/ i = Len(d) + 1)
    BY <1>1
<1>3. \A i \in DOMAIN d : d2[i] = d[i]
    BY <1>1
<1> QED  BY <1>1, <1>2, <1>3 DEF Given, d2

\* Giving the application the number after the recorded one keeps the order,
\* whether the number is then recorded or the process crashes first.
LEMMA GivenNext ==
    ASSUME NEW d, NEW rec, NEW k, InOrder(d, rec, k)
    PROVE  /\ InOrder(Append(d, rec + 1), rec + 1, k)
           /\ InOrder(Append(d, rec + 1), rec, k + 1)
<1> DEFINE e == rec + 1
           n == Len(d) + 1
           d2 == Append(d, e)
<1>1. d \in Seq(Nat) /\ rec \in Nat /\ k \in Nat /\ e \in Nat
    BY DEF InOrder
<1>2. /\ d2 \in Seq(Nat) /\ Len(d) \in Nat /\ Len(d2) = n /\ d2 # <<>>
      /\ DOMAIN d = 1 .. Len(d) /\ DOMAIN d2 = 1 .. n
      /\ d2[n] = e /\ \A i \in 1 .. Len(d) : d2[i] = d[i]
      /\ d = <<>> <=> Len(d) = 0
    BY <1>1, AppendProperties, LenProperties, EmptySeq
<1>3. LastGiven(d2) = e
    BY <1>2 DEF LastGiven
<1>4. LastGiven(d) \in {rec, e}
    BY DEF InOrder
<1>5. d = <<>> => rec = 0
    BY <1>1, <1>4 DEF LastGiven
<1>6. d # <<>> => d2[n - 1] = LastGiven(d) /\ n - 1 \in 1 .. Len(d)
    <2>1. n - 1 = Len(d)
        BY <1>2
    <2>2. d # <<>> => Len(d) \in 1 .. Len(d)
        BY <1>2
    <2>3. d # <<>> => d2[Len(d)] = d[Len(d)]
        BY <1>2, <2>2
    <2> QED  BY <2>1, <2>2, <2>3 DEF LastGiven
<1>7. Repeated(d2) = IF LastGiven(d) = e THEN Repeated(d) \cup {n} ELSE Repeated(d)
    <2>1. \A i \in 2 .. Len(d) : d2[i] = d[i] /\ d2[i - 1] = d[i - 1]
        BY <1>2
    <2>2. n \in 2 .. n <=> d # <<>>
        BY <1>2
    <2>3. d = <<>> => LastGiven(d) # e
        BY <1>1 DEF LastGiven
    <2>4. n \in Repeated(d2) <=> LastGiven(d) = e
        BY <1>2, <1>6, <2>2, <2>3, ZenonT(30) DEF Repeated
    <2>5. \A i : i \in 2 .. Len(d) => (i \in Repeated(d2) <=> i \in Repeated(d))
        BY <1>2, <2>1 DEF Repeated
    <2>6. Repeated(d2) \subseteq (2 .. Len(d)) \cup {n} /\ Repeated(d) \subseteq 2 .. Len(d)
        BY <1>2 DEF Repeated
    <2>7. CASE LastGiven(d) = e
        BY <2>4, <2>5, <2>6, <2>7, SMTT(20)
    <2>8. CASE LastGiven(d) # e
        BY <2>4, <2>5, <2>6, <2>8, SMTT(20)
    <2> QED  BY <2>7, <2>8
<1>8. n \notin Repeated(d) /\ IsFiniteSet(Repeated(d))
    <2>1. IsFiniteSet(2 .. Len(d))
        BY <1>2, FS_Interval
    <2> QED  BY <1>2, <2>1, FS_Subset DEF Repeated
<1>9. /\ Cardinality(Repeated(d)) \in Nat /\ Cardinality(Repeated(d2)) \in Nat
      /\ Cardinality(Repeated(d2)) = Cardinality(Repeated(d)) + (IF LastGiven(d) = e THEN 1 ELSE 0)
    BY <1>7, <1>8, FS_AddElement, FS_CardinalityType
<1>10. \A i \in DOMAIN d2 : d2[i] = IF i = 1 THEN 1
                                    ELSE IF i \in Repeated(d2) THEN d2[i - 1] ELSE d2[i - 1] + 1
    <2> TAKE i \in DOMAIN d2
    <2>1. CASE i \in 1 .. Len(d)
        <3>1. d[i] = IF i = 1 THEN 1 ELSE IF i \in Repeated(d) THEN d[i - 1] ELSE d[i - 1] + 1
            BY <1>2, <2>1 DEF InOrder
        <3>2. i \in Repeated(d2) <=> i \in Repeated(d)
            BY <1>2, <1>7, <2>1
        <3>3. d2[i] = d[i] /\ (i # 1 => d2[i - 1] = d[i - 1])
            BY <1>2, <2>1
        <3> QED  BY <3>1, <3>2, <3>3
    <2>2. CASE i = n
        <3>1. CASE d = <<>>
            BY <1>1, <1>2, <1>5, <2>2, <3>1
        <3>2. CASE d # <<>>
            BY <1>1, <1>2, <1>4, <1>6, <1>7, <1>8, <2>2, <3>2
        <3> QED  BY <3>1, <3>2
    <2> QED  BY <1>2, <2>1, <2>2
<1>11. Cardinality(Repeated(d)) + (IF LastGiven(d) = rec THEN 0 ELSE 1) <= k
    BY DEF InOrder
<1>12. Cardinality(Repeated(d2)) <= k
    BY <1>1, <1>4, <1>9, <1>11
<1> HIDE DEF d2, e, n
<1>13. InOrder(d2, e, k)
    BY <1>1, <1>2, <1>3, <1>9, <1>10, <1>12 DEF InOrder
<1>14. InOrder(d2, rec, k + 1)
    BY <1>1, <1>2, <1>3, <1>9, <1>10, <1>12 DEF InOrder, e
<1> QED  BY <1>13, <1>14 DEF d2, e

----------------------------------------------------------------------------
(* Steps *)

\* A step of h that touches only memories and connections.
LEMMA MemoryStep ==
    ASSUME Inv, NEW h \in Hosts, NEW m \in Memory, host' = [host EXCEPT ![h] = m],
           dials' \in [Hosts -> 0 .. MaxDials], \A k \in Hosts : k # h => dials'[k] = dials[k],
           MemorySound(h)', ConnSound(conn', store), faults' \in 0 .. MaxFaults,
           UNCHANGED <<store, delivered, repeats>>
    PROVE  Inv'
<1>1. TypeOK'
    BY DEF Inv, TypeOK
<1>2. ASSUME NEW k \in Hosts PROVE MemorySound(k)'
    <2>1. CASE k # h
        <3>1. host'[k] = host[k] /\ dials'[k] = dials[k]
            BY <2>1 DEF Inv, TypeOK
        <3> QED  BY <3>1 DEF Inv, MemorySound
    <2> QED  BY <2>1
<1>3. ASSUME NEW k \in Hosts PROVE StoreSound(k)' /\ DeliverySound(k)'
    BY DEF Inv, StoreSound, DeliverySound
<1> QED  BY <1>1, <1>2, <1>3 DEF Inv

\* An envelope is numbered after the last one, whatever the process knew.
LEMMA Enqueue ==
    ASSUME Inv, NEW h \in Hosts, enqueue(h)
    PROVE  Inv'
<1> DEFINE e == store[h].row + 1
<1>1. host[h] \in Memory /\ store[h] \in Databases /\ MemorySound(h)
    BY DEF Inv, TypeOK
<1>2. Number(h) = store[h].row
    BY <1>1 DEF Number, MemorySound
<1>3. /\ store' = [store EXCEPT ![h].row = e, ![h].unacked = @ \union {e}]
      /\ host' = [host EXCEPT ![h].eid = e]
      /\ conn' = Post(conn, host[h].writer, <<Message("payload", e)>>)
      /\ UNCHANGED <<dials, delivered, repeats, faults>>
    BY <1>2 DEF enqueue
<1>4. e \in Nat /\ e > store[h].row /\ store[h].row \in Nat
    BY <1>1 DEF Databases
<1> HIDE DEF e
<1>5. /\ host'[h] = [host[h] EXCEPT !.eid = e] /\ host'[h] \in Memory
      /\ \A k \in Hosts : k # h => host'[k] = host[k]
      /\ host' \in [Hosts -> Memory]
    BY <1>1, <1>3, <1>4 DEF Inv, TypeOK, Memory
<1>6. /\ store'[h] = [store[h] EXCEPT !.row = e, !.unacked = @ \union {e}]
      /\ \A k \in Hosts : k # h => store'[k] = store[k]
      /\ store' \in [Hosts -> Databases]
    BY <1>1, <1>3, <1>4 DEF Inv, TypeOK, Databases
<1>7. /\ store'[h].row = e /\ store'[h].unacked = store[h].unacked \union {e}
      /\ store'[h].recent = store[h].recent
    BY <1>1, <1>6 DEF Databases
<1>8. \A k \in Hosts : /\ store[k].row \in Nat /\ store'[k].row \in Nat
                       /\ store[k].recent \in Nat /\ store'[k].recent \in Nat
                       /\ store[k].row <= store'[k].row /\ store[k].recent = store'[k].recent
    <2> TAKE k \in Hosts
    <2>1. store[k] \in Databases /\ store'[k] \in Databases
        BY <1>6 DEF Inv, TypeOK
    <2>2. /\ store[k].row \in Nat /\ store'[k].row \in Nat
          /\ store[k].recent \in Nat /\ store'[k].recent \in Nat
        BY <2>1 DEF Databases
    <2>3. CASE k = h
        BY <1>4, <1>7, <2>2, <2>3
    <2>4. CASE k # h
        BY <1>6, <2>2, <2>4
    <2> QED  BY <2>3, <2>4
<1>9. TypeOK'
    BY <1>3, <1>5, <1>6 DEF Inv, TypeOK
<1>10. ASSUME NEW k \in Hosts PROVE MemorySound(k)'
    <2>1. CASE k = h
        <3>1. /\ host'[h].eid = e /\ host'[h].writer = host[h].writer /\ host'[h].dropW = host[h].dropW
              /\ host'[h].expired = host[h].expired /\ host'[h].disc = host[h].disc
              /\ host'[h].ignored = host[h].ignored /\ host'[h].deferred = host[h].deferred
            BY <1>1, <1>5 DEF Memory
        <3> QED  BY <1>1, <1>3, <1>7, <2>1, <3>1 DEF MemorySound
    <2>2. CASE k # h
        BY <1>3, <1>5, <1>6, <2>2 DEF Inv, MemorySound
    <2> QED  BY <2>1, <2>2
<1>11. ASSUME NEW k \in Hosts PROVE StoreSound(k)'
    <2>1. Peer(k) \in Hosts /\ StoreSound(k)
        BY PeerIsHost DEF Inv
    <2>2. store'[Peer(k)].recent = store[Peer(k)].recent
        BY <1>8, <2>1
    <2>3. CASE k = h
        <3>1. store'[h].unacked \subseteq 1 .. e
            BY <1>4, <1>7, <2>1, <2>3 DEF StoreSound, e
        <3>2. \A i \in 1 .. e : i # e => i \in 1 .. store[h].row
            BY <1>4 DEF e
        <3> QED  BY <1>7, <2>1, <2>2, <2>3, <3>1, <3>2 DEF StoreSound
    <2>4. CASE k # h
        BY <1>6, <2>1, <2>2, <2>4 DEF StoreSound
    <2> QED  BY <2>3, <2>4
<1>12. ASSUME NEW k \in Hosts PROVE DeliverySound(k)'
    <2>1. Peer(k) \in Hosts /\ DeliverySound(k)
        BY PeerIsHost DEF Inv
    <2>2. store'[k].recent = store[k].recent /\ store[Peer(k)].row <= store'[Peer(k)].row
          /\ store[Peer(k)].row \in Nat /\ store'[Peer(k)].row \in Nat
        BY <1>8, <2>1
    <2>3. \A i \in 1 .. store[Peer(k)].row : i \in 1 .. store'[Peer(k)].row
        BY <2>2
    <2> QED  BY <1>3, <2>1, <2>2, <2>3 DEF DeliverySound
<1>13. ConnSound(conn', store')
    <2>1. ConnSound(conn, store')
        BY <1>8, ConnGrows DEF Inv
    <2>2. host[h].writer # NoConn => Message("payload", e) \in Carried(host[h].writer, store')
        BY <1>1, <1>4, <1>7 DEF MemorySound, Message, Carried, e
    <2>3. host[h].writer # NoConn => <<Message("payload", e)>> \in Seq(Carried(host[h].writer, store'))
        BY <2>2
    <2> QED  BY <1>3, <2>1, <2>3, PostSound
<1> QED  BY <1>9, <1>10, <1>11, <1>12, <1>13 DEF Inv

\* Deleting acknowledged rows and reading the number back, for a host whose
\* memory changes in nothing else that matters.
LEMMA Maintained ==
    ASSUME Inv, NEW h \in Hosts, store' = [store EXCEPT ![h] = maintain(@)],
           NEW m \in Memory, host' = [host EXCEPT ![h] = m],
           MemorySound(h)', ConnSound(conn', store),
           UNCHANGED <<dials, delivered, repeats, faults>>
    PROVE  Inv'
<1>1. host[h] \in Memory /\ store[h] \in Databases
    BY DEF Inv, TypeOK
<1>2. store' \in [Hosts -> Databases]
    BY <1>1 DEF maintain, Databases, Inv, TypeOK
<1>3. \A k \in Hosts : /\ store'[k].row = store[k].row /\ store'[k].recent = store[k].recent
                       /\ store'[k].unacked = store[k].unacked
    <2> TAKE k \in Hosts
    <2>1. store[k] \in Databases /\ store'[k] = IF k = h THEN [store[k] EXCEPT !.acked = {}] ELSE store[k]
        BY DEF Inv, TypeOK, maintain
    <2> QED  BY <2>1 DEF Databases
<1>4. TypeOK'
    BY <1>2 DEF Inv, TypeOK
<1>5. ASSUME NEW k \in Hosts PROVE MemorySound(k)'
    <2>1. CASE k # h
        <3>1. host'[k] = host[k] /\ store'[k].row = store[k].row
            BY <1>3, <2>1 DEF Inv, TypeOK
        <3> QED  BY <3>1 DEF Inv, MemorySound
    <2> QED  BY <2>1
<1>6. ASSUME NEW k \in Hosts PROVE StoreSound(k)' /\ DeliverySound(k)'
    <2>1. Peer(k) \in Hosts /\ StoreSound(k) /\ DeliverySound(k)
        BY PeerIsHost DEF Inv
    <2> QED  BY <1>3, <2>1 DEF StoreSound, DeliverySound
<1>7. ConnSound(conn', store')
    <2>1. \A k \in Hosts : /\ store[k].row \in Nat /\ store[k].recent \in Nat
        BY DEF Inv, TypeOK, Databases
    <2>2. \A k \in Hosts : /\ store[k].row \in Nat /\ store'[k].row \in Nat
                           /\ store[k].recent \in Nat /\ store'[k].recent \in Nat
                           /\ store[k].row <= store'[k].row /\ store[k].recent <= store'[k].recent
        BY <1>3, <2>1
    <2> QED  BY <2>2, ConnGrows
<1> QED  BY <1>4, <1>5, <1>6, <1>7 DEF Inv

\* A channel that is found complete is established: the number is read back
\* and what is unacknowledged goes out again, in ascending order.
LEMMA Established ==
    ASSUME Inv, NEW h \in Hosts, NEW cs, ConnSound(cs, store), check_complete_channel(h, cs),
           UNCHANGED <<dials, delivered, repeats, faults>>
    PROVE  Inv'
<1>1. host[h] \in Memory /\ store[h] \in Databases /\ MemorySound(h) /\ StoreSound(h)
    BY DEF Inv, TypeOK
<1>2. CASE process_channel_established(h, cs)
    <2> DEFINE m == [host[h] EXCEPT !.eid = store[h].row]
    <2>1. /\ store' = [store EXCEPT ![h] = maintain(@)]
          /\ host' = [host EXCEPT ![h] = m]
          /\ conn' = Post(cs, host[h].writer, Payloads(Again(store[h])))
        BY <1>2 DEF process_channel_established
    <2>2. m \in Memory
        BY <1>1 DEF Memory, Databases
    <2>3. store'[h].row = store[h].row /\ host'[h] = m
        BY <1>1, <2>1 DEF Inv, TypeOK, maintain, Databases
    <2>4. /\ m.eid = store[h].row /\ m.writer = host[h].writer /\ m.dropW = host[h].dropW
          /\ m.expired = host[h].expired /\ m.disc = host[h].disc
          /\ m.ignored = host[h].ignored /\ m.deferred = host[h].deferred
        BY <1>1 DEF Memory
    <2>5. MemorySound(h)'
        BY <1>1, <2>3, <2>4 DEF MemorySound
    <2>6. host[h].writer # NoConn => Payloads(Again(store[h])) \in Seq(Carried(host[h].writer, store))
        <3> SUFFICES ASSUME host[h].writer # NoConn
                     PROVE  Payloads(Again(store[h])) \in Seq(Carried(host[h].writer, store))
            OBVIOUS
        <3> DEFINE es == Again(store[h])
        <3>1. store[h].row \in Nat /\ store[h].unacked \in SUBSET (1 .. store[h].row)
            BY <1>1 DEF StoreSound, Databases
        <3>2. es \in Seq(1 .. store[h].row)
            <4>1. Ascending(store[h].unacked) \in Seq(store[h].unacked)
                BY <3>1, AscendingIsSeq
            <4> QED  BY <3>1, <4>1, SeqMonotonic DEF Again
        <3> HIDE DEF es
        <3>3. Len(es) \in Nat /\ DOMAIN es = 1 .. Len(es) /\ \A i \in 1 .. Len(es) : es[i] \in 1 .. store[h].row
            BY <3>2, LenProperties, ElementOfSeq
        <3>4. \A i \in 1 .. Len(es) : Message("payload", es[i]) \in Carried(host[h].writer, store)
            BY <1>1, <3>1, <3>3 DEF MemorySound, Message, Carried
        <3>5. Payloads(es) = [i \in 1 .. Len(es) |-> Message("payload", es[i])]
            BY <3>3 DEF Payloads
        <3> QED  BY <3>3, <3>4, <3>5 DEF es
    <2>7. ConnSound(conn', store)
        BY <2>1, <2>6, PostSound
    <2> QED  BY <2>1, <2>2, <2>5, <2>7, Maintained
<1>3. CASE conn' = cs /\ UNCHANGED <<host, store>>
    <2>1. host' = [host EXCEPT ![h] = host[h]]
        BY <1>3 DEF Inv, TypeOK
    <2>2. MemorySound(h)'
        BY <1>1, <1>3 DEF MemorySound
    <2> QED  BY <1>1, <1>3, <2>1, <2>2, MemoryStep DEF Inv, TypeOK
<1> QED  BY <1>2, <1>3 DEF check_complete_channel

\* A dial makes a new connection and closes the writer it replaces.
LEMMA Discovered ==
    ASSUME Inv, NEW h \in Hosts, Discover(h)
    PROVE  Inv'
<1> DEFINE c == <<h, dials[h] + 1>>
           m == [host[h] EXCEPT !.disc = TRUE, !.ignored = FALSE, !.writer = c]
<1>1. host[h] \in Memory /\ dials[h] \in 0 .. MaxDials /\ MemorySound(h) /\ ConnSound(conn, store)
    BY DEF Inv, TypeOK
<1>2. /\ ~host[h].expired /\ dials[h] < MaxDials
      /\ dials' = [dials EXCEPT ![h] = dials[h] + 1] /\ dials'[h] = dials[h] + 1
      /\ UNCHANGED <<store, delivered, repeats, faults>>
    BY DEF Discover, Inv, TypeOK
<1>3. PICK n \in Sent(conn, host[h].writer), once \in BOOLEAN :
          /\ conn' = Dialled(CloseW(conn, host[h].writer, n), c, once)
          /\ host' = [host EXCEPT ![h].disc = TRUE, ![h].ignored = FALSE, ![h].writer = c]
    BY <1>2 DEF Discover
<1>4. dials[h] + 1 \in 1 .. MaxDials
    BY <1>1, <1>2, DeliveryAssumption
<1>5. c \in Conns /\ c # NoConn /\ c[1] = h /\ c[2] = dials[h] + 1
    BY <1>4 DEF Conns, NoConn
<1>6. dials' \in [Hosts -> 0 .. MaxDials] /\ \A k \in Hosts : k # h => dials'[k] = dials[k]
    BY <1>2, <1>4 DEF Inv, TypeOK
<1>7. c \notin host[h].dropW
    BY <1>1, <1>5 DEF MemorySound
<1> HIDE DEF c
<1>8. m \in Memory /\ host' = [host EXCEPT ![h] = m]
    BY <1>1, <1>3, <1>5 DEF Memory, Inv, TypeOK
<1>9. host'[h] = m
    BY <1>8 DEF Inv, TypeOK
<1>10. /\ m.writer = c /\ m.disc = TRUE /\ m.ignored = FALSE /\ m.dropW = host[h].dropW
       /\ m.expired = host[h].expired /\ m.eid = host[h].eid
    BY <1>1 DEF Memory
<1>11. \A x \in host[h].dropW : x[2] <= dials[h] + 1
    <2>1. \A x \in host[h].dropW : x[2] \in Int
        BY <1>1 DEF Memory, Conns
    <2> QED  BY <1>1, <2>1 DEF MemorySound
<1>12. MemorySound(h)'
    <2>1. c[2] <= dials'[h]
        BY <1>1, <1>2, <1>5
    <2> QED  BY <1>1, <1>2, <1>5, <1>7, <1>9, <1>10, <1>11, <2>1 DEF MemorySound
<1>13. ConnSound(conn', store)
    BY <1>1, <1>3, <1>5, SentInPipe, CloseWSound, DialledSound
<1> QED  BY <1>2, <1>6, <1>8, <1>12, <1>13, MemoryStep DEF Inv, TypeOK

\* The discovery engine's other steps change flags of one host's memory.
LEMMA DiscoveryFlags ==
    ASSUME Inv, NEW h \in Hosts, DiscoverUnreachable(h) \/ check_expiration(h)
    PROVE  Inv'
<1>1. host[h] \in Memory /\ MemorySound(h)
    BY DEF Inv, TypeOK
<1>2. UNCHANGED <<store, conn, dials, delivered, repeats>> /\ faults' \in 0 .. MaxFaults
    <2>1. faults \in 0 .. MaxFaults /\ MaxFaults \in Nat
        BY DeliveryAssumption DEF Inv, TypeOK
    <2>2. (faults < MaxFaults /\ faults' = faults + 1) \/ faults' = faults
        BY DEF DiscoverUnreachable, check_expiration
    <2>3. faults' \in 0 .. MaxFaults
        BY <2>1, <2>2
    <2> QED  BY <2>3 DEF DiscoverUnreachable, check_expiration
<1>3. CASE DiscoverUnreachable(h)
    <2> DEFINE m == [host[h] EXCEPT !.disc = TRUE, !.ignored = TRUE]
    <2>1. m \in Memory /\ host' = [host EXCEPT ![h] = m] /\ host'[h] = m
        BY <1>1, <1>3 DEF DiscoverUnreachable, Memory, Inv, TypeOK
    <2>2. /\ m.writer = host[h].writer /\ m.ignored = TRUE /\ m.dropW = host[h].dropW
          /\ m.expired = host[h].expired /\ m.eid = host[h].eid /\ ~host[h].expired
        BY <1>1, <1>3 DEF Memory, DiscoverUnreachable
    <2>3. MemorySound(h)'
        BY <1>1, <1>2, <2>1, <2>2 DEF MemorySound
    <2> QED  BY <1>2, <2>1, <2>3, MemoryStep DEF Inv, TypeOK
<1>4. CASE check_expiration(h)
    <2>1. PICK late \in BOOLEAN :
              /\ late \/ host[h].deferred
              /\ host' = [host EXCEPT ![h] = [host[h] EXCEPT
                               !.disc = host[h].disc /\ ~Expiry(host[h], late),
                               !.expired = Expiry(host[h], late),
                               !.deferred = FALSE]]
        BY <1>4 DEF check_expiration
    <2> DEFINE m == [host[h] EXCEPT !.disc = FALSE, !.expired = host[h].disc, !.deferred = FALSE]
    <2>2. Expiry(host[h], late) = host[h].disc /\ host[h].disc \in BOOLEAN
        BY <1>1, <2>1 DEF Expiry, Memory
    <2>3. (host[h].disc /\ ~Expiry(host[h], late)) = FALSE
        BY <2>2
    <2>4. m \in Memory /\ host' = [host EXCEPT ![h] = m] /\ host'[h] = m
        BY <1>1, <2>1, <2>2, <2>3 DEF Memory, Inv, TypeOK
    <2>5. /\ m.writer = host[h].writer /\ m.disc = FALSE /\ m.dropW = host[h].dropW
          /\ m.eid = host[h].eid
        BY <1>1 DEF Memory
    <2>6. MemorySound(h)'
        BY <1>1, <1>2, <2>4, <2>5 DEF MemorySound
    <2> QED  BY <1>2, <2>4, <2>6, MemoryStep DEF Inv, TypeOK
<1> QED  BY <1>3, <1>4

\* A failure of the writer or of a reader closes that end; the writer's
\* defers the expiry of the peer, so that it is dialled again.
LEMMA EndFails ==
    ASSUME Inv, NEW h \in Hosts, WriterFails(h) \/ \E c \in Conns : ReaderFails(h, c)
    PROVE  Inv'
<1>1. host[h] \in Memory /\ MemorySound(h) /\ ConnSound(conn, store)
    BY DEF Inv, TypeOK
<1>2. CASE WriterFails(h)
    <2> DEFINE c == host[h].writer
               m == [host[h] EXCEPT !.writer = NoConn, !.deferred = TRUE, !.dropW = @ \ {c}]
    <2>1. /\ host' = [host EXCEPT ![h].writer = NoConn, ![h].deferred = TRUE,
                                  ![h].dropW = @ \ {c}]
          /\ conn' = CloseW(conn, c, Len(conn[c].pipe))
          /\ UNCHANGED <<store, dials, delivered, repeats, faults>>
        BY <1>2 DEF WriterFails
    <2>2. m \in Memory /\ host' = [host EXCEPT ![h] = m] /\ host'[h] = m
        BY <1>1, <2>1 DEF Memory, Inv, TypeOK
    <2>3. /\ m.writer = NoConn /\ m.deferred = TRUE /\ m.dropW \subseteq host[h].dropW
          /\ m.expired = host[h].expired /\ m.disc = host[h].disc /\ m.eid = host[h].eid
        BY <1>1 DEF Memory
    <2>4. MemorySound(h)'
        BY <1>1, <2>1, <2>2, <2>3 DEF MemorySound
    <2>5. c \in DOMAIN conn => Len(conn[c].pipe) \in 0 .. Len(conn[c].pipe)
        BY <1>1, LenProperties DEF ConnSound, Connections
    <2>6. ConnSound(conn', store)
        BY <1>1, <2>1, <2>5, CloseWSound
    <2> QED  BY <2>1, <2>2, <2>4, <2>6, MemoryStep DEF Inv, TypeOK
<1>3. ASSUME NEW c \in Conns, ReaderFails(h, c) PROVE Inv'
    <2> DEFINE b == host[h].deferred \/ c \in Named(h)
               m == [host[h] EXCEPT !.deferred = b, !.dropR = @ \ {c}]
    <2>1. /\ host' = [host EXCEPT ![h].deferred = b, ![h].dropR = @ \ {c}]
          /\ conn' = CloseR(conn, {c})
          /\ UNCHANGED <<store, dials, delivered, repeats, faults>>
        BY <1>3 DEF ReaderFails, Inv, TypeOK
    <2>2. b \in BOOLEAN /\ (host[h].deferred => b)
        OBVIOUS
    <2> HIDE DEF b
    <2>3. m \in Memory /\ host' = [host EXCEPT ![h] = m] /\ host'[h] = m
        BY <1>1, <2>1, <2>2 DEF Memory, Inv, TypeOK
    <2>4. /\ m.writer = host[h].writer /\ m.deferred = b /\ m.dropW = host[h].dropW
          /\ m.expired = host[h].expired /\ m.disc = host[h].disc /\ m.eid = host[h].eid
          /\ m.ignored = host[h].ignored
        BY <1>1 DEF Memory
    <2>5. MemorySound(h)'
        BY <1>1, <2>1, <2>2, <2>3, <2>4 DEF MemorySound
    <2> QED  BY <1>1, <2>1, <2>3, <2>5, CloseRSound, MemoryStep DEF Inv, TypeOK
<1> QED  BY <1>2, <1>3

\* Reading a payload: it is answered, and delivered and recorded when it is
\* the next one and its acknowledgement could be enqueued.
LEMMA PayloadRead ==
    ASSUME Inv, NEW h \in Hosts, NEW c \in Conns, ReadPayload(h, c)
    PROVE  Inv'
<1> DEFINE e == Head(conn[c].pipe).eid
           rec == store[h].recent
           wr == host[h].writer
           v == Verdict(rec, e)
<1>1. /\ host[h] \in Memory /\ store[h] \in Databases /\ MemorySound(h) /\ ConnSound(conn, store)
      /\ rec \in Nat
    BY DEF Inv, TypeOK, Databases
<1>2. /\ Ready(h, c) /\ Head(conn[c].pipe).type = "payload"
      /\ conn' = Post(Taken(c), wr, <<v>>)
      /\ UNCHANGED <<host, dials, repeats, faults>>
    BY DEF ReadPayload
<1>3. /\ c[1] = Peer(h) /\ Head(conn[c].pipe) \in Carried(c, store) /\ ConnSound(Taken(c), store)
    BY <1>1, <1>2, TakenSound
<1>4. e \in Nat /\ e \in 1 .. store[Peer(h)].row
    BY <1>2, <1>3 DEF Carried
<1>5. /\ v.type = "ack" <=> e = rec + 1
      /\ v.type \in {"ack", "nack"} /\ v.eid = IF e <= rec + 1 THEN e ELSE rec
      /\ v \in [type : {"hello", "payload", "ack", "nack"}, eid : Nat]
    <2>1. v \in {Message("ack", e), Message("nack", e), Message("nack", rec)}
        <3>1. e = rec + 1 \/ e <= rec \/ (e # rec + 1 /\ ~(e <= rec))
            OBVIOUS
        <3> QED  BY <3>1 DEF Verdict
    <2>2. v \in [type : {"hello", "payload", "ack", "nack"}, eid : Nat]
        BY <1>1, <1>4, <2>1 DEF Message
    <2> QED  BY <1>1, <1>4, <2>2, VerdictFacts
<1> HIDE DEF v
<1>6. CASE Deliverable(h, e)
    <2>1. wr # NoConn /\ e = rec + 1
        BY <1>5, <1>6 DEF Deliverable, v
    <2>2. /\ delivered' = [delivered EXCEPT ![h] = Append(@, e)]
          /\ store' = [store EXCEPT ![h].recent = e]
        BY <1>6 DEF ReadPayload
    <2>3. /\ store'[h] = [store[h] EXCEPT !.recent = e] /\ store' \in [Hosts -> Databases]
          /\ \A k \in Hosts : k # h => store'[k] = store[k]
        BY <1>1, <1>4, <2>2 DEF Inv, TypeOK, Databases
    <2>4. store'[h].recent = e /\ store'[h].row = store[h].row /\ store'[h].unacked = store[h].unacked
        BY <1>1, <2>3 DEF Databases
    <2>5. \A k \in Hosts : /\ store[k].row \in Nat /\ store'[k].row = store[k].row
                           /\ store[k].recent \in Nat /\ store'[k].recent \in Nat
                           /\ store[k].recent <= store'[k].recent
                           /\ store'[k].unacked = store[k].unacked
        <3> TAKE k \in Hosts
        <3>1. store[k].row \in Nat /\ store[k].recent \in Nat
            BY DEF Inv, TypeOK, Databases
        <3>2. CASE k = h
            BY <1>4, <2>1, <2>4, <3>1, <3>2
        <3>3. CASE k # h
            BY <2>3, <3>1, <3>3
        <3> QED  BY <3>2, <3>3
    <2>6. /\ delivered'[h] = Append(delivered[h], e)
          /\ \A k \in Hosts : k # h => delivered'[k] = delivered[k]
          /\ delivered' \in [Hosts -> Seq(Nat)]
        BY <1>4, <2>2, AppendProperties DEF Inv, TypeOK
    <2>7. TypeOK'
        BY <1>2, <2>3, <2>6 DEF Inv, TypeOK
    <2>8. ASSUME NEW k \in Hosts PROVE MemorySound(k)' /\ StoreSound(k)'
        <3>1. Peer(k) \in Hosts /\ MemorySound(k) /\ StoreSound(k)
            BY PeerIsHost DEF Inv
        <3>2. MemorySound(k)'
            BY <1>2, <2>5, <3>1 DEF MemorySound
        <3>3. \A i \in 1 .. store[k].row : i <= store[Peer(k)].recent => i <= store'[Peer(k)].recent
            BY <2>5, <3>1
        <3> QED  BY <2>5, <3>1, <3>2, <3>3 DEF StoreSound
    <2>9. ASSUME NEW k \in Hosts PROVE DeliverySound(k)'
        <3>1. Peer(k) \in Hosts /\ DeliverySound(k)
            BY PeerIsHost DEF Inv
        <3>2. CASE k # h
            BY <1>2, <2>3, <2>5, <2>6, <3>1, <3>2 DEF DeliverySound
        <3>3. CASE k = h
            <4>1. InOrder(delivered'[h], e, repeats[h])
                BY <2>1, <2>6, <3>1, <3>3, GivenNext DEF DeliverySound
            <4>2. Given(delivered'[h]) = Given(delivered[h]) \union {e}
                BY <1>4, <2>6, GivenAppend DEF Inv, TypeOK
            <4>3. \A i \in 1 .. e : i = e \/ i \in 1 .. rec
                BY <1>1, <1>4, <2>1
            <4>4. 1 .. e \subseteq Given(delivered'[h])
                BY <3>1, <3>3, <4>2, <4>3 DEF DeliverySound
            <4>5. Given(delivered'[h]) \subseteq 1 .. store[Peer(h)].row
                BY <1>4, <3>1, <3>3, <4>2 DEF DeliverySound
            <4> QED  BY <1>2, <2>4, <2>5, <3>1, <3>3, <4>1, <4>4, <4>5 DEF DeliverySound
        <3> QED  BY <3>2, <3>3
    <2>10. ConnSound(conn', store')
        <3>1. ConnSound(Taken(c), store')
            BY <1>3, <2>5, ConnGrows
        <3>2. wr # NoConn => v \in Carried(wr, store')
            BY <1>1, <1>4, <1>5, <2>1, <2>4 DEF Carried, MemorySound
        <3>3. wr # NoConn => <<v>> \in Seq(Carried(wr, store'))
            BY <3>2
        <3> QED  BY <1>2, <3>1, <3>3, PostSound
    <2> QED  BY <2>7, <2>8, <2>9, <2>10 DEF Inv
<1>7. CASE ~Deliverable(h, e)
    <2>1. UNCHANGED <<delivered, store>>
        BY <1>7 DEF ReadPayload
    <2>2. wr # NoConn => e # rec + 1
        BY <1>5, <1>7 DEF Deliverable, v
    <2>3. wr # NoConn => v \in Carried(wr, store)
        BY <1>1, <1>4, <1>5, <2>2 DEF Carried, MemorySound
    <2>4. wr # NoConn => <<v>> \in Seq(Carried(wr, store))
        BY <2>3
    <2>5. ConnSound(conn', store)
        BY <1>2, <1>3, <2>4, PostSound
    <2>6. host' = [host EXCEPT ![h] = host[h]]
        BY <1>2 DEF Inv, TypeOK
    <2>7. MemorySound(h)'
        BY <1>1, <1>2, <2>1 DEF MemorySound
    <2> QED  BY <1>1, <1>2, <2>1, <2>5, <2>6, <2>7, MemoryStep DEF Inv, TypeOK
<1> QED  BY <1>6, <1>7

\* An answer settles an envelope that the other host has recorded.
LEMMA AckRead ==
    ASSUME Inv, NEW h \in Hosts, NEW c \in Conns, ReadAck(h, c)
    PROVE  Inv'
<1> DEFINE e == Head(conn[c].pipe).eid
<1>1. /\ host[h] \in Memory /\ store[h] \in Databases /\ StoreSound(h) /\ ConnSound(conn, store)
    BY DEF Inv, TypeOK
<1>2. /\ Ready(h, c) /\ Head(conn[c].pipe).type \in {"ack", "nack"}
      /\ conn' = Taken(c) /\ store' = [store EXCEPT ![h] = ack(store[h], e)]
      /\ UNCHANGED <<host, dials, delivered, repeats, faults>>
    BY DEF ReadAck
<1>3. /\ c[1] = Peer(h) /\ Head(conn[c].pipe) \in Carried(c, store) /\ ConnSound(Taken(c), store)
    BY <1>1, <1>2, TakenSound
<1>4. e \in Nat /\ e <= store[Peer(h)].recent
    BY <1>2, <1>3 DEF Carried
<1> HIDE DEF e
<1>5. /\ ack(store[h], e) \in Databases
      /\ ack(store[h], e).row = store[h].row /\ ack(store[h], e).recent = store[h].recent
      /\ ack(store[h], e).unacked = store[h].unacked \ {e}
    <2>1. CASE e \in store[h].unacked
        BY <1>1, <2>1 DEF ack, Databases
    <2>2. CASE e \notin store[h].unacked
        BY <1>1, <2>2 DEF ack, Databases
    <2> QED  BY <2>1, <2>2
<1>6. /\ store' \in [Hosts -> Databases]
      /\ \A k \in Hosts : /\ store'[k].row = store[k].row /\ store'[k].recent = store[k].recent
                          /\ store'[k].unacked = IF k = h THEN store[k].unacked \ {e} ELSE store[k].unacked
    BY <1>2, <1>5 DEF Inv, TypeOK
<1>7. TypeOK'
    BY <1>2, <1>6 DEF Inv, TypeOK
<1>8. ASSUME NEW k \in Hosts PROVE MemorySound(k)' /\ StoreSound(k)' /\ DeliverySound(k)'
    <2>1. Peer(k) \in Hosts /\ MemorySound(k) /\ StoreSound(k) /\ DeliverySound(k)
        BY PeerIsHost DEF Inv
    <2>2. MemorySound(k)' /\ DeliverySound(k)'
        BY <1>2, <1>6, <2>1 DEF MemorySound, DeliverySound
    <2>3. StoreSound(k)'
        BY <1>4, <1>6, <2>1 DEF StoreSound
    <2> QED  BY <2>2, <2>3
<1>9. ConnSound(conn', store')
    <2>1. \A k \in Hosts : store[k].row \in Nat /\ store[k].recent \in Nat
        BY DEF Inv, TypeOK, Databases
    <2>2. \A k \in Hosts : /\ store[k].row \in Nat /\ store'[k].row \in Nat
                           /\ store[k].recent \in Nat /\ store'[k].recent \in Nat
                           /\ store[k].row <= store'[k].row /\ store[k].recent <= store'[k].recent
        <3> TAKE k \in Hosts
        <3>1. store'[k].row = store[k].row /\ store'[k].recent = store[k].recent
            BY <1>6
        <3> QED  BY <2>1, <3>1
    <2> QED  BY <1>2, <1>3, <2>2, ConnGrows
<1> QED  BY <1>7, <1>8, <1>9 DEF Inv

\* A hello of either direction may complete the channel.
LEMMA HelloStep ==
    ASSUME Inv, NEW h \in Hosts,
           process_socket_connected(h) \/ \E c \in Conns : ReadHello(h, c)
    PROVE  Inv'
<1>1. MemorySound(h) /\ ConnSound(conn, store)
    BY DEF Inv
<1>2. CASE process_socket_connected(h)
    <2> DEFINE c == host[h].writer
               cs == Post([conn EXCEPT ![c].up = TRUE], c, <<Message("hello", 0)>>)
    <2>1. check_complete_channel(h, cs) /\ UNCHANGED <<dials, delivered, repeats, faults>>
        BY <1>2 DEF process_socket_connected
    <2>2. Message("hello", 0) \in Carried(c, store)
        BY DEF Message, Carried
    <2>3. <<Message("hello", 0)>> \in Seq(Carried(c, store))
        BY <2>2
    <2>4. ConnSound(cs, store)
        BY <1>1, <2>3, FlagsSound, PostSound
    <2> HIDE DEF cs
    <2> QED  BY <2>1, <2>4, Established
<1>3. ASSUME NEW c \in Conns, ReadHello(h, c) PROVE Inv'
    <2> DEFINE cs == [Taken(c) EXCEPT ![c].r = "peer"]
    <2>1. /\ Ready(h, c) /\ check_complete_channel(h, cs)
          /\ UNCHANGED <<dials, delivered, repeats, faults>>
        BY <1>3 DEF ReadHello
    <2>2. ConnSound(cs, store)
        BY <1>1, <2>1, TakenSound, FlagsSound
    <2> HIDE DEF cs
    <2> QED  BY <2>1, <2>2, Established
<1> QED  BY <1>2, <1>3

\* The removals at the end of a step, and the release of an expired peer.
LEMMA StepEnds ==
    ASSUME Inv, NEW h \in Hosts, EndStep(h)
    PROVE  Inv'
<1> DEFINE o == host[h]
           w == IF o.writer \in o.dropW THEN NoConn ELSE o.writer
           named == Named(h) \ o.dropR
           dw == IF o.expired THEN {w} \ {NoConn} ELSE {}
           id == IF o.expired THEN NoEid ELSE o.eid
<1>1. o \in Memory /\ store[h] \in Databases /\ MemorySound(h) /\ ConnSound(conn, store)
    BY DEF Inv, TypeOK
<1>2. UNCHANGED <<dials, delivered, repeats, faults>>
    BY DEF EndStep
<1>3. PICK n \in Sent(conn, o.writer) :
          conn' = CloseR(IF w = o.writer THEN conn ELSE CloseW(conn, o.writer, n), o.dropR)
    BY DEF EndStep
<1>4. PICK R \in IF o.expired /\ named # {} THEN {{c} : c \in named} ELSE {{}} :
          host' = [host EXCEPT ![h] = [o EXCEPT !.expired = FALSE, !.writer = w, !.dropR = R,
                                                !.dropW = dw, !.eid = id]]
    BY DEF EndStep
<1> DEFINE m == [o EXCEPT !.expired = FALSE, !.writer = w, !.dropR = R, !.dropW = dw, !.eid = id]
<1>5. R \in SUBSET Conns
    <2>1. named \subseteq Conns
        BY <1>1 DEF Named, Readers, ConnSound
    <2> QED  BY <2>1
<1>6. w \in Conns \union {NoConn} /\ dw \in SUBSET Conns /\ id \in Nat \union {NoEid}
    BY <1>1 DEF Memory
<1>7. /\ w # NoConn => w = o.writer /\ w \notin o.dropW
      /\ dw # {} => o.expired /\ dw = {w} /\ w # NoConn
      /\ id # NoEid => id = o.eid
    OBVIOUS
<1> HIDE DEF dw, id, named
<1>8. m \in Memory
    BY <1>1, <1>5, <1>6 DEF Memory
<1>9. /\ m.expired = FALSE /\ m.writer = w /\ m.dropW = dw /\ m.eid = id
      /\ m.disc = o.disc /\ m.ignored = o.ignored /\ m.deferred = o.deferred
    BY <1>1 DEF Memory
<1> HIDE DEF m
<1>10. host' = [host EXCEPT ![h] = m] /\ host'[h] = m
    BY <1>4 DEF Inv, TypeOK, m
<1>11. store' = store \/ store' = [store EXCEPT ![h] = maintain(@)]
    BY DEF EndStep, Inv, TypeOK
<1>12. store'[h].row = store[h].row
    BY <1>1, <1>11 DEF Inv, TypeOK, maintain, Databases
<1>13. \A c \in dw : c[2] <= dials[h]
    <2>1. ASSUME NEW c \in dw PROVE c[2] <= dials[h]
        <3>1. o.expired /\ c = w /\ w # NoConn
            BY <1>7
        <3>2. w = o.writer /\ o.writer # NoConn
            BY <1>7, <3>1
        <3> QED  BY <1>1, <3>1, <3>2 DEF MemorySound
    <2> QED  BY <2>1
<1>14. MemorySound(h)'
    BY <1>1, <1>2, <1>7, <1>9, <1>10, <1>12, <1>13 DEF MemorySound
<1>15. ConnSound(conn', store)
    BY <1>1, <1>3, SentInPipe, CloseWSound, CloseRSound
<1>16. CASE store' = store
    BY <1>2, <1>8, <1>10, <1>14, <1>15, <1>16, MemoryStep DEF Inv, TypeOK
<1>17. CASE store' = [store EXCEPT ![h] = maintain(@)]
    BY <1>2, <1>8, <1>10, <1>14, <1>15, <1>17, Maintained
<1> QED  BY <1>11, <1>16, <1>17

\* A restart keeps the databases and loses the memory and the sockets.
LEMMA Restarted ==
    ASSUME Inv, NEW h \in Hosts, Restart(h)
    PROVE  /\ faults' \in 0 .. MaxFaults /\ Fresh \in Memory
           /\ host' = [host EXCEPT ![h] = Fresh] /\ host'[h] = Fresh
           /\ ConnSound(conn', store)
           /\ dials' = dials => MemorySound(h)'
<1>1. ConnSound(conn, store)
    BY DEF Inv
<1>2. faults' \in 0 .. MaxFaults
    BY DeliveryAssumption DEF Restart, Inv, TypeOK
<1>3. Fresh \in Memory
    BY DEF Fresh, Memory
<1>4. host' = [host EXCEPT ![h] = Fresh] /\ host'[h] = Fresh
    BY DEF Restart, Inv, TypeOK
<1>5. PICK n \in Sent(conn, host[h].writer) :
          conn' = CloseR(CloseW(conn, host[h].writer, n), Readers(h))
    BY DEF Restart
<1>6. ConnSound(conn', store)
    BY <1>1, <1>5, SentInPipe, CloseWSound, CloseRSound
<1>7. /\ Fresh.writer = NoConn /\ Fresh.dropW = {} /\ Fresh.eid = NoEid
      /\ Fresh.expired = FALSE /\ Fresh.disc = FALSE
    BY DEF Fresh
<1>8. MemorySound(h)'
    BY <1>4, <1>7 DEF MemorySound
<1> QED  BY <1>2, <1>3, <1>4, <1>6, <1>8

\* A crash at any point, also between a delivery and its record.
LEMMA Crashed ==
    ASSUME Inv, NEW h \in Hosts, Crash(h) \/ \E c \in Conns : CrashInDelivery(h, c)
    PROVE  Inv'
<1>1. /\ Restart(h) /\ UNCHANGED <<store, dials>>
    BY DEF Crash, CrashInDelivery
<1>2. /\ faults' \in 0 .. MaxFaults /\ Fresh \in Memory
      /\ host' = [host EXCEPT ![h] = Fresh] /\ host'[h] = Fresh
      /\ ConnSound(conn', store) /\ MemorySound(h)'
    BY <1>1, Restarted
<1>3. CASE Crash(h)
    BY <1>1, <1>2, <1>3, MemoryStep DEF Crash, Inv, TypeOK
<1>4. ASSUME NEW c \in Conns, CrashInDelivery(h, c) PROVE Inv'
    <2> DEFINE e == Head(conn[c].pipe).eid
    <2>1. /\ Ready(h, c) /\ Head(conn[c].pipe).type = "payload" /\ Deliverable(h, e)
          /\ delivered' = [delivered EXCEPT ![h] = Append(@, e)]
          /\ repeats' = [repeats EXCEPT ![h] = @ + 1]
        BY <1>4 DEF CrashInDelivery
    <2>2. c[1] = Peer(h) /\ Head(conn[c].pipe) \in Carried(c, store)
        BY <2>1, TakenSound DEF Inv
    <2>3. e \in Nat /\ e \in 1 .. store[Peer(h)].row /\ store[h].recent \in Nat
        BY <2>1, <2>2 DEF Carried, Inv, TypeOK, Databases
    <2> HIDE DEF e
    <2>4. e = store[h].recent + 1
        BY <2>1, <2>3, VerdictFacts DEF Deliverable
    <2>5. /\ delivered'[h] = Append(delivered[h], e) /\ repeats'[h] = repeats[h] + 1
          /\ \A k \in Hosts : k # h => delivered'[k] = delivered[k] /\ repeats'[k] = repeats[k]
          /\ delivered' \in [Hosts -> Seq(Nat)] /\ repeats' \in [Hosts -> Nat]
        BY <2>1, <2>3, AppendProperties DEF Inv, TypeOK
    <2>6. TypeOK'
        BY <1>1, <1>2, <2>5 DEF Inv, TypeOK
    <2>7. ASSUME NEW k \in Hosts PROVE MemorySound(k)' /\ StoreSound(k)'
        <3>1. MemorySound(k) /\ StoreSound(k)
            BY DEF Inv
        <3>2. CASE k # h
            <4>1. host'[k] = host[k]
                BY <1>2, <3>2 DEF Inv, TypeOK
            <4> QED  BY <1>1, <3>1, <4>1 DEF MemorySound, StoreSound
        <3> QED  BY <1>1, <1>2, <3>1, <3>2 DEF StoreSound
    <2>8. ASSUME NEW k \in Hosts PROVE DeliverySound(k)'
        <3>1. DeliverySound(k)
            BY DEF Inv
        <3>2. CASE k # h
            BY <1>1, <2>5, <3>1, <3>2 DEF DeliverySound
        <3>3. CASE k = h
            <4>1. InOrder(delivered'[h], store[h].recent, repeats'[h])
                BY <2>4, <2>5, <3>1, <3>3, GivenNext DEF DeliverySound
            <4>2. Given(delivered'[h]) = Given(delivered[h]) \union {e}
                BY <2>3, <2>5, GivenAppend DEF Inv, TypeOK
            <4> QED  BY <1>1, <2>3, <3>1, <3>3, <4>1, <4>2 DEF DeliverySound
        <3> QED  BY <3>2, <3>3
    <2> QED  BY <1>1, <1>2, <2>6, <2>7, <2>8 DEF Inv
<1> QED  BY <1>3, <1>4

\* A break loses what the connection carried and nothing else.
LEMMA Broken ==
    ASSUME Inv, NEW c \in Conns, Break(c)
    PROVE  Inv'
<1>1. faults' \in 0 .. MaxFaults
    BY DeliveryAssumption DEF Break, Inv, TypeOK
<1>2. PICK n \in Sent(conn, c) :
          conn' = [conn EXCEPT ![c].cut = TRUE, ![c].pipe = SubSeq(@, 1, n)]
    BY DEF Break
<1>3. ConnSound(conn', store)
    BY <1>2, CutSound DEF Break, Inv
<1>4. UNCHANGED <<host, store, dials, delivered, repeats>>
    BY DEF Break
<1> QED  BY <1>1, <1>3, <1>4 DEF Inv, TypeOK, MemorySound, StoreSound, DeliverySound

----------------------------------------------------------------------------
(* The invariant *)

\* Two processes that have just started, with empty databases.
LEMMA InvInit == Init => Inv
<1> SUFFICES ASSUME Init PROVE Inv
    OBVIOUS
<1>1. \A h \in Hosts : /\ host[h] = Fresh /\ store[h] = Blank /\ dials[h] = 0
                       /\ delivered[h] = <<>> /\ repeats[h] = 0
    BY DEF Init
<1>2. Fresh \in Memory /\ Blank \in Databases /\ 0 \in 0 .. MaxDials /\ 0 \in 0 .. MaxFaults
    BY DeliveryAssumption DEF Fresh, Memory, Blank, Databases
<1>3. TypeOK
    BY <1>2, EmptySeq DEF Init, TypeOK
<1>4. ASSUME NEW h \in Hosts PROVE MemorySound(h)
    BY <1>1 DEF MemorySound, Fresh
<1>5. ASSUME NEW h \in Hosts PROVE StoreSound(h)
    BY <1>1, PeerIsHost DEF StoreSound, Blank
<1>6. InOrder(<<>>, 0, 0)
    <2>1. <<>> \in Seq(Nat) /\ Len(<<>>) = 0 /\ DOMAIN <<>> = {}
        BY EmptySeq
    <2>2. Repeated(<<>>) = {}
        BY <2>1 DEF Repeated
    <2>3. Cardinality(Repeated(<<>>)) = 0
        BY <2>2, FS_EmptySet
    <2> QED  BY <2>1, <2>3 DEF InOrder, LastGiven
<1>7. ASSUME NEW h \in Hosts PROVE DeliverySound(h)
    <2>1. Peer(h) \in Hosts /\ Blank.recent = 0 /\ Blank.row = 0
        BY PeerIsHost DEF Blank
    <2> QED  BY <1>1, <1>6, <2>1 DEF DeliverySound, Given
<1>8. ConnSound(conn, store)
    BY DEF Init, ConnSound
<1> QED  BY <1>3, <1>4, <1>5, <1>7, <1>8 DEF Inv

\* Every step of either host, and every fault, keeps the invariant.
LEMMA InvNext == Inv /\ [Next]_vars => Inv'
<1> SUFFICES ASSUME Inv, [Next]_vars PROVE Inv'
    OBVIOUS
<1>1. ASSUME NEW h \in Hosts, enqueue(h) PROVE Inv'
    BY <1>1, Enqueue
<1>2. ASSUME NEW h \in Hosts, Discover(h) PROVE Inv'
    BY <1>2, Discovered
<1>3. ASSUME NEW h \in Hosts, DiscoverUnreachable(h) \/ check_expiration(h) PROVE Inv'
    BY <1>3, DiscoveryFlags
<1>4. ASSUME NEW h \in Hosts, WriterFails(h) \/ \E c \in Conns : ReaderFails(h, c) PROVE Inv'
    BY <1>4, EndFails
<1>5. ASSUME NEW h \in Hosts, process_socket_connected(h) \/ \E c \in Conns : ReadHello(h, c) PROVE Inv'
    BY <1>5, HelloStep
<1>6. ASSUME NEW h \in Hosts, EndStep(h) PROVE Inv'
    BY <1>6, StepEnds
<1>7. ASSUME NEW h \in Hosts, Crash(h) \/ \E c \in Conns : CrashInDelivery(h, c) PROVE Inv'
    BY <1>7, Crashed
<1>8. ASSUME NEW h \in Hosts, NEW c \in Conns, ReadPayload(h, c) PROVE Inv'
    BY <1>8, PayloadRead
<1>9. ASSUME NEW h \in Hosts, NEW c \in Conns, ReadAck(h, c) PROVE Inv'
    BY <1>9, AckRead
<1>10. ASSUME NEW c \in Conns, Break(c) PROVE Inv'
    BY <1>10, Broken
<1>11. CASE UNCHANGED vars
    BY <1>11 DEF vars, Inv, TypeOK, MemorySound, StoreSound, DeliverySound
<1> QED  BY <1>1, <1>2, <1>3, <1>4, <1>5, <1>6, <1>7, <1>8, <1>9, <1>10, <1>11 DEF Next

\* The strengthened invariant of the two hosts.
LEMMA Invariant == Spec => []Inv
BY InvInit, InvNext, PTL DEF Spec

\* Envelopes reach the application in the order they were enqueued, none
\* skipped, and one is given again only for a crash between its delivery and
\* its record, for any number of envelopes, connections, crashes and breaks
\* (reliable_delivery_engine.hpp, check_eid_sequence() and the payload case).
THEOREM DeliveryInOrder == Spec => []DeliveredInOrder
<1>1. Inv => DeliveredInOrder
    <2> SUFFICES ASSUME Inv, NEW h \in Hosts
                 PROVE  LET d == delivered[h]
                            again == {i \in 2 .. Len(d) : d[i] = d[i - 1]}
                        IN /\ \A i \in DOMAIN d : d[i] = IF i = 1 THEN 1
                                                         ELSE IF i \in again THEN d[i - 1] ELSE d[i - 1] + 1
                           /\ Cardinality(again) <= repeats[h]
        BY DEF DeliveredInOrder
    <2> DEFINE d == delivered[h]
    <2>1. InOrder(d, store[h].recent, repeats[h])
        BY DEF Inv, DeliverySound
    <2>2. IsFiniteSet(Repeated(d))
        <3>1. Len(d) \in Int
            BY <2>1 DEF InOrder
        <3>2. IsFiniteSet(2 .. Len(d))
            BY <3>1, FS_Interval
        <3> QED  BY <3>2, FS_Subset DEF Repeated
    <2>3. Cardinality(Repeated(d)) \in Nat
        BY <2>2, FS_CardinalityType
    <2>4. Cardinality(Repeated(d)) <= repeats[h]
        BY <2>1, <2>3 DEF InOrder
    <2> QED  BY <2>1, <2>4 DEF InOrder, Repeated
<1> QED  BY <1>1, Invariant, PTL

\* What a sender no longer holds as unacknowledged was given to the other
\* application, although a gap is answered with a negative acknowledgement
\* that settles like a positive one (persistent_storage ack() and maintain()).
THEOREM ForgottenDelivered == Spec => []ForgottenWereDelivered
<1>1. Inv => ForgottenWereDelivered
    <2> SUFFICES ASSUME Inv, NEW h \in Hosts, NEW e \in 1 .. store[h].row, e \notin store[h].unacked
                 PROVE  \E i \in DOMAIN delivered[Peer(h)] : delivered[Peer(h)][i] = e
        BY DEF ForgottenWereDelivered
    <2>1. Peer(h) \in Hosts /\ StoreSound(h) /\ DeliverySound(Peer(h))
        BY PeerIsHost DEF Inv
    <2>2. store[h].row \in Nat /\ store[Peer(h)].recent \in Nat
        BY <2>1 DEF Inv, TypeOK, Databases
    <2>3. e \in 1 .. store[Peer(h)].recent
        BY <2>1, <2>2 DEF StoreSound
    <2> QED  BY <2>1, <2>3 DEF DeliverySound, Given
<1> QED  BY <1>1, Invariant, PTL

\* A discovered peer whose dial did not fail at once has a writer that stays,
\* or its expiry is on the way (delivery_engine.hpp, the disconnected,
\* refused and removed callbacks).
THEOREM NoneStranded == Spec => []NeverStranded
<1>1. Inv => NeverStranded
    BY DEF Inv, MemorySound, NeverStranded
<1> QED  BY <1>1, Invariant, PTL

\* An application is given nothing that the other one has not enqueued.
DeliveredWereEnqueued ==
    \A h \in Hosts : \A i \in DOMAIN delivered[h] : delivered[h][i] \in 1 .. store[Peer(h)].row

\* Nothing is invented: every envelope given to an application carries a
\* number its peer's database has given out, across crashes of both.
THEOREM DeliveredEnqueued == Spec => []DeliveredWereEnqueued
<1>1. Inv => DeliveredWereEnqueued
    BY DEF Inv, DeliverySound, Given, DeliveredWereEnqueued
<1> QED  BY <1>1, Invariant, PTL


----------------------------------------------------------------------------
(* What it promises *)

Numbered == [h \in Hosts |-> store[h].row]
Unsettled == [h \in Hosts |-> store[h].unacked]
Recorded == [h \in Hosts |-> store[h].recent]

Box == INSTANCE Mailboxes WITH
    numbered <- Numbered, held <- Unsettled, recorded <- Recorded, given <- delivered

\* What the two applications do not notice.
Unnoticed ==
    /\ \A k \in Hosts : /\ store'[k].row = store[k].row /\ store'[k].unacked = store[k].unacked
                        /\ store'[k].recent = store[k].recent
    /\ delivered' = delivered

LEMMA UnnoticedStutters ==
    ASSUME Unnoticed
    PROVE  UNCHANGED Box!mvars
BY DEF Unnoticed, Numbered, Unsettled, Recorded, Box!mvars

\* Forgetting what is acknowledged changes neither the numbers nor what is
\* still to be settled.
LEMMA MaintainUnnoticed ==
    ASSUME Inv, NEW h \in Hosts, store' = [store EXCEPT ![h] = maintain(@)] \/ store' = store,
           delivered' = delivered
    PROVE  Unnoticed
<1>1. store[h] \in Databases
    BY DEF Inv, TypeOK
<1>2. /\ maintain(store[h]).row = store[h].row /\ maintain(store[h]).unacked = store[h].unacked
      /\ maintain(store[h]).recent = store[h].recent
    BY <1>1 DEF maintain, Databases
<1>3. \A k \in Hosts : store'[k] = store[k] \/ (k = h /\ store'[k] = maintain(store[k]))
    BY DEF Inv, TypeOK
<1> QED  BY <1>2, <1>3 DEF Unnoticed

\* The number of an enqueued envelope is the next one.
LEMMA EnqueueBox ==
    ASSUME Inv, NEW h \in Hosts, enqueue(h)
    PROVE  Box!MEnqueue(h)
<1> DEFINE e == Number(h) + 1
<1>1. store[h] \in Databases /\ MemorySound(h)
    BY DEF Inv, TypeOK
<1>2. e = store[h].row + 1
    BY <1>1 DEF Number, MemorySound
<1>3. store' = [store EXCEPT ![h].row = e, ![h].unacked = @ \union {e}] /\ delivered' = delivered
    BY DEF enqueue
<1> HIDE DEF e
<1>4. /\ store'[h].row = e /\ store'[h].unacked = store[h].unacked \union {e}
      /\ store'[h].recent = store[h].recent
      /\ \A k \in Hosts : k # h => store'[k] = store[k]
    BY <1>1, <1>3 DEF Inv, TypeOK, Databases
<1>5. Numbered' = [Numbered EXCEPT ![h] = @ + 1]
    BY <1>2, <1>4 DEF Numbered
<1>6. Unsettled' = [Unsettled EXCEPT ![h] = @ \union {Numbered[h] + 1}]
    BY <1>2, <1>4 DEF Unsettled, Numbered
<1>7. Recorded' = Recorded
    BY <1>4 DEF Recorded
<1> QED  BY <1>3, <1>5, <1>6, <1>7 DEF Box!MEnqueue

\* An envelope that is delivered is the one after the recorded one, and the
\* other host has numbered it.
LEMMA GiveBox ==
    ASSUME Inv, NEW h \in Hosts, NEW c \in Conns, Ready(h, c), Head(conn[c].pipe).type = "payload",
           Deliverable(h, Head(conn[c].pipe).eid),
           delivered' = [delivered EXCEPT ![h] = Append(@, Head(conn[c].pipe).eid)],
           \A k \in Hosts : store'[k].row = store[k].row /\ store'[k].unacked = store[k].unacked
    PROVE  Box!MGive(h) /\ Head(conn[c].pipe).eid = store[h].recent + 1
<1> DEFINE e == Head(conn[c].pipe).eid
           p == Peer(h)
<1>1. p \in Hosts /\ store[h].recent \in Nat /\ store[p].row \in Nat /\ ConnSound(conn, store)
    BY PeerIsHost DEF Inv, TypeOK, Databases
<1>2. c[1] = p /\ Head(conn[c].pipe) \in Carried(c, store)
    BY <1>1, TakenSound
<1>3. e \in Nat /\ e \in 1 .. store[p].row
    BY <1>2 DEF Carried
<1>4. e = store[h].recent + 1
    BY <1>1, <1>3, VerdictFacts DEF Deliverable
<1>5. delivered' = [delivered EXCEPT ![h] = Append(@, store[h].recent + 1)]
    BY <1>4
<1> HIDE DEF e
<1>6. Box!Other(h) = p
    BY DEF Box!Other, Peer
<1> HIDE DEF p
<1>7. Recorded[h] = store[h].recent /\ Numbered[p] = store[p].row
    BY <1>1 DEF Recorded, Numbered
<1>8. Recorded[h] < Numbered[Box!Other(h)]
    BY <1>1, <1>3, <1>4, <1>6, <1>7
<1>9. Numbered' = Numbered /\ Unsettled' = Unsettled
    BY DEF Numbered, Unsettled
<1> QED  BY <1>4, <1>5, <1>7, <1>8, <1>9 DEF Box!MGive, e

\* Reading a payload delivers and records the next envelope, or is not
\* noticed.
LEMMA PayloadBox ==
    ASSUME Inv, NEW h \in Hosts, NEW c \in Conns, ReadPayload(h, c)
    PROVE  Box!MDeliver(h) \/ Unnoticed
<1> DEFINE e == Head(conn[c].pipe).eid
<1>1. CASE Deliverable(h, e)
    <2>1. /\ delivered' = [delivered EXCEPT ![h] = Append(@, e)]
          /\ store' = [store EXCEPT ![h].recent = e]
          /\ Ready(h, c) /\ Head(conn[c].pipe).type = "payload"
        BY <1>1 DEF ReadPayload
    <2>2. store[h] \in Databases
        BY DEF Inv, TypeOK
    <2>3. /\ store'[h].recent = e /\ store'[h].row = store[h].row /\ store'[h].unacked = store[h].unacked
          /\ \A k \in Hosts : k # h => store'[k] = store[k]
        BY <2>1, <2>2 DEF Inv, TypeOK, Databases
    <2>4. \A k \in Hosts : store'[k].row = store[k].row /\ store'[k].unacked = store[k].unacked
        BY <2>3
    <2>5. Box!MGive(h) /\ e = store[h].recent + 1
        BY <1>1, <2>1, <2>4, GiveBox
    <2>6. Recorded' = [Recorded EXCEPT ![h] = @ + 1]
        BY <2>3, <2>5 DEF Recorded
    <2> QED  BY <2>5, <2>6 DEF Box!MDeliver
<1>2. CASE ~Deliverable(h, e)
    BY <1>2 DEF ReadPayload, Unnoticed
<1> QED  BY <1>1, <1>2

\* An answer lets go of an envelope that the other host has recorded.
LEMMA AckBox ==
    ASSUME Inv, NEW h \in Hosts, NEW c \in Conns, ReadAck(h, c)
    PROVE  (\E e \in Unsettled[h] : Box!MSettle(h, e)) \/ Unnoticed
<1> DEFINE e == Head(conn[c].pipe).eid
           p == Peer(h)
<1>1. /\ Ready(h, c) /\ Head(conn[c].pipe).type \in {"ack", "nack"}
      /\ store' = [store EXCEPT ![h] = ack(store[h], e)] /\ delivered' = delivered
    BY DEF ReadAck
<1>2. p \in Hosts /\ store[h] \in Databases /\ store[p].recent \in Nat /\ ConnSound(conn, store)
    BY PeerIsHost DEF Inv, TypeOK, Databases
<1>3. c[1] = p /\ Head(conn[c].pipe) \in Carried(c, store)
    BY <1>1, <1>2, TakenSound
<1>4. e \in Nat /\ e <= store[p].recent
    BY <1>1, <1>3 DEF Carried
<1>5. Box!Other(h) = p
    BY DEF Box!Other, Peer
<1> HIDE DEF e, p
<1>6. \A k \in Hosts : store'[k] = IF k = h THEN ack(store[h], e) ELSE store[k]
    BY <1>1 DEF Inv, TypeOK
<1>7. CASE e \in store[h].unacked
    <2>1. /\ ack(store[h], e).row = store[h].row /\ ack(store[h], e).recent = store[h].recent
          /\ ack(store[h], e).unacked = store[h].unacked \ {e}
        BY <1>2, <1>7 DEF ack, Databases
    <2>2. Numbered' = Numbered /\ Recorded' = Recorded
        BY <1>6, <2>1 DEF Numbered, Recorded
    <2>3. Unsettled' = [Unsettled EXCEPT ![h] = @ \ {e}] /\ e \in Unsettled[h]
        BY <1>6, <1>7, <2>1 DEF Unsettled
    <2>4. e <= Recorded[Box!Other(h)]
        BY <1>2, <1>4, <1>5 DEF Recorded
    <2> QED  BY <1>1, <2>2, <2>3, <2>4 DEF Box!MSettle
<1>8. CASE e \notin store[h].unacked
    <2>1. ack(store[h], e) = store[h]
        BY <1>8 DEF ack
    <2> QED  BY <1>1, <1>6, <2>1 DEF Unnoticed
<1> QED  BY <1>7, <1>8

\* A crash in a delivery gives an envelope that is not recorded.
LEMMA CrashBox ==
    ASSUME Inv, NEW h \in Hosts, NEW c \in Conns, CrashInDelivery(h, c)
    PROVE  Box!MDeliverUnrecorded(h)
<1>1. /\ Ready(h, c) /\ Head(conn[c].pipe).type = "payload" /\ Deliverable(h, Head(conn[c].pipe).eid)
      /\ delivered' = [delivered EXCEPT ![h] = Append(@, Head(conn[c].pipe).eid)] /\ store' = store
    BY DEF CrashInDelivery
<1>2. Box!MGive(h)
    BY <1>1, GiveBox
<1> QED  BY <1>1, <1>2 DEF Box!MDeliverUnrecorded, Recorded

\* Every other step goes unnoticed.
LEMMA OthersUnnoticed ==
    ASSUME Inv, NEW h \in Hosts,
           \/ Discover(h) \/ DiscoverUnreachable(h) \/ check_expiration(h)
           \/ process_socket_connected(h) \/ WriterFails(h) \/ EndStep(h) \/ Crash(h)
           \/ \E c \in Conns : ReaderFails(h, c) \/ ReadHello(h, c)
    PROVE  Unnoticed
<1>1. CASE EndStep(h)
    <2>1. delivered' = delivered /\ (store' = [store EXCEPT ![h] = maintain(@)] \/ store' = store)
        BY <1>1 DEF EndStep, Inv, TypeOK
    <2> QED  BY <2>1, MaintainUnnoticed
<1>2. ASSUME NEW cs, check_complete_channel(h, cs), delivered' = delivered PROVE Unnoticed
    <2>1. store' = [store EXCEPT ![h] = maintain(@)] \/ store' = store
        BY <1>2 DEF check_complete_channel, process_channel_established
    <2> QED  BY <1>2, <2>1, MaintainUnnoticed
<1>3. CASE process_socket_connected(h) \/ \E c \in Conns : ReadHello(h, c)
    <2>1. delivered' = delivered /\ \E cs : check_complete_channel(h, cs)
        BY <1>3, Zenon DEF process_socket_connected, ReadHello
    <2> QED  BY <1>2, <2>1
<1>4. CASE \/ Discover(h) \/ DiscoverUnreachable(h) \/ check_expiration(h)
           \/ WriterFails(h) \/ Crash(h) \/ \E c \in Conns : ReaderFails(h, c)
    <2>1. store' = store /\ delivered' = delivered
        BY <1>4, Zenon DEF Discover, DiscoverUnreachable, check_expiration, WriterFails, Crash,
           ReaderFails
    <2> QED  BY <2>1 DEF Unnoticed
<1> QED  BY <1>1, <1>3, <1>4, Zenon

\* To the two applications reliable delivery is a pair of mailboxes: each
\* step enqueues, gives the next number to the other application, with or
\* without a record, lets go of a recorded number, or goes unnoticed, through
\* every crash, break, dial and expiry.
THEOREM DeliveryIsMailboxes == Spec => Box!MSpec
<1>1. Init => Box!MInit
    BY DEF Init, Blank, Box!MInit, Numbered, Unsettled, Recorded
<1>2. ASSUME Inv, [Next]_vars PROVE [Box!MNext]_(Box!mvars)
    <2>1. CASE Unnoticed
        BY <2>1, UnnoticedStutters
    <2>2. ASSUME NEW h \in Hosts, enqueue(h) PROVE Box!MNext
        BY <1>2, <2>2, EnqueueBox DEF Box!MNext
    <2>3. ASSUME NEW h \in Hosts, NEW c \in Conns, ReadPayload(h, c) PROVE Box!MNext \/ Unnoticed
        BY <1>2, <2>3, PayloadBox DEF Box!MNext
    <2>4. ASSUME NEW h \in Hosts, NEW c \in Conns, ReadAck(h, c) PROVE Box!MNext \/ Unnoticed
        BY <1>2, <2>4, AckBox DEF Box!MNext
    <2>5. ASSUME NEW h \in Hosts, NEW c \in Conns, CrashInDelivery(h, c) PROVE Box!MNext
        BY <1>2, <2>5, CrashBox DEF Box!MNext
    <2>6. ASSUME NEW c \in Conns, Break(c) PROVE Unnoticed
        BY <2>6, Zenon DEF Break, Unnoticed
    <2>7. ASSUME UNCHANGED vars PROVE Unnoticed
        BY <2>7, Zenon DEF vars, Unnoticed
    <2> QED  BY <1>2, <2>1, <2>2, <2>3, <2>4, <2>5, <2>6, <2>7, OthersUnnoticed, Zenon DEF Next
<1>3. Spec => Init /\ [][Next]_vars
    BY DEF Spec
<1> QED  BY <1>1, <1>2, <1>3, Invariant, PTL DEF Box!MSpec
=============================================================================
