---------------------------- MODULE FileTransporter ----------------------------
(***************************************************************************)
(* One file sent from a sender to a receiver by the file transporter of    *)
(* the p2p engine.  The sender announces the file, the receiver asks for   *)
(* it from the offset it has reached, and the sender streams chunks, one   *)
(* per upload whenever the queue of the file has run empty.  Commands go   *)
(* through the regular queue, begin, chunks and end through the queue of   *)
(* the file.  A broken connection releases the peer on both sides; what    *)
(* the receiver has written stays in its transient files, and the          *)
(* announcement sent again resumes the download.                           *)
(*                                                                         *)
(* The file is Size chunks; the content of a chunk is its index, so what   *)
(* is written of the file is the set of chunks written.                    *)
(***************************************************************************)
EXTENDS Integers, Sequences, SequencesExt

CONSTANTS Size,       \* chunks of the file
          MaxSends,   \* announcements by the sending application
          MaxBreaks,  \* broken connections
          MaxStops    \* downloads stopped by the receiving application

VARIABLES
    linked,     \* the channel between the hosts is established
    toR, toS,   \* packets under way, regular queues included
    cached,     \* sender: the path of the file is in the cache
    uploads,    \* sender: _ofile_pool, in the order its iteration takes
    chunkq,     \* sender: the queue of the file in the writer account
    ifile,      \* receiver: the file is in _ifile_pool
    offset,     \* receiver: the offset in the description file
    data,       \* receiver: the chunks in the transient data file
    target,     \* receiver: the chunks of the file when it was committed
    sends, breaks, stops

vars == <<linked, toR, toS, cached, uploads, chunkq, ifile, offset, data, target,
          sends, breaks, stops>>
counts == <<sends, breaks, stops>>
sender == <<cached, uploads, chunkq>>
receiver == <<ifile, offset, data, target>>

None == -1
NoFile == {None}
Chunks == 0 .. Size - 1

Packet(t, n) == <<[type |-> t, n |-> n]>>
NoQueue == Packet("none", 0)

Init ==
    /\ linked = TRUE
    /\ toR = <<>> /\ toS = <<>>
    /\ cached = FALSE /\ uploads = <<>> /\ chunkq = NoQueue
    /\ ifile = FALSE /\ offset = None /\ data = {} /\ target = NoFile
    /\ sends = 0 /\ breaks = 0 /\ stops = 0

\* Without a writer account a packet is not enqueued.
ToR(p) == toR' = IF linked THEN toR \o p ELSE toR
ToS(p) == toS' = IF linked THEN toS \o p ELSE toS

\* begin, chunk and end packets open the queue of the file.
Queued(p) == IF ~linked THEN chunkq ELSE IF chunkq = NoQueue THEN p ELSE chunkq \o p

AtS(t) == toS # <<>> /\ Head(toS).type = t /\ toS' = Tail(toS)
AtR(t) == toR # <<>> /\ Head(toR).type = t /\ toR' = Tail(toR)

----------------------------------------------------------------------------
(* The sender *)

send_file ==
    /\ sends < MaxSends /\ sends' = sends + 1
    /\ cached' = TRUE
    /\ ToR(Packet("credentials", 0))
    /\ UNCHANGED <<linked, toS, uploads, chunkq, receiver, breaks, stops>>

\* Each request starts an upload of its own; its place among the uploads of
\* the file is up to the hash table.
process_file_request ==
    /\ AtS("request")
    /\ IF cached
       THEN /\ \E i \in 1 .. Len(uploads) + 1 :
                 uploads' = InsertAt(uploads, i, [pos |-> Head(toS).n, requested |-> TRUE])
            /\ chunkq' = Queued(Packet("begin", Head(toS).n))
       ELSE UNCHANGED <<uploads, chunkq>>
    /\ UNCHANGED <<linked, toR, cached, receiver, counts>>

process_file_stop ==
    /\ AtS("stop")
    /\ uploads' = <<>> /\ chunkq' = NoQueue
    /\ UNCHANGED <<linked, toR, cached, receiver, counts>>

process_file_state ==
    /\ AtS("state")
    /\ cached' = FALSE /\ uploads' = <<>>
    /\ UNCHANGED <<linked, toR, chunkq, receiver, counts>>

Due(u) == u.requested
Piece(u) == IF u.pos < Size THEN Packet("chunk", u.pos) ELSE Packet("end", 0)
Sending(us) == FlattenSeq([i \in DOMAIN us |-> IF Due(us[i]) THEN Piece(us[i]) ELSE <<>>])
Advanced(u) == IF Due(u) THEN [pos |-> u.pos + 1, requested |-> FALSE] ELSE u

\* Every upload a chunk was requested of sends one; at the end of the file
\* it sends the end and leaves the pool.
step ==
    /\ linked
    /\ \E i \in DOMAIN uploads : Due(uploads[i])
    /\ LET left == SelectSeq(uploads, LAMBDA u : ~(Due(u) /\ u.pos >= Size))
       IN uploads' = [i \in DOMAIN left |-> Advanced(left[i])]
    /\ chunkq' = Queued(Sending(uploads))
    /\ UNCHANGED <<linked, toR, toS, cached, receiver, counts>>

\* The queue of the file is sent; when it is empty the next chunk is asked
\* of the first upload to this peer, and without one the queue is erased.
send_outgoing_packets ==
    /\ linked /\ chunkq # NoQueue
    /\ IF chunkq # <<>>
       THEN toR' = toR \o chunkq /\ chunkq' = <<>> /\ UNCHANGED uploads
       ELSE /\ toR' = toR
            /\ IF uploads = <<>>
               THEN chunkq' = NoQueue /\ UNCHANGED uploads
               ELSE chunkq' = chunkq /\ uploads' = [uploads EXCEPT ![1].requested = TRUE]
    /\ UNCHANGED <<linked, toS, cached, receiver, counts>>

----------------------------------------------------------------------------
(* The receiver *)

DataSize(d) == IF d = {} THEN 0 ELSE 1 + CHOOSE c \in d : \A e \in d : e <= c

\* The description is created unless the download was begun before; the
\* request asks for what follows the smaller of its offset and the data.
process_file_credentials ==
    LET o == IF offset = None THEN 0 ELSE offset
        d == IF offset = None THEN {} ELSE data
        from == IF o > DataSize(d) THEN DataSize(d) ELSE o
    IN
    /\ AtR("credentials")
    /\ offset' = o /\ data' = d
    /\ ifile' = TRUE
    /\ ToS(Packet("request", from))
    /\ UNCHANGED <<linked, sender, target, counts>>

process_file_begin ==
    /\ AtR("begin")
    /\ UNCHANGED <<linked, toS, sender, receiver, counts>>

process_file_chunk ==
    /\ AtR("chunk")
    /\ IF ifile
       THEN data' = data \union {Head(toR).n} /\ offset' = Head(toR).n + 1
       ELSE UNCHANGED <<data, offset>>
    /\ UNCHANGED <<linked, toS, sender, ifile, target, counts>>

\* The transient files are renamed and the sender is told of the success.
process_file_end ==
    /\ AtR("end")
    /\ IF ifile
       THEN /\ target' = data /\ data' = {} /\ offset' = None /\ ifile' = FALSE
            /\ ToS(Packet("state", 0))
       ELSE UNCHANGED <<toS, receiver>>
    /\ UNCHANGED <<linked, sender, counts>>

stop_file ==
    /\ stops < MaxStops /\ stops' = stops + 1
    /\ ifile /\ ifile' = FALSE
    /\ ToS(Packet("stop", 0))
    /\ UNCHANGED <<linked, toR, sender, offset, data, target, sends, breaks>>

----------------------------------------------------------------------------
(* The connection *)

\* Both engines release the peer: the accounts go with their queues, and
\* the receiver gives up the download (expire_addresser()).  The uploads of
\* the sender stay: nothing calls expire_addressee().
release_peer ==
    /\ linked /\ breaks < MaxBreaks /\ breaks' = breaks + 1
    /\ linked' = FALSE /\ toR' = <<>> /\ toS' = <<>>
    /\ chunkq' = NoQueue /\ ifile' = FALSE
    /\ UNCHANGED <<cached, uploads, offset, data, target, sends, stops>>

channel_established ==
    /\ ~linked /\ linked' = TRUE
    /\ UNCHANGED <<toR, toS, sender, receiver, counts>>

Next ==
    \/ send_file \/ process_file_request \/ process_file_stop \/ process_file_state
    \/ step \/ send_outgoing_packets
    \/ process_file_credentials \/ process_file_begin \/ process_file_chunk
    \/ process_file_end \/ stop_file
    \/ release_peer \/ channel_established

Spec == Init /\ [][Next]_vars

----------------------------------------------------------------------------
(* Properties *)

\* A file that is committed and announced as downloaded successfully has
\* every chunk (file_transporter.hpp, commit_incoming_file()).
CommittedIntact == target # NoFile => target = Chunks

=============================================================================
