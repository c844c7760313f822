--------------------------- MODULE InputProcessor ---------------------------
(***************************************************************************)
(* The receiving end of one meshnet connection: basic_input_processor with *)
(* simple_input_processor (framed = FALSE: one buffer of packets) or with  *)
(* priority_input_processor (framed = TRUE: frames of priority_frame.hpp,  *)
(* each a piece of the packet stream of its priority).                     *)
(*                                                                         *)
(* The bytes of a stream are named, not valued: <<"packet", k, i>> is byte *)
(* i of the k-th packet sent, <<"frame", f, i>> byte i of the header of    *)
(* the f-th frame.  process_input() runs from "idle" to "idle"; one action *)
(* is one turn of its loops.                                               *)
(***************************************************************************)
EXTENDS Integers, Sequences, SequencesExt

CONSTANTS Lane,        \* priorities
          HeaderSize,  \* bytes of a packet header
          Body,        \* lengths of packet bodies
          FrameSize,   \* bytes of the longest frame
          MaxPackets   \* bound on the packets sent

FrameHeader == 3  \* priority_frame::header_size()

ASSUME InputAssumption ==
    /\ Lane # {} /\ HeaderSize \in Nat \ {0} /\ Body \subseteq Nat \ {0}
    /\ FrameSize \in Nat /\ FrameSize > FrameHeader /\ MaxPackets \in Nat

VARIABLES framed,    \* which of the two input processors the node was built with
          sent,      \* packets sent: sequence of [lane, body]
          frames,    \* frames sent: sequence of [lane, size]
          wire,      \* bytes sent and not yet read
          phase,     \* "idle", or the loop that process_input() is in
          tmp,       \* account.tmp
          buffer,    \* lane -> account.b, or account.priority_buffers
          lane,      \* account.current_priority
          ready,     \* _frame_ready
          in,        \* what the deserializer has still to read of the buffer
          delivered, \* lane -> packets handed to process(), in order, 0 for one that was never sent
          parted,    \* lanes on which a header was read and its packet was not there
          fault      \* "threw" once a packet type was unexpected

vars == <<framed, sent, frames, wire, phase, tmp, buffer, lane, ready, in, delivered, parted, fault>>
sendVars == <<framed, sent, frames>>

Init ==
    /\ framed \in BOOLEAN
    /\ sent = <<>> /\ frames = <<>> /\ wire = <<>>
    /\ phase = "idle" /\ tmp = <<>> /\ buffer = [l \in Lane |-> <<>>]
    /\ lane = (CHOOSE l \in Lane : TRUE) /\ ready = FALSE /\ in = <<>>
    /\ delivered = [l \in Lane |-> <<>>] /\ parted = {} /\ fault = "none"

Size(k) == HeaderSize + sent[k].body

-----------------------------------------------------------------------------
(* The sender *)

PacketBytes(k, n) == [i \in 1 .. n |-> <<"packet", k, i>>]
FrameBytes(f) == [i \in 1 .. FrameHeader |-> <<"frame", f, i>>]

Payload == FrameSize - FrameHeader
Pieces(n) == (n + Payload - 1) \div Payload
Least2(a, b) == IF a <= b THEN a ELSE b

(* A packet, on the one lane of a writer_queue, or its frames, on the lane it was given. *)
SendPacket(l, b) ==
    LET k == Len(sent) + 1
        n == HeaderSize + b
        piece(i) == SubSeq(PacketBytes(k, n), (i - 1) * Payload + 1, Least2(i * Payload, n))
    IN  /\ phase = "idle" /\ fault = "none" /\ k <= MaxPackets
        /\ framed \/ l = lane
        /\ sent' = Append(sent, [lane |-> l, body |-> b])
        /\ \/ /\ ~framed
              /\ wire' = wire \o PacketBytes(k, n)
              /\ UNCHANGED frames
           \/ /\ framed
              /\ frames' = frames \o [i \in 1 .. Pieces(n) |-> [lane |-> l, size |-> Len(piece(i))]]
              /\ wire' = wire \o FlattenSeq([i \in 1 .. Pieces(n) |->
                                                FrameBytes(Len(frames) + i) \o piece(i)])
        /\ UNCHANGED <<framed, phase, tmp, buffer, lane, ready, in, delivered, parted, fault>>

-----------------------------------------------------------------------------
(* process_input() *)

(* The pool has read n bytes, which end anywhere; append_chunk(). *)
ReadChunk(n) ==
    /\ phase = "idle" /\ fault = "none" /\ n <= Len(wire)
    /\ phase' = "frames"
    /\ wire' = SubSeq(wire, n + 1, Len(wire))
    /\ \/ /\ framed
          /\ tmp' = tmp \o SubSeq(wire, 1, n)
          /\ UNCHANGED <<buffer, ready>>
       \/ /\ ~framed
          /\ buffer' = [buffer EXCEPT ![lane] = @ \o SubSeq(wire, 1, n)]
          /\ ready' = TRUE
          /\ UNCHANGED tmp
    /\ UNCHANGED <<sendVars, lane, in, delivered, parted, fault>>

(* priority_frame::parse() of the bytes in tmp: they start with a frame, and it is whole. *)
FrameReady == Len(tmp) >= FrameHeader /\ Len(tmp) >= FrameHeader + frames[tmp[1][2]].size

RestOfTmp(size) == SubSeq(tmp, FrameHeader + size + 1, Len(tmp))

(* read_frame() of the priority processor: the payload goes to the buffer of its priority. *)
ReadFrame ==
    /\ phase = "frames" /\ framed /\ FrameReady
    /\ LET f == frames[tmp[1][2]]
           b == buffer[f.lane] \o SubSeq(tmp, FrameHeader + 1, FrameHeader + f.size)
       IN  /\ lane' = f.lane
           /\ buffer' = [buffer EXCEPT ![f.lane] = b]
           /\ in' = b
           /\ tmp' = RestOfTmp(f.size)
    /\ phase' = "packets"
    /\ UNCHANGED <<sendVars, wire, ready, delivered, parted, fault>>

(* read_frame() of the simple processor: once for each chunk. *)
ReadUnframed ==
    /\ phase = "frames" /\ ~framed /\ ready
    /\ ready' = FALSE /\ in' = buffer[lane]
    /\ phase' = "packets"
    /\ UNCHANGED <<sendVars, wire, tmp, buffer, lane, delivered, parted, fault>>

\* Fault: the loop ends although tmp holds another frame.
NoFrameLeftEarly == TRUE

NoFrameLeft == IF framed THEN ~FrameReady ELSE ~ready

EndOfInput ==
    /\ phase = "frames" /\ NoFrameLeft
    /\ phase' = "idle"
    /\ UNCHANGED <<sendVars, wire, tmp, buffer, lane, ready, in, delivered, parted, fault>>

(* The header at the front of `in' is that of a packet. *)
AtHeader == \A i \in 1 .. HeaderSize : in[i] = <<"packet", in[1][2], i>>

(* header and packet are there: process(), and on to the next one. *)
ParsePacket ==
    /\ phase = "packets" /\ Len(in) >= HeaderSize /\ AtHeader
    /\ LET k == in[1][2]
       IN  /\ Len(in) >= Size(k)
           /\ delivered' = [delivered EXCEPT ![lane] = Append(@, k)]
           /\ in' = SubSeq(in, Size(k) + 1, Len(in))
    /\ UNCHANGED <<sendVars, wire, phase, tmp, buffer, lane, ready, parted, fault>>

\* Fault: the buffer keeps what was read, too.
UnreadAll == buffer[lane]

(* What the deserializer has not read when the loop ends: the transaction that failed is
   rolled back to its start, which for a packet is behind its header. *)
Unread == IF Len(in) < HeaderSize THEN in ELSE SubSeq(in, HeaderSize + 1, Len(in))

(* Not enough data for a header, or for its packet, or no data: the buffer keeps what was
   not read.  A packet that its header promises in vain may be one that was never sent. *)
EndOfBuffer ==
    /\ phase = "packets"
    /\ Len(in) >= HeaderSize /\ AtHeader => Len(in) < Size(in[1][2])
    /\ buffer' = [buffer EXCEPT ![lane] = Unread]
    /\ parted' = IF Len(in) >= HeaderSize THEN parted \cup {lane} ELSE parted
    /\ in' = <<>>
    /\ phase' = "frames"
    /\ UNCHANGED <<sendVars, wire, tmp, lane, ready, delivered, fault>>

(* Other bytes stand where a header is read.  What they say is anything: a packet of n more
   bytes, which is processed, one that is not there (EndOfBuffer), a longer header, of data
   or with a checksum, which is not there either, or an unexpected type. *)
Stray == phase = "packets" /\ Len(in) >= HeaderSize /\ ~AtHeader

ParseStray(n) ==
    /\ Stray /\ HeaderSize + n <= Len(in)
    /\ delivered' = [delivered EXCEPT ![lane] = Append(@, 0)]
    /\ in' = SubSeq(in, HeaderSize + n + 1, Len(in))
    /\ UNCHANGED <<sendVars, wire, phase, tmp, buffer, lane, ready, parted, fault>>

StrayHeaderCut ==
    /\ Stray
    /\ buffer' = [buffer EXCEPT ![lane] = in]
    /\ in' = <<>> /\ phase' = "frames"
    /\ UNCHANGED <<sendVars, wire, tmp, lane, ready, delivered, parted, fault>>

(* The exception leaves step(), and nothing in the library or the demos catches it. *)
UnexpectedType ==
    /\ Stray
    /\ fault' = "threw" /\ phase' = "idle" /\ in' = <<>>
    /\ UNCHANGED <<sendVars, wire, tmp, buffer, lane, ready, delivered, parted>>

Next ==
    \/ \E l \in Lane, b \in Body : SendPacket(l, b)
    \/ \E n \in 1 .. Len(wire) : ReadChunk(n)
    \/ ReadFrame \/ ReadUnframed \/ EndOfInput
    \/ ParsePacket \/ EndOfBuffer \/ StrayHeaderCut \/ UnexpectedType
    \/ \E n \in 0 .. Len(in) : ParseStray(n)

Spec == Init /\ [][Next]_vars

-----------------------------------------------------------------------------
(* Types of the state. *)
TypeOK ==
    /\ sent \in Seq([lane : Lane, body : Body]) /\ Len(sent) <= MaxPackets
    /\ frames \in Seq([lane : Lane, size : 1 .. Payload])
    /\ phase \in {"idle", "frames", "packets"} /\ lane \in Lane /\ ready \in BOOLEAN /\ parted \subseteq Lane
    /\ \A i \in DOMAIN wire : wire[i][1] \in {"packet", "frame"}
    /\ \A i \in DOMAIN tmp : tmp[i][1] \in {"packet", "frame"}
    /\ DOMAIN buffer = Lane /\ \A l \in Lane : \A i \in DOMAIN buffer[l] : buffer[l][i][1] = "packet"
    /\ \A l \in Lane : delivered[l] \in Seq(0 .. Len(sent))
    /\ fault \in {"none", "threw"}

SentOn(l) == SelectSeq([k \in 1 .. Len(sent) |-> k], LAMBDA k : sent[k].lane = l)

Ascending(s) == \A i, j \in DOMAIN s : i < j => s[i] < s[j]

(* However the stream is cut into reads and frames, the packets of each priority are
   processed at most once and in the order in which they were sent, also among those that
   were never sent.  Such a one is processed, or a packet left out, only on a lane on which
   a header had been read without its packet: the other lanes do not notice. *)
InOrder ==
    /\ TypeOK
    /\ \A l \in Lane :
          LET genuine == SelectSeq(delivered[l], LAMBDA k : k # 0)
          IN  /\ Ascending(genuine) /\ ToSet(genuine) \subseteq ToSet(SentOn(l))
              /\ l \notin parted => IsPrefix(delivered[l], SentOn(l))

(* No packet waits in a buffer for bytes that need not come: when all that was sent has
   been read, all of it has been processed, wherever reads and frames cut the headers, on
   every lane on which they left the body of no packet behind its header. *)
NothingHeld ==
    (phase = "idle" /\ wire = <<>> /\ fault = "none") =>
        \A l \in Lane \ parted : delivered[l] = SentOn(l)
=============================================================================
