----------------------------- MODULE ByteStream -----------------------------
(***************************************************************************)
(* What a UDT stream promises to the two applications that use it: what    *)
(* one has written the other reads, byte after byte.  A byte is its place  *)
(* in the stream.                                                          *)
(***************************************************************************)
EXTENDS Naturals, Sequences

VARIABLES written,  \* how many bytes were written
          read      \* the bytes that were read

svars == <<written, read>>

SInit == written = 0 /\ read = <<>>

(* More bytes are written. *)
SWrite == written' \in Nat /\ written' > written /\ UNCHANGED read

(* The next n bytes are read. *)
SRead(n) ==
    /\ read' = read \o [i \in 1 .. n |-> Len(read) + i]
    /\ UNCHANGED written

(* Of the bytes written and not yet read, some are. *)
SNext == SWrite \/ \E n \in 1 .. written - Len(read) : SRead(n)

SSpec == SInit /\ [][SNext]_svars
=============================================================================
