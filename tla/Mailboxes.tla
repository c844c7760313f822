------------------------------ MODULE Mailboxes ------------------------------
(***************************************************************************)
(* What reliable delivery promises to the applications of two hosts: each  *)
(* numbers what it enqueues for the other, which is given the numbers one  *)
(* after the other.  A number may be given again while nothing records     *)
(* that it was, and is held by its sender until it is recorded.            *)
(***************************************************************************)
EXTENDS Naturals, Sequences

CONSTANT Hosts

VARIABLES numbered,  \* host -> the last number it gave to an envelope
          held,      \* host -> the numbers it may have to send again
          recorded,  \* host -> the last number it recorded as given
          given      \* host -> the numbers given to its application

mvars == <<numbered, held, recorded, given>>

Other(h) == CHOOSE p \in Hosts : p # h

MInit ==
    /\ numbered = [h \in Hosts |-> 0] /\ recorded = [h \in Hosts |-> 0]
    /\ held = [h \in Hosts |-> {}] /\ given = [h \in Hosts |-> <<>>]

MEnqueue(h) ==
    /\ numbered' = [numbered EXCEPT ![h] = @ + 1]
    /\ held' = [held EXCEPT ![h] = @ \union {numbered[h] + 1}]
    /\ UNCHANGED <<recorded, given>>

(* The number after the recorded one is given, if it was enqueued. *)
MGive(h) ==
    /\ recorded[h] < numbered[Other(h)]
    /\ given' = [given EXCEPT ![h] = Append(@, recorded[h] + 1)]
    /\ UNCHANGED <<numbered, held>>

MDeliver(h) == MGive(h) /\ recorded' = [recorded EXCEPT ![h] = @ + 1]

(* The record is lost in a crash: the number will be given again. *)
MDeliverUnrecorded(h) == MGive(h) /\ UNCHANGED recorded

(* Only what the other host has recorded is let go. *)
MSettle(h, e) ==
    /\ e \in held[h] /\ e <= recorded[Other(h)]
    /\ held' = [held EXCEPT ![h] = @ \ {e}]
    /\ UNCHANGED <<numbered, recorded, given>>

MNext ==
    \E h \in Hosts : \/ MEnqueue(h) \/ MDeliver(h) \/ MDeliverUnrecorded(h)
                     \/ \E e \in held[h] : MSettle(h, e)

MSpec == MInit /\ [][MNext]_mvars
=============================================================================
