----------------------------- MODULE SocketPool -----------------------------
(***************************************************************************)
(* netty::socket_pool (include/pfs/netty/socket_pool.hpp): the owner of    *)
(* every open socket of a node.  Sockets live in a vector of accounts; a   *)
(* map takes a socket identifier to its index, and the indices of removed  *)
(* sockets are reused, smallest first.  Indices start at 1 here, at 0 in   *)
(* the code.                                                               *)
(***************************************************************************)
EXTENDS Integers, Sequences, FiniteSets

CONSTANTS SocketId,      \* socket identifiers (descriptors)
          Kind,          \* kind_enum: how the socket was obtained
          NoSocket,      \* the identifier of a default-constructed socket
          MaxRemovable   \* bound on the length of the removal list

ASSUME PoolAssumption ==
    /\ NoSocket \notin SocketId
    /\ Kind # {}
    /\ MaxRemovable \in Nat

VARIABLES accounts,   \* _accounts: sequence of [id, kind]
          freeIndices,\* _free_indices
          mapping,    \* _mapping: function from identifiers to indices
          removable   \* _removable, in the order of the requests

vars == <<accounts, freeIndices, mapping, removable>>

Account == [id : SocketId \cup {NoSocket}, kind : Kind]

Init ==
    /\ accounts = <<>>
    /\ freeIndices = {}
    /\ mapping = [id \in {} |-> 0]
    /\ removable = <<>>

Least(S) == CHOOSE i \in S : \A j \in S : i <= j

(***************************************************************************)
(* add().  The operating system never hands out a descriptor that some     *)
(* open socket holds, and the pool holds its sockets open until they are   *)
(* overwritten: the guard is that fact, not a test in the code.            *)
(***************************************************************************)
Fresh(id) == \A i \in DOMAIN accounts : accounts[i].id # id

Map(id, index) == [x \in DOMAIN mapping \cup {id} |-> IF x = id THEN index ELSE mapping[x]]

\* Fault: the index after the last one is taken for the size of the vector.
AddOffByOne(id, kind) ==
    /\ Fresh(id)
    /\ \/ /\ freeIndices = {}
          /\ mapping' = Map(id, Len(accounts))
          /\ accounts' = Append(accounts, [id |-> id, kind |-> kind])
          /\ UNCHANGED freeIndices
       \/ /\ freeIndices # {}
          /\ mapping' = Map(id, Least(freeIndices))
          /\ accounts' = [accounts EXCEPT ![Least(freeIndices)] = [id |-> id, kind |-> kind]]
          /\ freeIndices' = freeIndices \ {Least(freeIndices)}
    /\ UNCHANGED removable

\* Fault: a reused index stays on the free list.
AddKeepsFreeIndex(id, kind) ==
    /\ Fresh(id)
    /\ \/ /\ freeIndices = {}
          /\ mapping' = Map(id, Len(accounts) + 1)
          /\ accounts' = Append(accounts, [id |-> id, kind |-> kind])
       \/ /\ freeIndices # {}
          /\ mapping' = Map(id, Least(freeIndices))
          /\ accounts' = [accounts EXCEPT ![Least(freeIndices)] = [id |-> id, kind |-> kind]]
    /\ UNCHANGED <<freeIndices, removable>>

Add(id, kind) ==
    /\ Fresh(id)
    /\ \/ /\ freeIndices = {}
          /\ mapping' = Map(id, Len(accounts) + 1)
          /\ accounts' = Append(accounts, [id |-> id, kind |-> kind])
          /\ UNCHANGED freeIndices
       \/ /\ freeIndices # {}
          /\ mapping' = Map(id, Least(freeIndices))
          /\ accounts' = [accounts EXCEPT ![Least(freeIndices)] = [id |-> id, kind |-> kind]]
          /\ freeIndices' = freeIndices \ {Least(freeIndices)}
    /\ UNCHANGED removable

(* remove_later(): any identifier may be named, in the pool or not, again and again. *)
RemoveLater(id) ==
    /\ Len(removable) < MaxRemovable
    /\ removable' = Append(removable, id)
    /\ UNCHANGED <<accounts, freeIndices, mapping>>

Requested == {removable[k] : k \in DOMAIN removable}

(* The removal list's part that is in the pool, and the indices it frees. *)
Removed == Requested \cap DOMAIN mapping
Vacated == {mapping[id] : id \in Removed}

(***************************************************************************)
(* apply_remove().  A second occurrence of an identifier in the list finds *)
(* no mapping, so the loop's effect is that of the set of identifiers.     *)
(***************************************************************************)
CloseVacated ==
    accounts' = [i \in DOMAIN accounts |->
                    IF i \in Vacated THEN [accounts[i] EXCEPT !.id = NoSocket] ELSE accounts[i]]

\* Fault: the mapping of a removed socket is not erased.
ApplyRemoveKeepsMapping ==
    /\ removable # <<>>
    /\ CloseVacated
    /\ freeIndices' = freeIndices \cup Vacated
    /\ removable' = <<>>
    /\ UNCHANGED mapping

\* Fault: the index of a removed socket is not put on the free list.
ApplyRemoveLosesIndex ==
    /\ removable # <<>>
    /\ CloseVacated
    /\ mapping' = [id \in DOMAIN mapping \ Removed |-> mapping[id]]
    /\ removable' = <<>>
    /\ UNCHANGED freeIndices

\* Fault: the removal list is not cleared.
ApplyRemoveKeepsList ==
    /\ removable # <<>>
    /\ CloseVacated
    /\ freeIndices' = freeIndices \cup Vacated
    /\ mapping' = [id \in DOMAIN mapping \ Removed |-> mapping[id]]
    /\ UNCHANGED removable

ApplyRemove ==
    /\ removable # <<>>
    /\ CloseVacated
    /\ freeIndices' = freeIndices \cup Vacated
    /\ mapping' = [id \in DOMAIN mapping \ Removed |-> mapping[id]]
    /\ removable' = <<>>

Next ==
    \/ \E id \in SocketId, kind \in Kind : Add(id, kind)
    \/ \E id \in SocketId : RemoveLater(id)
    \/ ApplyRemove

Spec == Init /\ [][Next]_vars

-----------------------------------------------------------------------------
(* locate_account(): its three PFS__TERMINATE conditions for a mapped identifier. *)
LocateOK(id) ==
    /\ mapping[id] \in DOMAIN accounts
    /\ mapping[id] \notin freeIndices
    /\ accounts[mapping[id]].id = id

-----------------------------------------------------------------------------
(* Types of the state. *)
TypeOK ==
    /\ accounts \in Seq(Account)
    /\ freeIndices \subseteq DOMAIN accounts
    /\ DOMAIN mapping \subseteq SocketId
    /\ mapping \in [DOMAIN mapping -> DOMAIN accounts]
    /\ removable \in Seq(SocketId)

(* Whatever the order of additions, removals and index reuse, locate() never hits
   one of the PFS__TERMINATEs of locate_account(). *)
LocateNeverTerminates == \A id \in DOMAIN mapping : LocateOK(id)

(* No slot of the vector is lost and none is shared: each holds one open socket that
   is mapped to it, or is closed and waits in the free list (socket_pool::add and
   apply_remove keep the three containers in step). *)
SlotsAccounted ==
    \A i \in DOMAIN accounts :
        IF i \in freeIndices
        THEN accounts[i].id = NoSocket
        ELSE accounts[i].id \in DOMAIN mapping /\ mapping[accounts[i].id] = i

(* A socket leaves the pool, or changes its kind, only when its removal was requested. *)
KeptUntilRequested ==
    [][\A id \in DOMAIN mapping : id \notin Requested =>
          /\ id \in DOMAIN mapping'
          /\ accounts'[mapping'[id]] = accounts[mapping[id]]]_vars

(* socket_pool implements the table with deferred removal. *)
Table == INSTANCE SocketTable
             WITH table <- [id \in DOMAIN mapping |-> accounts[mapping[id]].kind],
                  doomed <- Requested
TableSpec == Table!TSpec
=============================================================================
