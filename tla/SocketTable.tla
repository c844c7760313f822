---------------------------- MODULE SocketTable ----------------------------
(***************************************************************************)
(* What socket_pool promises to its user: a table from socket identifiers  *)
(* to the way the socket was obtained, in which a removal is requested now *)
(* and takes effect at the next apply_remove.                              *)
(***************************************************************************)
CONSTANTS SocketId,  \* socket identifiers (descriptors)
          Kind       \* how a socket came to the pool

VARIABLES table,     \* the sockets in the pool: a function from identifiers to Kind
          doomed     \* identifiers whose removal was requested

tvars == <<table, doomed>>

TInit == table = [id \in {} |-> CHOOSE k \in Kind : TRUE] /\ doomed = {}

TAdd(id, k) ==
    /\ id \notin DOMAIN table
    /\ table' = [x \in DOMAIN table \cup {id} |-> IF x = id THEN k ELSE table[x]]
    /\ UNCHANGED doomed

TRemoveLater(id) == doomed' = doomed \cup {id} /\ UNCHANGED table

TApplyRemove ==
    /\ table' = [x \in DOMAIN table \ doomed |-> table[x]]
    /\ doomed' = {}

TNext == \/ \E id \in SocketId, k \in Kind : TAdd(id, k)
         \/ \E id \in SocketId : TRemoveLater(id)
         \/ TApplyRemove

TSpec == TInit /\ [][TNext]_tvars
=============================================================================
