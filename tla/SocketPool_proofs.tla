-------------------------- MODULE SocketPool_proofs --------------------------
(***************************************************************************)
(* Proofs about socket_pool, for any set of descriptors and any length of  *)
(* the removal list.  LocateNeverTerminates is not inductive alone: that   *)
(* the index add() takes from the free list belongs to no mapped socket    *)
(* needs SlotsAccounted, and both need the types.                          *)
(***************************************************************************)
EXTENDS SocketPool, WellFoundedInduction, SequenceTheorems, TLAPS

IInv == TypeOK /\ LocateNeverTerminates /\ SlotsAccounted

(* _free_indices.begin() is an element of a non-empty _free_indices. *)
LEMMA LeastInSet ==
    ASSUME NEW S, S \subseteq Nat, S # {}
    PROVE  Least(S) \in S
<1> DEFINE R == OpToRel(<, Nat)
<1>1. \E i \in S : \A j \in S : ~ (<<j, i>> \in R)
    BY WFMin, NatLessThanWellFounded
<1>2. \A i, j \in S : j < i => <<j, i>> \in R
    BY DEF OpToRel
<1>3. PICK i \in S : \A j \in S : ~ (<<j, i>> \in R)
    BY <1>1
<1>4. \A j \in S : ~ (j < i)
    BY <1>2, <1>3, Zenon
<1>5. \A j \in S : i <= j
    BY <1>4
<1>6. QED
    BY <1>5 DEF Least

(* The indices of the accounts are natural numbers. *)
LEMMA FreeIndicesAreNat ==
    ASSUME TypeOK
    PROVE  freeIndices \subseteq Nat
    BY LenProperties DEF TypeOK

LEMMA InitHolds == Init => IInv
    BY EmptySeq DEF Init, IInv, TypeOK, LocateNeverTerminates, LocateOK, SlotsAccounted

(* add() with an empty free list appends an account. *)
LEMMA AppendHolds ==
    ASSUME IInv, NEW id \in SocketId, NEW kind \in Kind, Add(id, kind), freeIndices = {}
    PROVE  IInv'
<1> DEFINE acc == [id |-> id, kind |-> kind]
<1>1. /\ accounts \in Seq(Account) /\ acc \in Account
      /\ accounts' = Append(accounts, acc)
      /\ mapping' = Map(id, Len(accounts) + 1)
      /\ freeIndices' = {} /\ removable' = removable
    BY DEF Add, IInv, TypeOK, Account
<1>2. /\ accounts' \in Seq(Account)
      /\ Len(accounts') = Len(accounts) + 1
      /\ Len(accounts) \in Nat
      /\ DOMAIN accounts = 1..Len(accounts) /\ DOMAIN accounts' = 1..Len(accounts')
      /\ \A i \in DOMAIN accounts : accounts'[i] = accounts[i]
      /\ accounts'[Len(accounts) + 1] = acc
    BY <1>1, AppendProperties, LenProperties
<1>3. DOMAIN mapping' = DOMAIN mapping \cup {id} /\ id \notin DOMAIN mapping
    BY <1>1 DEF Map, Add, Fresh, IInv, TypeOK, LocateNeverTerminates, LocateOK
<1>4. TypeOK'
    BY <1>1, <1>2, <1>3 DEF TypeOK, IInv, Map
<1>5. LocateNeverTerminates'
    BY <1>1, <1>2, <1>3 DEF LocateNeverTerminates, LocateOK, IInv, TypeOK, Map
<1>6. SlotsAccounted'
    BY <1>1, <1>2, <1>3 DEF SlotsAccounted, IInv, TypeOK, Map
<1>7. QED
    BY <1>4, <1>5, <1>6 DEF IInv

(* add() with a free index reuses the smallest one. *)
LEMMA ReuseHolds ==
    ASSUME IInv, NEW id \in SocketId, NEW kind \in Kind, Add(id, kind), freeIndices # {}
    PROVE  IInv'
<1> DEFINE acc == [id |-> id, kind |-> kind]
           n == Least(freeIndices)
<1>1. n \in freeIndices /\ n \in DOMAIN accounts
    BY LeastInSet, FreeIndicesAreNat DEF IInv, TypeOK
<1>2. /\ accounts \in Seq(Account) /\ acc \in Account
      /\ accounts' = [accounts EXCEPT ![n] = acc]
      /\ mapping' = Map(id, n)
      /\ freeIndices' = freeIndices \ {n} /\ removable' = removable
    BY DEF Add, IInv, TypeOK, Account
<1> HIDE DEF n, acc
<1>3. accounts' \in Seq(Account) /\ DOMAIN accounts' = DOMAIN accounts
    BY <1>1, <1>2, ExceptSeq
<1>4. accounts'[n] = acc /\ \A i \in DOMAIN accounts \ {n} : accounts'[i] = accounts[i]
    BY <1>1, <1>2, LenProperties
<1>5. DOMAIN mapping' = DOMAIN mapping \cup {id} /\ id \notin DOMAIN mapping
    BY <1>2 DEF Map, Add, Fresh, IInv, TypeOK, LocateNeverTerminates, LocateOK
<1>6. \A x \in DOMAIN mapping : mapping[x] # n
    BY <1>1 DEF IInv, LocateNeverTerminates, LocateOK
<1>7. TypeOK'
    BY <1>1, <1>2, <1>3, <1>5 DEF TypeOK, IInv, Map
<1>8. LocateNeverTerminates'
    BY <1>1, <1>2, <1>3, <1>4, <1>5, <1>6
       DEF LocateNeverTerminates, LocateOK, IInv, TypeOK, Map, acc
<1>9. SlotsAccounted'
    BY <1>1, <1>2, <1>3, <1>4, <1>5, <1>6 DEF SlotsAccounted, IInv, TypeOK, Map, acc
<1>10. QED
    BY <1>7, <1>8, <1>9 DEF IInv

(* apply_remove() turns exactly the slots of the removed sockets into free ones. *)
LEMMA RemoveHolds ==
    ASSUME IInv, ApplyRemove
    PROVE  IInv'
<1>1. Vacated \subseteq DOMAIN accounts /\ Removed \subseteq DOMAIN mapping
    BY DEF Vacated, Removed, IInv, TypeOK
<1>2. \A id \in DOMAIN mapping : mapping[id] \in Vacated <=> id \in Removed
    BY DEF Vacated, Removed, IInv, LocateNeverTerminates, LocateOK
<1>3. /\ DOMAIN accounts' = DOMAIN accounts
      /\ accounts' \in Seq(Account)
      /\ \A i \in DOMAIN accounts : /\ i \in Vacated => accounts'[i].id = NoSocket
                                    /\ i \notin Vacated => accounts'[i] = accounts[i]
    <2>1. accounts \in Seq(Account) /\ DOMAIN accounts = 1..Len(accounts) /\ Len(accounts) \in Nat
        BY LenProperties DEF IInv, TypeOK
    <2>2. \A i \in DOMAIN accounts : accounts[i] \in Account
        BY <2>1, ElementOfSeq
    <2>3. accounts' = [i \in 1..Len(accounts) |->
               IF i \in Vacated THEN [accounts[i] EXCEPT !.id = NoSocket] ELSE accounts[i]]
        BY <2>1 DEF ApplyRemove, CloseVacated
    <2>4. \A i \in 1..Len(accounts) : accounts'[i] \in Account
        BY <2>1, <2>2, <2>3 DEF Account
    <2>5. accounts' \in Seq(Account)
        BY <2>1, <2>3, <2>4, IsASeq
    <2>6. \A i \in DOMAIN accounts : i \in Vacated => accounts'[i].id = NoSocket
        BY <2>1, <2>2, <2>3 DEF Account
    <2>7. QED
        BY <2>1, <2>3, <2>5, <2>6
<1>4. /\ freeIndices' = freeIndices \cup Vacated
      /\ mapping' = [id \in DOMAIN mapping \ Removed |-> mapping[id]]
      /\ removable' = <<>>
    BY DEF ApplyRemove
<1>5. TypeOK'
    BY <1>1, <1>2, <1>3, <1>4, EmptySeq DEF TypeOK, IInv
<1>6. LocateNeverTerminates'
    BY <1>1, <1>2, <1>3, <1>4 DEF LocateNeverTerminates, LocateOK, IInv, TypeOK
<1>7. SlotsAccounted'
    BY <1>1, <1>2, <1>3, <1>4 DEF SlotsAccounted, IInv, TypeOK
<1>8. QED
    BY <1>5, <1>6, <1>7 DEF IInv

(* Every step of the pool preserves the inductive invariant. *)
LEMMA StepHolds == IInv /\ [Next]_vars => IInv'
<1> SUFFICES ASSUME IInv, [Next]_vars PROVE IInv'
    OBVIOUS
<1>1. ASSUME NEW id \in SocketId, NEW kind \in Kind, Add(id, kind) PROVE IInv'
    BY <1>1, AppendHolds, ReuseHolds
<1>2. ASSUME NEW id \in SocketId, RemoveLater(id) PROVE IInv'
    <2>1. removable' \in Seq(SocketId)
        BY <1>2, AppendProperties DEF RemoveLater, IInv, TypeOK
    <2>2. QED
        BY <1>2, <2>1
           DEF RemoveLater, IInv, TypeOK, LocateNeverTerminates, LocateOK, SlotsAccounted
<1>3. CASE ApplyRemove
    BY <1>3, RemoveHolds
<1>4. CASE UNCHANGED vars
    BY <1>4 DEF vars, IInv, TypeOK, LocateNeverTerminates, LocateOK, SlotsAccounted
<1>5. QED
    BY <1>1, <1>2, <1>3, <1>4 DEF Next

(* The types of the pool's state hold in every reachable state. *)
THEOREM PoolTypes == Spec => []TypeOK
<1>1. IInv => TypeOK
    BY DEF IInv
<1>2. QED
    BY <1>1, InitHolds, StepHolds, PTL DEF Spec

(* locate() never reaches one of locate_account()'s PFS__TERMINATEs. *)
THEOREM PoolLocate == Spec => []LocateNeverTerminates
<1>1. IInv => LocateNeverTerminates
    BY DEF IInv
<1>2. QED
    BY <1>1, InitHolds, StepHolds, PTL DEF Spec

(* No slot of the vector is lost or shared. *)
THEOREM PoolSlots == Spec => []SlotsAccounted
<1>1. IInv => SlotsAccounted
    BY DEF IInv
<1>2. QED
    BY <1>1, InitHolds, StepHolds, PTL DEF Spec

-----------------------------------------------------------------------------
(* What a step does to the table of kinds, needed by the two theorems below. *)
LEMMA AddKeepsOthers ==
    ASSUME IInv, NEW id \in SocketId, NEW kind \in Kind, Add(id, kind)
    PROVE  /\ id \notin DOMAIN mapping
           /\ DOMAIN mapping' = DOMAIN mapping \cup {id}
           /\ accounts'[mapping'[id]].kind = kind
           /\ \A x \in DOMAIN mapping : accounts'[mapping'[x]] = accounts[mapping[x]]
<1> DEFINE acc == [id |-> id, kind |-> kind]
<1>1. accounts \in Seq(Account) /\ DOMAIN accounts = 1..Len(accounts) /\ Len(accounts) \in Nat
    BY LenProperties DEF IInv, TypeOK
<1>2. id \notin DOMAIN mapping
    BY DEF Add, Fresh, IInv, LocateNeverTerminates, LocateOK
<1>3. CASE freeIndices = {}
    <2>1. mapping' = Map(id, Len(accounts) + 1) /\ accounts' = Append(accounts, acc)
        BY <1>3 DEF Add
    <2>2. accounts'[Len(accounts) + 1] = acc /\ \A i \in DOMAIN accounts : accounts'[i] = accounts[i]
        BY <1>1, <2>1, AppendProperties DEF Account
    <2>3. QED
        BY <1>1, <1>2, <2>1, <2>2 DEF Map, IInv, TypeOK
<1>4. CASE freeIndices # {}
    <2> DEFINE n == Least(freeIndices)
    <2>1. n \in freeIndices /\ n \in DOMAIN accounts
        BY <1>4, LeastInSet, FreeIndicesAreNat DEF IInv, TypeOK
    <2>2. mapping' = Map(id, n) /\ accounts' = [accounts EXCEPT ![n] = acc]
        BY <1>4 DEF Add
    <2> HIDE DEF n
    <2>3. accounts'[n] = acc /\ \A i \in DOMAIN accounts \ {n} : accounts'[i] = accounts[i]
        BY <1>1, <2>1, <2>2
    <2>4. \A x \in DOMAIN mapping : mapping[x] \in DOMAIN accounts \ {n}
        BY <2>1 DEF IInv, TypeOK, LocateNeverTerminates, LocateOK
    <2>5. QED
        BY <1>2, <2>2, <2>3, <2>4 DEF Map
<1>5. QED
    BY <1>3, <1>4

(* apply_remove() leaves the accounts of the sockets it does not remove alone. *)
LEMMA RemoveKeepsOthers ==
    ASSUME IInv, ApplyRemove
    PROVE  /\ DOMAIN mapping' = DOMAIN mapping \ Requested
           /\ \A x \in DOMAIN mapping \ Requested : accounts'[mapping'[x]] = accounts[mapping[x]]
<1>1. mapping' = [id \in DOMAIN mapping \ Removed |-> mapping[id]]
    BY DEF ApplyRemove
<1>2. DOMAIN mapping \ Removed = DOMAIN mapping \ Requested
    BY DEF Removed
<1>3. \A x \in DOMAIN mapping \ Removed : mapping[x] \notin Vacated /\ mapping[x] \in DOMAIN accounts
    BY DEF Vacated, Removed, IInv, LocateNeverTerminates, LocateOK
<1>4. \A i \in DOMAIN accounts : i \notin Vacated => accounts'[i] = accounts[i]
    BY Zenon DEF ApplyRemove, CloseVacated
<1>5. QED
    BY <1>1, <1>2, <1>3, <1>4

(* A socket stays in the pool, with its kind, until its removal is requested. *)
THEOREM PoolKeeps == Spec => KeptUntilRequested
<1> DEFINE Keep == \A id \in DOMAIN mapping : id \notin Requested =>
                      /\ id \in DOMAIN mapping'
                      /\ accounts'[mapping'[id]] = accounts[mapping[id]]
<1>1. ASSUME IInv, [Next]_vars PROVE [Keep]_vars
    <2>1. ASSUME NEW id \in SocketId, NEW kind \in Kind, Add(id, kind) PROVE Keep
        BY <1>1, <2>1, AddKeepsOthers
    <2>2. ASSUME NEW id \in SocketId, RemoveLater(id) PROVE Keep
        BY <2>2 DEF RemoveLater
    <2>3. CASE ApplyRemove
        BY <1>1, <2>3, RemoveKeepsOthers
    <2>4. QED
        BY <1>1, <2>1, <2>2, <2>3 DEF Next
<1>2. QED
    BY <1>1, InitHolds, StepHolds, PTL DEF Spec, KeptUntilRequested

(* socket_pool implements the table of sockets with deferred removal. *)
THEOREM PoolImplementsTable == Spec => TableSpec
<1> DEFINE tab == [id \in DOMAIN mapping |-> accounts[mapping[id]].kind]
<1>1. Init => Table!TInit
    BY DEF Init, Table!TInit, Requested
<1>2. ASSUME IInv, [Next]_vars PROVE [Table!TNext]_(Table!tvars)
    <2>1. ASSUME NEW id \in SocketId, NEW kind \in Kind, Add(id, kind)
          PROVE Table!TAdd(id, kind)
        <3>1. tab' = [x \in DOMAIN tab \cup {id} |-> IF x = id THEN kind ELSE tab[x]]
            BY <1>2, <2>1, AddKeepsOthers
        <3>2. Requested' = Requested
            BY <2>1 DEF Add, Requested
        <3>3. QED
            BY <1>2, <2>1, <3>1, <3>2, AddKeepsOthers DEF Table!TAdd
    <2>2. ASSUME NEW id \in SocketId, RemoveLater(id) PROVE Table!TRemoveLater(id)
        <3>1. removable \in Seq(SocketId) /\ removable' = Append(removable, id)
            BY <1>2, <2>2 DEF IInv, TypeOK, RemoveLater
        <3>2. Requested' = Requested \cup {id}
            BY <3>1, AppendProperties, LenProperties DEF Requested
        <3>3. QED
            BY <2>2, <3>2 DEF RemoveLater, Table!TRemoveLater
    <2>3. CASE ApplyRemove
        <3>1. tab' = [x \in DOMAIN tab \ Requested |-> tab[x]]
            BY <1>2, <2>3, RemoveKeepsOthers
        <3>2. Requested' = {}
            BY <2>3 DEF ApplyRemove, Requested
        <3>3. Table!TApplyRemove
            BY <3>1, <3>2 DEF Table!TApplyRemove
        <3>4. QED
            BY <3>3 DEF Table!TNext
    <2>4. CASE UNCHANGED vars
        BY <2>4 DEF vars, Table!tvars, Requested
    <2>5. QED
        BY <1>2, <2>1, <2>2, <2>3, <2>4 DEF Next, Table!TNext
<1>3. QED
    BY <1>1, <1>2, InitHolds, StepHolds, PTL DEF Spec, TableSpec, Table!TSpec
=============================================================================
