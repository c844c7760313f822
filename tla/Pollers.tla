------------------------------ MODULE Pollers ------------------------------
(***************************************************************************)
(* The pollers and the part of the pools that drives them.  A pool         *)
(* (connecting_pool, listener_pool, reader_pool, writer_pool) keeps        *)
(* accounts, polls once in a step, defers removals to apply_remove() at    *)
(* the end of the step, and is built on a poller of its role over one of   *)
(* four representations: select_poller, poll_poller (src/posix),           *)
(* epoll_poller (src/linux) and the epoll_poller of UDT (src/udt).         *)
(*                                                                         *)
(* A watched descriptor is "quiet", "ready" (for what the role waits for), *)
(* "hup" (closed by the peer, perhaps with data left to read) or "failed"  *)
(* (an error is pending); the kernel reports the last two to everyone.     *)
(***************************************************************************)
EXTENDS Integers, Sequences, FiniteSets, SequencesExt, FiniteSetsExt

CONSTANTS Fd,         \* descriptors, naturals
          Invalid,    \* kINVALID_SOCKET; an entry of epoll events without an event
          MaxSlots,   \* bound on what grows with every addition
          MaxPending  \* bound on the removals requested from outside in a step

ASSUME PollersAssumption ==
    Fd \subseteq Nat /\ Invalid \notin Fd /\ MaxSlots \in Nat /\ MaxPending \in Nat

VARIABLES rep,       \* the representation, fixed by the type of the poller
          role,      \* the role, fixed by the type of the pool
          t,         \* what the representation keeps
          accounts,  \* the pool's map, its keys
          removable, \* _removable of the pool
          polled,    \* TRUE between poll() and apply_remove() of a step
          last       \* of the poll just made: conditions and callbacks, by descriptor

vars == <<rep, role, t, accounts, removable, polled, last>>

Nothing == [cond |-> <<>>, told |-> <<>>]   \* no descriptor has a condition or a callback

observe_read == role # "writer"
observe_write == role \in {"connecting", "writer"}

NewTable(r) ==
    CASE r = "select" -> [sockets |-> <<>>, count |-> 0, readfds |-> {}, writefds |-> {}, max_fd |-> 0]
      [] r = "poll"   -> [events |-> <<>>]
      [] r = "epoll"  -> [interest |-> {}, events |-> <<>>]
      [] r = "udt"    -> [interest |-> {}, counter |-> 0, connecting |-> {}]

Init ==
    /\ rep \in {"select", "poll", "epoll", "udt"}
    /\ role \in {"connecting", "listener", "reader", "writer"}
    /\ t = NewTable(rep)
    /\ accounts = {} /\ removable = <<>> /\ polled = FALSE /\ last = Nothing

(* The descriptors the representation watches. *)
Members ==
    CASE rep = "select" -> ToSet(t.sockets) \ {Invalid}
      [] rep = "poll"   -> ToSet(t.events)
      [] OTHER          -> t.interest

-----------------------------------------------------------------------------
(* add_socket(), add_listener(), wait_for_write(): a descriptor may be there already. *)

FirstFree == Min({i \in DOMAIN t.sockets : t.sockets[i] = Invalid})

AddToSelect(fd) ==
    IF fd \in Members THEN t
    ELSE [sockets  |-> IF Invalid \in ToSet(t.sockets) THEN [t.sockets EXCEPT ![FirstFree] = fd]
                       ELSE Append(t.sockets, fd),
          count    |-> t.count + 1,
          readfds  |-> IF observe_read THEN t.readfds \cup {fd} ELSE t.readfds,
          writefds |-> IF observe_write THEN t.writefds \cup {fd} ELSE t.writefds,
          max_fd   |-> Max({t.max_fd, fd})]

AddToPoll(fd) == IF fd \in Members THEN t ELSE [events |-> Append(t.events, fd)]

(* One more entry for events with every addition; removals do not take it back. *)
AddToEpoll(fd) ==
    IF fd \in Members THEN t
    ELSE [interest |-> t.interest \cup {fd}, events |-> Append(t.events, Invalid)]

(* A connecting poller of UDT sets a time limit for a descriptor that is still connecting. *)
Limited(fd, connecting) ==
    IF role = "connecting" /\ connecting THEN t.connecting \cup {fd} ELSE t.connecting

(* UDT counts additions of known descriptors, too. *)
AddToUdt(fd, connecting) ==
    [interest |-> t.interest \cup {fd}, counter |-> t.counter + 1, connecting |-> Limited(fd, connecting)]

(* The bound on entries and on UDT's counter. *)
Room ==
    CASE rep = "epoll" -> Len(t.events) < MaxSlots
      [] rep = "udt"   -> t.counter < MaxSlots
      [] OTHER         -> TRUE

(* The pool adds a descriptor with its account; the writer pool also waits for one it has
   waited for before. *)
Add(fd, connecting) ==
    /\ fd \notin ToSet(removable) /\ Room
    /\ fd \in accounts => role = "writer"
    /\ accounts' = accounts \cup {fd}
    /\ t' = CASE rep = "select" -> AddToSelect(fd)
              [] rep = "poll"   -> AddToPoll(fd)
              [] rep = "epoll"  -> AddToEpoll(fd)
              [] rep = "udt"    -> AddToUdt(fd, connecting)
    /\ last' = Nothing
    /\ UNCHANGED <<rep, role, removable, polled>>

-----------------------------------------------------------------------------
(* remove_socket(), remove_listener(): a descriptor need not be there. *)

\* Fault: the bound follows every removal.
MaxAfterAlways(s, fd) == s.max_fd - 1

(* The bound given to select(2) after the removal of fd, watched or not. *)
MaxAfter(s, fd) == IF s.max_fd = fd THEN s.max_fd - 1 ELSE s.max_fd

RemoveFromSelect(s, fd) ==
    [sockets  |-> [i \in DOMAIN s.sockets |-> IF s.sockets[i] = fd THEN Invalid ELSE s.sockets[i]],
     count    |-> IF fd \in ToSet(s.sockets) THEN s.count - 1 ELSE s.count,
     readfds  |-> s.readfds \ {fd},
     writefds |-> s.writefds \ {fd},
     max_fd   |-> MaxAfter(s, fd)]

RemoveFromPoll(s, fd) == [events |-> SelectSeq(s.events, LAMBDA x : x # fd)]

RemoveFromEpoll(s, fd) == [s EXCEPT !.interest = @ \ {fd}]

(* Nothing is removed once the counter is zero, and the limit of a connecting one stays. *)
RemoveFromUdt(s, fd) ==
    IF s.counter = 0 THEN s ELSE [s EXCEPT !.interest = @ \ {fd}, !.counter = @ - 1]

RemoveFrom(s, fd) ==
    CASE rep = "select" -> RemoveFromSelect(s, fd)
      [] rep = "poll"   -> RemoveFromPoll(s, fd)
      [] rep = "epoll"  -> RemoveFromEpoll(s, fd)
      [] rep = "udt"    -> RemoveFromUdt(s, fd)

(* node::close_socket() asks the reader and the writer pool, known there or not. *)
RemoveLater(fd) ==
    /\ role \in {"reader", "writer"} /\ Len(removable) < MaxPending
    /\ removable' = Append(removable, fd)
    /\ last' = Nothing
    /\ UNCHANGED <<rep, role, t, accounts, polled>>

(* apply_remove(), in the order of the requests, the repeated ones too. *)
ApplyRemove ==
    /\ polled
    /\ t' = FoldLeft(RemoveFrom, t, removable)
    /\ accounts' = accounts \ ToSet(removable)
    /\ removable' = <<>> /\ polled' = FALSE /\ last' = Nothing
    /\ UNCHANGED <<rep, role>>

-----------------------------------------------------------------------------
(***************************************************************************)
(* The callbacks for a descriptor in condition c, by role and              *)
(* representation: the possible outcomes, each a set of callbacks.  What   *)
(* getsockopt(SO_ERROR), recv(MSG_PEEK) or UDT::getsockstate() answers     *)
(* decides among them.                                                     *)
(***************************************************************************)
Refusals == {{"connection_refused"}, {"on_failure"}}
Failures == {{"disconnected"}, {"on_failure"}}
Peeked   == {{"ready_read"}, {"disconnected"}, {"on_failure"}}

(* A failed descriptor is ready to be read and to be written. *)
ConnectingOnSelect(c) ==
    IF c = "failed" THEN {r \cup {"connected"} : r \in Refusals} ELSE {{"connected"}}
ConnectingOnPoll(c) ==
    CASE c = "failed" -> Refusals [] c = "hup" -> {{"connection_refused"}} [] OTHER -> {{"connected"}}
ConnectingOnEpoll(c) ==
    CASE c = "failed" -> Refusals [] c = "hup" -> {{"connection_refused"}} [] OTHER -> {{"connected"}}
ConnectingOnUdt(c) == {{"connected"}}

ReaderOnSelect(c) ==
    CASE c = "failed" -> Failures [] c = "hup" -> Peeked [] OTHER -> {{"ready_read"}}
ReaderOnPoll(c) ==
    CASE c = "failed" -> Failures [] c = "hup" -> Peeked [] OTHER -> {{"ready_read"}}
ReaderOnEpoll(c) ==
    CASE c = "failed" -> Failures [] c = "hup" -> {{"disconnected"}} [] OTHER -> {{"ready_read"}}
ReaderOnUdt(c) ==
    CASE c = "failed" -> {{"on_failure"}} [] c = "hup" -> {{"disconnected"}} [] OTHER -> {{"ready_read"}}

WriterOnSelect(c) == {{"can_write"}}
WriterOnPoll(c)   == IF c = "failed" THEN {{"on_failure"}} ELSE {{"can_write"}}
WriterOnEpoll(c)  == IF c = "failed" THEN {{"on_failure"}} ELSE {{"can_write"}}
WriterOnUdt(c)    == {{"can_write"}}

ListenerOnSelect(c) == {{"accept"}}
ListenerOnPoll(c)   == IF c = "failed" THEN {{"on_failure"}} ELSE {{"accept"}}
ListenerOnEpoll(c)  == IF c = "failed" THEN {{"on_failure"}} ELSE {{"accept"}}
ListenerOnUdt(c)    == {{"accept"}}

Callbacks(c) ==
    CASE role = "connecting" -> (CASE rep = "select" -> ConnectingOnSelect(c) [] rep = "poll" -> ConnectingOnPoll(c)
                                   [] rep = "epoll" -> ConnectingOnEpoll(c) [] OTHER -> ConnectingOnUdt(c))
      [] role = "reader"     -> (CASE rep = "select" -> ReaderOnSelect(c) [] rep = "poll" -> ReaderOnPoll(c)
                                   [] rep = "epoll" -> ReaderOnEpoll(c) [] OTHER -> ReaderOnUdt(c))
      [] role = "writer"     -> (CASE rep = "select" -> WriterOnSelect(c) [] rep = "poll" -> WriterOnPoll(c)
                                   [] rep = "epoll" -> WriterOnEpoll(c) [] OTHER -> WriterOnUdt(c))
      [] role = "listener"   -> (CASE rep = "select" -> ListenerOnSelect(c) [] rep = "poll" -> ListenerOnPoll(c)
                                   [] rep = "epoll" -> ListenerOnEpoll(c) [] OTHER -> ListenerOnUdt(c))

(* The callbacks after which the pool asks for the removal of the descriptor.  (After
   ready_read it does so if recv() fails, which is a RemoveLater.) *)
Final == {"connected", "connection_refused", "on_failure", "disconnected"}

-----------------------------------------------------------------------------
(* What select(2) leaves in the sets, of the descriptors below its first argument. *)
rfds(c) == {fd \in t.readfds : fd < t.max_fd + 1 /\ c[fd] \in (IF role = "connecting" THEN {"hup", "failed"}
                                                                ELSE {"ready", "hup", "failed"})}
wfds(c) == {fd \in t.writefds : fd < t.max_fd + 1 /\ c[fd] # "quiet"}

(* The events the walk counts for fd. *)
EventsOf(c, fd) == Cardinality({fd} \cap rfds(c)) + Cardinality({fd} \cap wfds(c))

(* The walk over the slots ends when as many events are seen as select(2) has counted. *)
WalkSlots(c) ==
    LET n == Cardinality(rfds(c)) + Cardinality(wfds(c))
        left(i) == n - MapThenSumSet(LAMBDA j : IF t.sockets[j] = Invalid THEN 0 ELSE EventsOf(c, t.sockets[j]), 1 .. i-1)
    IN  {t.sockets[i] : i \in {j \in DOMAIN t.sockets : left(j) > 0}} \cap (rfds(c) \cup wfds(c))

\* Fault: the walk does not stop after the events of this poll.
WalkAll(ev, n) == ToSet(ev) \ {Invalid}

(* The walk over events (Invalid: none) ends after n of them. *)
WalkEvents(ev, n) ==
    {ev[i] : i \in {j \in DOMAIN ev : Cardinality({k \in 1 .. j-1 : ev[k] # Invalid}) < n}} \ {Invalid}

Busy(c) == {fd \in Members : c[fd] # "quiet"}

(* poll(2) marks the entries with events. *)
WalkPoll(c) ==
    WalkEvents([i \in DOMAIN t.events |-> IF c[t.events[i]] = "quiet" THEN Invalid ELSE t.events[i]],
               Cardinality(Busy(c)))

(* epoll_wait(2) writes at most as many events as there are entries, from the front, and
   leaves the rest as it was. *)
Reported(c) == Min({Cardinality(Busy(c)), Len(t.events)})

Events(c) ==
    LET busy == SetToSortSeq(Busy(c), <)
    IN  [i \in DOMAIN t.events |-> IF i <= Reported(c) THEN busy[i] ELSE t.events[i]]

(* The descriptors a poll reports. *)
Seen(c) ==
    CASE rep = "select" -> WalkSlots(c)
      [] rep = "poll"   -> WalkPoll(c)
      [] rep = "epoll"  -> WalkEvents(Events(c), Reported(c))
      [] rep = "udt"    -> Busy(c)

TableAfter(c, expired) ==
    CASE rep = "epoll" -> [t EXCEPT !.events = Events(c)]
      [] rep = "udt"   -> [t EXCEPT !.connecting = @ \ (Busy(c) \cup expired)]
      [] OTHER         -> t

Expirable(c) == IF rep = "udt" THEN t.connecting \ Busy(c) ELSE {}

(* One entry of _removable for every callback that asks for it. *)
Requests(told) ==
    LET s == SetToSortSeq(DOMAIN told, <)
    IN  FlattenSeq([i \in DOMAIN s |-> [k \in 1 .. Cardinality(told[s[i]] \cap Final) |-> s[i]]])

(* step() of the pool: poll() and the callbacks; UDT then refuses the connecting ones whose
   time is over.  When the system call fails poll() returns and nothing changes. *)
Poll(c, expired) ==
    /\ ~polled
    /\ \A fd \in Fd \ Members : c[fd] = "quiet"
    /\ expired \subseteq Expirable(c)
    /\ \E heard \in [Seen(c) -> UNION {Callbacks(c[fd]) : fd \in Seen(c)}] :
          /\ \A fd \in Seen(c) : heard[fd] \in Callbacks(c[fd])
          /\ LET told == [fd \in Seen(c) \cup expired |->
                            IF fd \in expired THEN {"connection_refused"} ELSE heard[fd]]
             IN  /\ last' = [cond |-> c, told |-> told]
                 /\ removable' = removable \o Requests(told)
    /\ t' = TableAfter(c, expired)
    /\ polled' = TRUE
    /\ UNCHANGED <<rep, role, accounts>>

Condition == IF role = "listener" THEN {"quiet", "ready", "failed"} ELSE {"quiet", "ready", "hup", "failed"}

Next ==
    \/ \E fd \in Fd, connecting \in BOOLEAN : Add(fd, connecting)
    \/ \E fd \in Fd : RemoveLater(fd)
    \/ \E c \in [Fd -> Condition], expired \in SUBSET Fd : Poll(c, expired)
    \/ ApplyRemove

Spec == Init /\ [][Next]_vars

-----------------------------------------------------------------------------
TypeOK ==
    /\ accounts \subseteq Fd /\ removable \in Seq(Fd) /\ polled \in BOOLEAN
    /\ Members \subseteq Fd
    /\ rep = "select" => t.sockets \in Seq(Fd \cup {Invalid}) /\ t.count \in Nat /\ t.max_fd \in Int
    /\ rep = "epoll" => t.events \in Seq(Fd \cup {Invalid})
    /\ rep = "udt" => t.counter \in Nat /\ t.connecting \subseteq Fd

(* UDT's reader and writer pollers lose count when a removal is asked for twice. *)
Exact == rep # "udt" \/ role \in {"connecting", "listener"}

(* What a poller watches is what its pool has accounts for, after any sequence of
   additions and of removals, repeated ones and ones of unknown descriptors too.  For
   select(2) the slots, the sets, the count and the bound agree, and no descriptor is in
   two slots or entries; epoll has room for an event of each; UDT forgets none, and has a
   limit for a connecting one until its verdict. *)
RecordsAgree ==
    /\ TypeOK
    /\ accounts \subseteq Members
    /\ Exact => Members = accounts
    /\ rep = "select" => /\ t.count = Cardinality(Members) /\ \A fd \in Members : fd <= t.max_fd
                         /\ Cardinality({i \in DOMAIN t.sockets : t.sockets[i] # Invalid}) = t.count
                         /\ t.readfds = (IF observe_read THEN Members ELSE {})
                         /\ t.writefds = (IF observe_write THEN Members ELSE {})
    /\ rep = "poll" => Len(t.events) = Cardinality(Members)
    /\ rep = "epoll" => Len(t.events) >= Cardinality(Members)
    /\ rep = "udt" /\ Exact => t.connecting \subseteq accounts /\ t.counter = Cardinality(accounts)

(* A poll reports every watched descriptor that is not quiet and, outside UDT's time
   limits, no other: slots that were freed and used again, counted events and the events
   an earlier poll has left behind mislead no walk.  Each gets one verdict (only select(2)
   has two for a connection that failed), and the pool has an account for it: reader_pool
   terminates the process if it has not. *)
ReportsExact ==
    last # Nothing =>
        /\ \A fd \in Fd : last.cond[fd] # "quiet" => fd \in DOMAIN last.told
        /\ \A fd \in DOMAIN last.told :
              /\ rep # "udt" => last.cond[fd] # "quiet"
              /\ Exact => fd \in accounts
              /\ \/ Cardinality(last.told[fd]) = 1
                 \/ rep = "select" /\ role = "connecting" /\ last.cond[fd] = "failed"
=============================================================================
