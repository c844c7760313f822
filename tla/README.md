# A formal model of net-lib (`pfs::netty`)

This directory holds TLA+ modules that model the core of net-lib, TLC
configurations that check them on small instances, and proofs that TLAPS checks
for every value of the constants. `PROJECT.json` maps every definition to the
lines of C++ it stands for and lists runs, mutants, findings, hazards and
theorems.

    tlc -workers 2 -config WriterPool.cfg WriterPool     # one run
    tlapm WriterPool_proofs.tla                          # one proof module

## 1. Inventory

net-lib is a C++ networking library in three layers.

* **Meshnet and the pools.** A program owns a *node* and calls its `step()` in a
  loop; a node is single-threaded, and everything that happens in it is a callback
  made from inside `step()`. The hard part is not locking but **order**: which
  callbacks one `step()` makes, on which sockets, with which removals pending; and,
  between nodes, which end sees what first.
* **p2p.** Hosts that discover each other, keep a channel of two connections, and
  deliver numbered envelopes and files across restarts. The hard part is
  **recovery**.
* **UDT.** A reliable stream over UDP inside the library, with its own threads. The
  hard parts are **concurrency** and **an unreliable network**.

| Component | State | Operations | Talks to | What makes it correct |
|---|---|---|---|---|
| `socket_pool` | vector of accounts, map id→index, free list, removal list | `add_accepted`, `add_connected`, `remove_later`, `apply_remove`, `locate`, `count` | all pools of a node | the three containers stay in step; a socket stays until its removal was requested |
| `writer_pool`, `writer_queue` | account per socket: writable flag, frame size, queue of messages with cursor; `_remain_bytes`; removal list | `add`, `enqueue`, `step` (sending passes, poll), `remove_later`, `apply_remove` | `socket_pool` by `locate`, writer poller, `Socket::send` | bytes leave in order, none lost or sent twice; what is queued is sent or its socket dropped |
| `priority_writer_queue`, `priority_frame` | a queue per priority with frame limit and counter, cursor, total size | `enqueue`, `frame`, `shift` | `writer_pool` | weighted round robin within its limits; frames carry the bytes of one message |
| input processors (`basic_`, `simple_`, `priority_`) | per socket: raw buffer, buffer per priority | `process_input` | reader pool, handshake, heartbeat, node | packets put together from any cut of the stream, once and in order |
| `connecting_pool`, `listener_pool`, `reader_pool` | sockets in progress, deferred dials, accounts, removal lists | `connect`, `connect_timeout`, `step`, `apply_remove` | pollers; node callbacks | every event reaches one callback; no account outlives its socket |
| pollers on `select`, `poll`, `epoll`, UDT's epoll | watched descriptors, slots, sets, counts, time limits | `add`, `remove`, `poll` | pools, system calls | every ready descriptor is reported, and nothing else |
| handshake (`basic_`, `exclusive_`) | sockets that wait for a response, with deadlines | `start`, `cancel`, `process`, `step` | node by `on_completed`, `on_expired`, `on_failure` | both ends choose the same one of the connections of a pair |
| `simple_heartbeat` | next beat per socket, silence limit per socket | `add`, `remove`, `process`, `step` | node by `on_expired` | silent connections are dropped |
| meshnet `node` | `_readers` socket→node, `_writers` node→socket | `connect_host`, `send`, `step`, `close_socket`, `close_channel`, `schedule_reconnection` | owns all of the above; tells the application `on_node_connected`, `on_node_disconnected`, `on_message_received` | channels name live sockets of the right node; the application hears of exactly the channels it has; lost channels come back |
| discovery engine | discovered peers, deferred expiries | hello packets, `check_expiration` | delivery engine | a peer that is lost is found again |
| delivery engine | writer and reader accounts, peers to release | dial, accept, hello, `release_peer`, callbacks of three pollers | discovery, reliable engine | a channel is announced when both halves stand and expired when one is lost |
| reliable delivery engine, persistent storage | numbers and unacknowledged envelopes per peer, in databases | `enqueue`, reception, ack, nack, repetition | delivery engine, disk | envelopes delivered in order through loss and restart, forgotten only when delivered |
| file transporter, p2p engine | uploads, downloads, transient files, queue of the file | announce, request, begin, chunk, end, state, stop, release | engine's queues, disk | a file reported complete is complete |
| UDT sockets (`CUDTUnited`, `CRcvQueue`) | tables of live and closed sockets, multiplexers, accept queues, epoll sets, worker lists | `newSocket`, `bind`, `listen`, `connect`, `accept`, `close`; worker; garbage collector | each other, under several locks | no table keeps a socket that is gone; every closed socket is deleted |
| UDT transfer (`CUDT`, buffers, loss lists) | windows, loss lists, send and receive buffer, timers | `send`, `recv`, `packData`, `processData`, `processCtrl`, `checkTimers` | UDP network | the stream arrives in order and all of it |
| TCP and UDP sockets | descriptor | `connect`, `accept`, `send`, `recv` | operating system | status returned for each errno |
| services, ENet, network interfaces, addresses | – | – | – | see section 8 |

What is hard to test here:

* **pending removal** – `close_socket()` erases some records at once (input
  account, timers, channel entries) and only requests the removal from the pools;
  the rest of the same `step()` still polls the socket;
* **two ends deciding separately** – both nodes may dial, each end judges each
  connection on its own, closings overtake packets;
* **descriptor reuse** – a number freed at the end of a step names another
  connection in the next;
* **short writes and cut reads** – the operating system takes any part of a frame
  and returns any part of the stream;
* **unsigned arithmetic** – sizes are subtracted without checks;
* **reconnection** – who dials again, how often, and whether the pair settles;
* **restarts** – a crash between the delivery of an envelope and its record, or
  between a record and the sending;
* **threads and locks** – UDT changes three tables under three locks to announce one
  connection, while the application accepts or closes and the collector deletes;
* **numbers on a circle** – UDT's sequence numbers wrap, and lists indexed by them
  wrap with them.

The full list, with lines and the properties aimed at each, is `hazards` in
`PROJECT.json`.

## 2. Modules

| Module | Models | Notes |
|---|---|---|
| `SocketTable` | what users of the socket pool rely on | abstract specification |
| `SocketPool` | `socket_pool.hpp` | implements `SocketTable` |
| `SocketPool_proofs` | | theorems about `SocketPool` |
| `WriterPool` | `writer_pool.hpp`, `writer_queue.hpp` | |
| `WriterPool_proofs` | | theorems about `WriterPool` |
| `PriorityWriterQueue`, `MCPriorityWriterQueue` | `priority_writer_queue.hpp`, `priority_frame.hpp` | the MC module gives the limits of `frame_calculator<3>` |
| `PriorityWriterQueue_proofs` | | theorems about `PriorityWriterQueue` |
| `InputProcessor` | `basic_`, `simple_` and `priority_input_processor.hpp` | |
| `Pollers` | the connecting, listener, reader and writer pollers on `select`, `poll`, `epoll` and UDT's epoll, under their pools | |
| `MeshChannels` | verdict of `exclusive_handshake`, completion, `close_channel` | pure operators, shared by the next two |
| `MeshNode` | `node.hpp` with the pools and processors it owns | one node, inside `step()` |
| `MeshNode_proofs` | | theorems about `MeshNode` |
| `Meshnet`, `MCMeshnet` | several nodes over breaking connections | composition, liveness; the MC module says who dials whom |
| `Meshnet_proofs` | | theorems about `Meshnet` |
| `ReliableDelivery` | `p2p/` discovery, delivery and reliable delivery engine with `persistent_storage.cpp` | two hosts, composition, crashes, liveness |
| `Mailboxes` | what reliable delivery promises its applications | abstract specification |
| `ReliableDelivery_proofs` | | theorems about `ReliableDelivery`, which implements `Mailboxes` |
| `FileTransporter` | `p2p/file_transporter.hpp` and its use by `p2p/engine.hpp` | one file, one broken connection |
| `UdtSeqNo` | `CSeqNo` | pure operators, extended by the next two |
| `UdtLossLists` | `list.cpp` | what the loss lists stand for |
| `UdtTransfer` | `core.cpp`, `buffer.cpp`, `window.cpp`: one stream | uses the loss lists as the sets they are shown to be; liveness |
| `ByteStream` | what a UDT stream promises its applications | abstract specification |
| `UdtTransfer_proofs` | | theorems about `UdtSeqNo` and `UdtTransfer`, which implements `ByteStream` |
| `UdtSockets` | `api.cpp`, `queue.cpp`, connection half of `core.cpp` | application, workers and collector interleaved; liveness |
| `UdtSockets_proofs` | | theorems about `UdtSockets` |

Definitions marked `\* Fault:` are not part of any specification: each is a
plausible mistake in the definition that follows it, and `mutants` says which
property notices it.

### SocketPool

`accounts`, `mapping`, `freeIndices` and `removable` are the containers of the
class. `Add` is `add_accepted` and `add_connected`, which take the least free
index or append; `RemoveLater` appends to the list, duplicates and unknown
identifiers included; `ApplyRemove` walks the whole list.

### WriterPool

The bytes queued on a socket since it was opened are numbered, so a queue element
is `[from, size, cursor]` and "in order, no gap, no repetition" can be said of the
numbers. `phase` runs idle → send → poll → rest → idle: the sending passes of
`step()` (one action per account and outcome of `Socket::send`, in any order
because the accounts are in an unordered map), `PassAgain` while the time budget
lasts, the writer poll, the owner's other pools, and `ApplyRemove`. The owner's
failure callback asks the socket pool for the same removal, so `open` and
`accounts` shrink together.

### PriorityWriterQueue

A byte is `<<message, offset>>`. `Send(taken)` is `frame()`, a socket that takes
`taken` bytes, and `shift(taken)`. `shift()` is translated as written: its search
assigns through a reference (`x = _qp[i]`), which copies one queue over another
(`CopyOver`), and it subtracts the header size from `taken` modulo `SizeMod`. The
history variable `harmed` collects the messages that a copy of a queue moved,
duplicated or overwrote, or whose frame was cut within its header: `SentOnce` is the
promise to all the others, and `FramesGenuine` holds of these too.

### InputProcessor

Bytes are named by packet and position. One action is one turn of the loops of
`process_input()`; reads end at any byte (`ReadChunk`), and `framed` chooses the
processor. `Unread` is where the deserializer stands after a rolled-back
transaction; a header's transaction is committed before that of its packet starts.
The sender fills frames the way `priority_frame` cuts a message that meets no other.
After a packet was parted from its header the loop goes on with body bytes where a
header should be. They may say anything, so what follows is a choice: a packet that was
never sent is processed (`ParseStray`, number 0 in `delivered`), one is promised whose
bytes are not there (`EndOfBuffer`), a longer header is (`StrayHeaderCut`), or the type
is unknown and the exception leaves `step()` (`UnexpectedType`). `parted` records the
lanes on which it began.

### Pollers

`rep` is the representation, `role` the pool that drives it, `t` what the
representation keeps: slots with freed ones among them, two sets, a count and a
bound for `select`; an array of entries for `poll`; the kernel's interest set and an
array of events that only grows, and keeps what earlier polls left in it, for
`epoll`; an interest set, a counter and time limits for UDT. `Poll(c, expired)` is
one `step()` of the pool for conditions `c` of the descriptors: the system call,
the walk with its early end, and the callbacks, each role and representation with
its own (`ReaderOnEpoll` and so on are sets of possible outcomes, because
`getsockopt`, `recv(MSG_PEEK)` and `getsockstate` decide). The callbacks append to
`removable`; `RemoveLater` is what other parts of the node append, unknown and
repeated descriptors included, and `ApplyRemove` walks the list.

### MeshNode

`phase` is the place in `step()`; every callback of a pool or processor is an
action of its phase, `Serve` lets one poll report a socket once. `doomed` is the
removal list of reader, writer and socket pool at once, because every path that
puts a socket on one of them calls `close_socket()`, which puts it on all three.
`peer` and `greeted` are facts about the connection, not state of the node: a peer
follows the protocol, but connections may fail at any moment. `fault` names the
assertion or undefined behaviour that ended the process; nothing happens after it.
Deadlines are abstracted to expiries that may happen in any step.

### Meshnet

A connection has two ends and a FIFO stream towards each. One action is one event
of one connection at one node, with the whole handler: `ReadRequest` sends the
response and applies the verdict, `Lose` schedules the dial and closes. `Break` is
the network. `LoseUnannounced` covers the two paths on which the code closes a
socket and does not dial again (read failure, expired handshake); the history
variable `forsaken` records the dials given up that way.

`Repeats` says how often one `step()` may schedule the same loss: sending, writer poll
and reader poll can each report the broken socket, and each schedules a dial
(`node.hpp:130-133`, `:140-143`). A dial may overtake what is still unread on the
connection it replaces. Both happen in the run, and two history variables record the
dials concerned: `doubled` and `hasty`. The properties name them where the code breaks
its promise (section 7).

### ReliableDelivery

Two hosts. `host` is the memory of a process, `store` its databases, `conn` the
connections with what they carry; each direction is a connection of its own, and
the channel is complete when the writer is connected and a reader has said hello.
Discovery finds the peer, dials, and expires it by silence or because the delivery
engine asked; `EndStep` is where requested removals are made and an expired peer is
released. `ReadPayload` is `process_data_received` with the storage calls it makes,
in their order; `CrashInDelivery` stops the process between the delivery and the
record of its number, `Crash` anywhere else. A dial that `connect()` reports as
connected (`once`) is watched as a reader and never becomes connected for its writer
account. `check_complete_channel` repeats what is not acknowledged. Closing a writer loses any suffix of what is under way.

### FileTransporter

The sender's upload pool and the queue of the file, the receiver's transient
description and data file, and the two streams of packets. `step` is one chunk for
each upload whose queue is empty; `release_peer` is what both ends do when the
connection breaks, and `channel_established` when it is back. `step`,
`process_file_request` and `process_file_end` are the handlers as written, with the
offset the receiver asks for and the files it keeps.

### UdtSeqNo, UdtLossLists

`UdtSeqNo` is `CSeqNo` with the size of the circle as a constant. In `UdtLossLists`
a list is a record of the static arrays of the class; insertion with its hint,
joining with following ranges, the removals and `getLostSeq` are operators on it.
The actions are the callers in `core.cpp` and keep to the window of unacknowledged
numbers, which moves around the circle. `lost` is the set the list should stand for;
`kept` is what a drop request should have removed and the code's loop leaves.

### UdtTransfer

One direction of a stream. Every handler of `core.cpp` that moves data or windows is
an action: `packData` in its two parts (the lost number is taken before the lock
under which its block is looked up), data, ACK, light ACK, ACK2, loss report,
keep-alive, and the timers. `units`, `start`, `lastPos`, `notch` are the receive
buffer as it is, a ring with one unit always empty. `readBuffer` takes no lock that
the receiving thread takes, so a turn of its loop is a step: `BeginRead` reads the
positions and makes the first, `ReadOn` the others, `EndRead` writes `m_iStartPos`
back; units arrive and are acknowledged in between, and the places that were read
count as taken until the end. `net` is a set of packets that
are lost (`Lose`), stay after delivery (repetition) and are taken in any order.
The first expiry of a timer may race with an answer; the following ones wait until
nothing is under way or due (`Quiet`), because they take far longer than the network.

### UdtSockets

The tables of `CUDTUnited`, of the multiplexers and of the application's epoll.
A call or handler is one action, except where it gives up a lock in the middle of a
change; `app` and `worker` then say where it stands: in `connect`, `accept`, `close`,
and between the four parts of `newConnection` (into `m_Sockets`, into the listener's
queue, into the epoll, the answer). `Collect` is `checkBrokenSockets` with
`removeSocket`, `Age` the second it waits. `fault` records the use of a socket that
is gone.

## 3. Runs

| Run | Question | Answer |
|---|---|---|
| `socket_pool` | Do vector, map and free list stay in step, and is the pool a table with deferred removal? | yes |
| `writer_pool` | Do bytes leave in order, is `_remain_bytes` safe from wrapping, is everything queued sent or dropped? | yes |
| `priority_queue` | Does a message leave once, in order and under one priority, and is every frame a piece of one message? | yes for messages that `shift()` did not copy, overwrite or cut in the header; frames always |
| `input_processor` | Are packets processed once, in order, and none held back or invented? | in order and at most once, always; the rest on every lane until a body arrives there after its header |
| `pollers` | Is what is watched what has an account, and is every event reported and nothing else, whatever the representation? | yes, but for the counter of UDT |
| `mesh_node` | Do pools, processors and channels agree through every order of callbacks? | yes |
| `meshnet` | Do both ends choose the same connection, does data find its reader, does the pair settle? | data always finds its reader; the rest, unless one loss was scheduled twice or a dial overtook what was unread |
| `reliable_delivery` | Are envelopes delivered in order and forgotten only when delivered, through crashes; is no host stranded; is everything settled in the end? | yes, on connections that were not connected at once |
| `file_transporter_resume` | Is a file reported complete complete? | **no**: see `findings` |
| `udt_loss_lists` | Do the arrays stand for exactly the lost numbers, on the whole circle? | yes, inside the window, but for `MaxSeqNo` after a drop that wraps |
| `udt_transfer` | Does the stream arrive in order and all of it, and is no end taken for an attacker? | yes |
| `udt_sockets` | Does no table keep a socket that is gone, are multiplexers counted, is every queued connection announced, is every closed socket deleted? | yes, but for the faults in section 7 |

The properties, in words, are the comments in front of them. The ones that carry
most:

* `TableSpec` – the pool refines the abstract table;
* `QueuesIntact`, `SentInOrder`, `Drained` – the promise of the writer pool;
* `AccountsMatchSockets`, `WritersOpen`, `AnnouncedMatchesWriters` – the records
  of a node agree through all callbacks, and the application knows exactly the
  channels that exist;
* `Agreement`, `OneMaster`, `DataFindsReader`, `EventuallyConnected` – two nodes
  that decide separately decide the same;
* `DeliveredInOrder`, `ForgottenWereDelivered`, `EventuallySettled` – the promise of
  reliable delivery, through crashes;
* `StreamIntact`, `AllRead` – the promise of a UDT stream, over a bad network;
* `TablesLive`, `EventuallyDeleted` – no use after free, no leak, of UDT sockets;
* `ReportsExact` – accounts and reported descriptors agree, so that
  `reader_pool` does not terminate the process.

`file_transporter_resume` is the one run that expects a violation. An upload
survives the disconnection of its addressee, because nobody calls
`expire_addressee()`. When the file is announced again the old upload goes on from
its old position, and its end packet commits the download that has just begun
again: the receiver reports a file of which chunks are missing as a success.

`CHECK_DEADLOCK FALSE` stands where the model may stop: after a `fault`, when the
packets to send, the sockets or the dials are used up, or, in `Meshnet`, when the
nodes are connected and the application sends nothing.

## 4. Bounds

| Run | Bounds | Why they are enough |
|---|---|---|
| `socket_pool` | 3 descriptors, 2 kinds, removal list ≤ 3 | a freed slot between two used ones, a repeated and an unknown request in one list |
| `writer_pool` | 2 sockets, sizes 1 and 3, frame 2, 4 bytes | a message of one frame, a message of two, a queue of both, the other socket failing meanwhile |
| `priority_queue` | 3 priorities, sizes 1 and 3, frame 5 (2 bytes of payload), 4 messages, 4 frames | messages of one and of two frames on every queue, the end of a phase, both searches of `shift()`, a message copied, overwritten or cut in its header while others are not (1,170,000 states) |
| `input_processor` | 2 priorities, header 2, bodies 1 and 2, payload 3, 4 packets | headers and packets cut at every byte, a packet in two frames, frames interleaved, and packets behind the one that was parted, so that its lane goes on (454,000 states) |
| `pollers` | 3 descriptors, each of 16 pollers, 4 epoll entries, 2 removals from outside pending | freed slot before, between and after watched ones; the bound's descriptor removed; events of an earlier poll beyond those of this one; a removal repeated and one of an unknown descriptor (210,000 states) |
| `mesh_node` | 3 descriptors, a smaller and a larger peer (behind NAT), one deferred dial, one `connect_host` | a channel of two sockets and a third connection; the accepting and the dialling side of both verdicts; reuse of descriptors |
| `meshnet` | 2 nodes that dial each other, 3 connection slots, 1 break, losses scheduled once or twice, 2 pending dials of a pair, 1 message under way | both connections of the pair and a third, a repeated dial of either, a dial before the lost connection is read; each exception of the properties is reached, and each property fails without it (936,000 states) |
| `reliable_delivery` | 2 hosts, one sender, 2 envelopes, 2 connections each way, 1 fault | a gap needs two envelopes; a fault is followed by a second connection, on which everything is repeated; either dial may be connected at once (916,000 states) |
| `file_transporter_resume` | 3 chunks, 2 announcements, 1 break | the smallest that shows the violation |
| `udt_loss_lists` | circle of 16, window 5, so arrays of 10 and 5 | ranges before, between, across and after others, joins of several, arrays that wrap, every place of the window on the circle (68,000 states) |
| `udt_transfer` | circle of 32, first number 31, send buffer 3, receive buffers of 2 and 3, one write of two packets, reads of 2 bytes, 2 faults | the numbers and the ring wrap; the buffer is full; a loss and the loss of its report, or a repetition of each; a unit that arrives between two turns of a read (308,000 states) |
| `udt_sockets` | 3 sockets, one made by the application, 2 peers, backlog 1 | a listener with two connections, one refused, or a connector; closing at every point of `newConnection` (265,000 states) |

`std::size_t` is modulo 2^16 or 64 in the models; `QueueAssumption` says that
nothing but a subtraction below zero can then wrap. `MaxRemain` bounds
`_remain_bytes`, which never shrinks when a socket is removed.

## 5. Fairness

* `Meshnet`: every node calls `step()` for ever, so a scheduled dial is made
  (weak fairness of the dials), and what is to be accepted or read is and a loss is
  noticed, by end of file, failed write or missing heartbeats (weak fairness of these
  events). No more is asked for each pair or connection: outside the behaviours that
  `EventuallyConnected` exempts each event uses up something. Nothing is assumed of `Break`, `Send` or `LoseUnannounced`.
* `WriterPool`: the owner calls `step()` and `apply_remove()` for ever (`BeginStep`,
  `EndStep`, `ApplyRemove`, and each account of a pass is visited); the passes of a
  step end (`BeginPoll`, strong, because `PassAgain` competes with it: the loop has
  a time budget). The sockets are assumed to become writable again and again,
  which a level-triggered poller reports (`SF CanWrite`), and then to take at least
  a byte again and again (`SF Progress`). `Drained` says that this, which is all the
  environment can offer, is enough.
* `ReliableDelivery`: both hosts call their `step()` for ever and packets on a standing
  connection arrive: discovery, expiry that was asked for, callbacks, reading and
  the end of a step go on (`Step`, weak fairness). It need not be asked for each host and
  connection, because each of these steps uses up a dial, a packet, a socket or a flag. Nothing is assumed of
  faults or of expiry by silence, and `process_socket_connected` is not enabled on a
  dial that was connected at once: `Standing` excludes such a connection by name.
* `UdtTransfer`: the sending worker runs (`TakeLost`, `Resend`, `SendNew`), the timers
  fire (`AckTimer`, `Expire`), the application reads again and again and a read that
  has begun goes on (`BeginRead`, `ReadOn`, `EndRead`), and a packet that is not lost
  arrives. `SendNew` and `AckTimer` are strong because other steps of the same end
  disable them for a moment. Losses are bounded by `MaxFaults`; nothing else is
  assumed of the network.
* `UdtSockets`: threads that stand in the middle of a call go on, the collector runs
  every second, and the workers go through their lists (strong: a collector step
  may disable it for a moment). Nothing is assumed of the application.

## 6. Proofs

`SocketPool_proofs`, from `PoolAssumption`: `PoolTypes`, `PoolLocate`, `PoolSlots`,
`PoolKeeps`, `PoolImplementsTable`. The inductive invariant is `TypeOK`,
`LocateNeverTerminates` and `SlotsAccounted` together. None is inductive alone:
that a reused slot is free of any mapping needs `SlotsAccounted`, and that emptying
a slot empties exactly one mapping needs `LocateNeverTerminates`. One lemma per
case of an action (`AppendHolds`, `ReuseHolds`, `RemoveHolds`); `AddKeepsOthers` and
`RemoveKeepsOthers` say what an action leaves alone and carry both the action
property and the refinement.

`WriterPool_proofs`, from `WriterPoolAssumption`: `WriterInOrder`, `WriterQueues`,
`WriterAccounts`. `SentInOrder` is about a history; it is inductive only together
with `QueuesIntact` (the front of the queue continues what was taken), which needs
`AccountsWatched` (a queue with messages belongs to an open socket) and
`ClosedAreEmpty` (a descriptor that is opened again starts with an empty queue).
The data reasoning is in two lemmas about `Contiguous`: appending the next bytes
keeps it (`AppendContiguous`), and `writer_queue::shift` moves its front by exactly
the bytes taken (`ShiftContiguous`). They hold for every frame size, message size
and short write; the runs have three sizes.

`WriterRemain` says that `_remain_bytes` covers the bytes that wait. As a sum over
accounts it would be a fold; it is stated as the cardinality of the set of
outstanding bytes instead, so that enqueueing adds an interval to the set, sending
removes one, and the theorems about finite sets do the counting. It needs
`QueuesIntact` (what is taken was outstanding) and that a socket without an account
has nothing queued. `WriterTypes` comes out of the same invariant: it contains that
the unsigned counter is never taken below zero.

`PriorityWriterQueue_proofs`, from `QueueAssumption`: `FramesAreGenuine`. `shift()` copies whole queues over one another, so nothing can be
said of a queue by its place. The invariant speaks of contents: every element of
every queue is a message that was enqueued, with its cursor inside it (`Live`); every
counter lies within a limit that travels with it (`Pool`); every frame is a `Piece`.
The proof asks nothing of `SizeMod` but that it is positive: the subtraction of the
header size may wrap, and frames are genuine all the same.

`MeshNode_proofs`, from `MeshNodeAssumption`, for every set of nodes and sockets:
`NodeAccounts`, `NodeAssertions`, `NodeWriters`, `NodeAnnounced`, `NodeWritersRead`.
The four invariants of the run are not inductive together. `close_channel()` looks at
both maps, and whether it erases too little depends on `WritersRead`: the writer of
a node is also a reader of it. `PeersKnown` and `DialsPending` say that a socket is
reported by the connecting pool once, and with a node behind it. `PlanFacts` says
what `close_channel()` can do in each of its cases (the one for a socket that only
writes cannot arise), and every action that closes a socket uses it.

`Meshnet_proofs`, from `MeshnetAssumption`, for any number of nodes, connections,
breaks and messages, whoever dials whom: `MeshDataFindsReader`, `MeshOneMaster`,
`MeshAgreement`. They are about the specification the run checks, repeated and
overtaking dials included, whatever `Repeats` is; the one hypothesis, that no node behind
NAT is dialled (`NatNotDialled`), is what the code needs (section 7). The invariant has
three layers. Neither end of a
connection sees what the other has done, so the first, `Inv`, reads it off the two
streams. Until the server has read the request, the client waits and was sent nothing.
Afterwards only messages follow, from a client whose identifier is the smaller, and to
a client that still waits the response comes first (`ServerEnd`, `ClientEnd`). A node
writes only to a connection on which it has its reader and has finished the handshake
(`WriterOK`); this is what makes the fourth case of `close_channel()`, a socket that
only writes, impossible, so that closing never erases another connection's reader. The
second, `OnceInv`, counts: of the scheduled dial and the open connections of a
dialling pair there is at most one (`DialsOnce`) while no loss of the pair was scheduled
twice (`Once`), and a reader exists only in the
direction that the identifiers allow (`ReaderRole`), although `close_channel()` may
leave one behind on the dialled side. The third, `PatientInv`, says that the dialled
node writes to the newest connection of the pair, because what was on the earlier ones
has been read, while no dial of the pair was repeated or hasty (`Patient`). Both hold of
each pair by itself: a fault of one pair does not spoil another.

`ReliableDelivery_proofs`, from `DeliveryAssumption`, for any number of envelopes,
dials and faults: `DeliveryInOrder`, `ForgottenDelivered`, `NoneStranded`,
`DeliveredEnqueued`, `DeliveryIsMailboxes`. What the databases hold bounds what connections carry
(`Carried`): payloads the writer's database has numbered, and answers to numbers it
has recorded, however old. `StoreSound` says that a number is unacknowledged or
recorded by the other side, and `InOrder` ties the history of deliveries to the
recorded number and to the crashes between a delivery and its record. A crash keeps
the databases, so it keeps all of these; that a process remembers the number in its
database (`MemorySound`) is what makes a restart harmless. `DeliveryIsMailboxes` is
the refinement: with the rows of the databases for the numbers, `unacked` for what is
held, `recent` for what is recorded, and `delivered`, every step is a step of
`Mailboxes` or is not noticed by the applications (`Unnoticed`). It adds to the
invariants what a step may do: numbers and records only grow, by one, nothing given is
taken back, and what is let go has been recorded at the other end at that moment.

`UdtTransfer_proofs` begins with the circle, from `SeqNoAssumption` (the threshold is positive and the circle
has twice as many numbers and two): `SeqNoSteps`, `SeqNoOffsets`, `SeqNoOrder`. The
code's constants satisfy it, so what the models of UDT use of the circle of 16 or 32
holds on the one of 2^31: `incseq` and `decseq` are inverse, `seqoff` and `seqlen`
recover how far `incseq(a, n)` went, and `seqcmp` orders numbers less than the
threshold apart, wherever the end of the range lies. One lemma,
`AheadOrWrapped`, splits on whether it lies between them.

The rest of `UdtTransfer_proofs` is from `TransferAssumption`: `ReadsWhatWasWritten`,
`AckedArePresent`, `LostAreInBuffer`, `PeerIsNoAttacker`, `TransferIsStream`. They hold for every buffer,
payload, read and write size, every first number on the circle and every loss,
repetition and reordering; `MaxBytes < SeqNoTH` bounds what is written, so that a
number stands for one index (with more, the numbers repeat, and nothing in the code
keeps a packet from being delayed for a whole turn of the circle: the bound is what
excludes it here). The invariant `Sound` is stated with the indices of blocks instead of
their numbers: written `n`, sent `c`, acknowledged `a` and `d`, received `r`,
acknowledged by the receiver `k`, read `h`, and `f`, whose places are free again;
`F[i]` is where the `i`-th block begins in the stream. Every variable and every
packet in flight is a function of these, and each action moves some of them.
The two hard steps are `OnData` and `CopyUnit`. A position of the ring is an index
modulo its size, so a unit that is put down must not fall on one that waits to be
read, although `start` lags behind the reading: `r <= f + s - 1`, which the
capacity test of `processData()` preserves, keeps all indices in use less than a
turn apart. And a place holds a unit exactly if its number is below `r` and not in
the receiver's loss list (`Held`), so that everything up to the last acknowledged
position is there. `PeerIsNoAttacker` follows from the same invariant: an
acknowledgement names at most `c` and a loss report at most `c - 1`, whatever
happened since it was sent. `TransferIsStream` is the refinement of `ByteStream`: only
`Write` and the turns of `readBuffer()` are noticed by the applications, and a turn
hands over the bytes that follow those already read (`GoesOn`), never more than were
written.

`UdtSockets_proofs`, from `SocketsAssumption`, for any number of sockets and peers and
any backlog: `TablesStayLive`, `MuxesCounted`, `EventsSet`. The invariant says who may
still reach a socket: nobody but the worker while `newConnection()` has it in hand
(`InHand`), only the listener's queue until `accept()` returns it (`Queued`), and a
connecting socket has a multiplexer of its own (`Connector`). That a listener is not
deleted in the middle of `newConnection()` rests on the second the collector waits
(`aged`), as in the code. `Gentle` collects what the many actions that change no table
leave alone. The proof found one mistake of the model: a refusal did not cover the
case in which the identifiers are used up (`Refuse`), and a worker could make a
socket named 0.

Only model-checked:

* liveness (`EventuallyConnected`, `Drained`, `AllRead`, `EventuallyDeleted`,
  `EventuallySettled`), which is outside what TLAPS proves;
* `NeverBroken`: beyond `PeerIsNoAttacker` it says that the timers of a connection
  that hears from its peer do not run out, which depends on `MaxFaults`, `ExpMax` and
  on what `Quiet` assumes of time;
* `SentOnce`, which counts the bytes of frames by folds over the wire;
* `UdtLossLists`, whose arrays are walked by recursive operators, and
  `InputProcessor` and `Pollers`, whose walks are folds over sequences: what a fold
  computes for every input needs induction over data.

## 7. What the models show of the code

One disagreement between the code and its comments has a run,
`file_transporter_resume`. What follows was met while modelling. It is in the
models, as a fault, as the exception a property makes, or as an assumption, unless
it is marked *(not in a model)*.

**Meshnet and pools**

* `socket_pool::count()` terminates the process in the ordinary case. `PFS__TERMINATE`
  terminates when its condition is false, and `_accounts.size() < _free_indices.size() -
  _removable.size()` (`socket_pool.hpp:123`) is true only when the unsigned difference
  wraps, with more removals pending than there are free indices; the number returned
  then takes the pending removals off although those accounts are still there, and
  takes repeated and unknown ones off too *(not in a model)*.
* Data may arrive for a socket whose input account was erased earlier in the same
  `step()`: "account not found" terminates the process (a fault of `MeshNode`).
* A node behind NAT whose identifier is the larger never gets its channel: the node
  it dials uses the connection, but the response speaks of its sender's NAT only, and the
  dialling node calls the connection unusable and closes it (`"unusable"` of
  `Verdict`; the `meshnet` run sets `BehindNat = {}`, `mesh_node` has one such peer).
* The other way round, a node behind NAT that is dialled after all (an address its
  network does forward) by one with the larger identifier: the dialling node uses the
  connection because the other is behind NAT, the dialled one does not, and a message
  sent at once arrives where no reader is registered. `DataFindsReader` fails with
  `Dials = {<<2, 1>>}` and `BehindNat = {1}`; the theorems of `Meshnet_proofs` state as
  `NatNotDialled` that it does not happen.
* The cursor of the priority queue may stand on an empty queue; `shift()` copies one
  queue over another, so that messages are lost and sent twice (`harmed`; `SentOnce`
  fails of these), subtracts the header size from a short write, and can reach
  its `PFS__TERMINATE` (line 199); the size in a frame header is that of the frame
  built, not of what a short write sent.
* A packet whose body arrives after its header loses the header
  (`basic_input_processor.hpp:68`): the header's transaction is committed first. What
  follows on that lane is read from the wrong place on: packets that were never sent are
  processed, others are left out, or the process ends with an exception. `InOrder` and
  `NothingHeld` promise less on a lane in `parted`, and the other lanes do not notice.
* A broken socket that two callbacks of one `step()` report is scheduled twice
  (`node.hpp:132`, `:142`). The two dials make two connections of the same direction that
  are both used, against "Select master socket" (`exclusive_handshake.hpp:69`); one end
  may lose its channel alone; and after a single break the pair may close and dial for
  ever. `OneMaster`, `Agreement` and `EventuallyConnected` each fail in the `meshnet` run
  without their exception for `doubled`.
* A node that does not read for longer than the reconnection timeout may read the request
  on the new connection first and the one on the connection already given up after it;
  it then writes to the one that is gone. `Agreement` and `EventuallyConnected` fail
  without their exception for `hasty`.
* A second completed handshake calls `on_node_connected` again for a node already
  connected (`node.hpp:173` and `:185`); `announced` is then `"twice"`.
* When a channel of two sockets ends, an entry of `_readers` for a further socket of
  the same node stays until that socket closes.
* `simple_heartbeat::step` walks `_limits` while its callback may erase the entry the
  iterator stands on (a fault of `MeshNode`).

**Pollers**

* The `select` connecting poller calls `connection_refused` and then `connected` for a
  failed connection (`ReportsExact` allows it only there).
* The `epoll` reader reports a hang-up before the data that came with it.
* UDT's poller counts additions of known descriptors and removals of unknown and
  repeated ones; the reader and writer pools repeat removals, so that a later
  removal may be skipped at zero and the descriptor stays watched (`Exact`).
* `poll_poller::remove_socket` shifts its entries by `memcpy` on overlapping memory,
  which is undefined; `RemoveFromPoll` is the shift that was meant
  *(not in a model)*.

**Reliable delivery**

* A dial that fails at once as unreachable leaves the writer "ignored": the peer
  stays discovered and is never dialled again (`delivery_engine.hpp:571-586`), until
  it falls silent. `NeverStranded` and `EventuallySettled` make that exception.
* The first envelope of a peer reads a row of `eids` that nothing inserts, and throws
  (`persistent_storage.cpp:251`); the model starts with the row.
* `wipe()` drops the acknowledgement database and keeps the numbers
  (`persistent_storage.cpp:171-179`), so the receiver waits for envelopes that are
  gone *(not in a model)*.
* `enqueue_again` builds a negative acknowledgement (`reliable_delivery_engine.hpp:214`);
  it is harmless because it names the recent number, and the repetition comes with
  the next channel.
* The accept callback of the listener uses a null pointer when the account is not
  made (`delivery_engine.hpp:134-136`), and two hosts may expire each other repeatedly.
* A dial that is connected at once (`tcp_socket.cpp:101`) goes to the readers of the client
  poller (`client_poller.hpp:156-157`) and `connected` is never called: no hello is sent,
  `can_write` stays unset, what is enqueued waits for ever, and nothing expires the peer
  while the connection stands (`once`; `EventuallySettled` makes that exception).

**UDT**

* `accept()` uses what `locate(u)` returns without asking (`api.cpp:740`), and
  `connect_complete()` throws in the worker when the application has closed the
  connecting socket (`core.cpp:642`, `:766`, the first marked `// throw ()`): faults
  `accept` and `complete` of `UdtSockets`.
* A worker inside `CUDT::listen()` has no protection against the collector deleting
  the listener; only the second it waits.
* `m_bConnecting` is set after the request is sent (`core.cpp:582`), so an answer may
  find it unset; a connector whose time is over stays in the rendezvous queue; an
  asynchronous connect takes a rejection for an answer.
* `listener_pool` listens before it adds the listener to its poller: a connection
  queued in between is not announced before the next one (`missed`).
* `accept()` takes the smallest identifier, which is the newest connection.
* `CSndUList::remove_` (`queue.cpp`) fills the hole with the last entry and sifts it
  only down; if the hole is in another subtree the heap is out of order and a socket
  is served late *(not in a model)*. Likewise an interrupt of the timer between
  `getNextProcTime()` and `sleepto()` is lost, and the worker sleeps until the time
  it had read.
* The receiver's removal of a range that wraps stops short of `MaxSeqNo`
  (`list.cpp:638-641`), although `list.hpp:132` says "Remove all packets between seqno1 and
  seqno2."; the number stays in the list, and the receiver's acknowledgement stops there
  until the packet arrives after all (`kept` in `ListExact`).
* A packet that is not a handshake makes a connecting socket forget its connector
  (`core.cpp:667-672`): it then waits for an answer that no longer finds it
  (`Answer`).

## 8. Not modelled

* **Services**: `service.hpp` and the client and server pollers it is built on are
  commented out of `library.cmake`. Read, but without a model: a `client_poller`
  removes a socket only from the poller that reported it before it calls `removed`,
  although `client_poller.hpp:64` says that it can then be released safely.
* **`p2p/engine.hpp`** beyond what the file transporter meets: its own comment says
  deprecated; the delivery and discovery engines replace it and are modelled.
* **ENet**: an option that is off; its library is not in the repository.
* **UDT**: rendezvous connections, messages with a time to live, file transfer,
  congestion control, select(), options, `CSndUList`, `CUnitQueue`, MD5, cache.
* **Reliable delivery**: report envelopes, reception of `again` (no peer sends it),
  `wipe()`, envelopes in several packets.
* **File transporter**: several files at once, commands for remote files, checksums.
* **Network interfaces, netlink, addresses, errors**: queries and values without state
  that steps change; `inet4_addr` has unit tests.
* **Demos** with the line editors they carry, `ifaddrs` for Android, and the variants
  for Windows: about a third of the lines of the repository.
* Inside the modelled parts: contents and checksums of packets, logging, and time.
  Deadlines are expiries that may happen at any time, which covers every timing but
  not two timers with equal deadlines (they collide in a `std::set`).

## 9. Plan

Done: the core path of meshnet from poller to node (`SocketPool`, `WriterPool`,
`MeshNode`, `Meshnet`, `PriorityWriterQueue`, `InputProcessor`, `Pollers`), the p2p
layer (`ReliableDelivery`, `FileTransporter`) and UDT (`UdtSeqNo`, `UdtLossLists`,
`UdtTransfer`, `UdtSockets`).

Next, in this order:

1. Proofs: `InputProcessor` and `Pollers`, whose folds would first have to be given as
   recursive functions with the facts a proof needs of each turn; a bound on `exp` from
   which `NeverBroken` follows for `MaxFaults` small beside `ExpMax`.
2. Abstract specifications of a writer (a FIFO of bytes that ends with its socket) and
   of a channel between two nodes, and the refinements.
3. `Timers` – heartbeat and deferred dials with a clock and sets ordered by deadline:
   collisions, connections that are silent from the start.
4. UDT's sending list and unit queue (`queue.cpp`): the heap, the lost interrupt, the
   count shared by two threads.
5. ENet as a further representation of `Pollers`; several files in `FileTransporter`.
