# A verification development for libzt-node

libzt-node gives Node.js programs TCP and UDP sockets on ZeroTier networks. Its
TypeScript classes (`src/src/module`) imitate `node:net` and `node:dgram` on
the JavaScript thread; its C++ classes (`src/src/native`) drive lwIP, whose
code runs on one other thread, the *tcpip thread*. Nearly all that is hard in
this code comes from the two threads: JavaScript decides on copies of a state
that the other thread has already changed, and learns of changes through
several queues that nothing orders.

This directory models that. Paths below are relative to the root of the
repository; `net.ts:313` means line 313 of `src/module/net.ts`, `tcp.cc:206` of
`src/native/tcp.cc`, and so on.

## 1. Inventory

| component | code | state | operations | modelled by |
|---|---|---|---|---|
| TCP write path | `net.ts` `Socket._write`, `realWrite`, `"connect"`, `"sent"` and `"error"` listeners; `tcp.cc` `send`, `tcp_sent_cb`, `tcp_err_cb` | `connected`, `bytesWritten`, `bytesAcked`, the pending `realWrite`; the pcb and its send buffer | write, continue, acknowledge, reset, destroy | `TcpSend`, `ByteSink`, `TcpSendProofs` |
| TCP receive path | `net.ts` constructor, `_read`, `receiver`, `"data"`; `tcp.cc` `tcp_receive_cb`, `ack` | the PassThrough and the Duplex, the receive window, `ack`s under way | segment, FIN, read, pause, ack | `TcpReceive`, `ByteSource`, `TcpPipe`, `TcpReceiveProofs` |
| TCP connect, shutdown, errors | `net.ts` `connect`, `_connect`, `_final`, `setNoDelay`; `tcp.cc` `connect`, `shutdown_wr`, `nagle`, `init`, `emit_close`, `tcp_err_cb` | the pcb and its state, the emitter function, retries | connect, retry, shut down, FIN, reset, close, destroy | `TcpClose`, `TcpCloseProofs` |
| TCP server | `net.ts` `Server`; `tcp.cc` `Server`, `accept_cb` | `listening`, `internalServer`, `connAmount`; listener pcbs, backlog | listen, close, ref, unref, accept, drop | `NetServer`, `ServerLifecycle`, `NetServerProofs` |
| Argument parsing | `net.ts` `createConnection`, `listen`, `extractListenArgs`; `util.ts` | none | pure dispatch | `NetArguments`, `NetServerProofs` |
| UDP socket | `dgram.ts`; `udp.cc` | `bound`, `connected`, `closed`; the pcb; `onRecv` | bind, send, connect, disconnect, close, ref, unref, receive | `UdpSocket`, `UdpSocketProofs` |
| Node lifecycle, package entry | `node.ts`; `index.ts`; `binding.cc` | `NodeState`; `event_callback` and its function; the libzt service | start, free, ref, unref, join, leave, `startNodeAndJoinNet`, events | `ZtNode`, `ZtNodeProofs` |
| Thread bridge | `lwip-util.h`; `macros.h` | the mailbox, the queues of thread-safe functions, promises | post, call back, settle | `ThreadBridge`, `ThreadBridgeProofs` |
| Typings, build files, tests | `zts.ts`, `defs.ts`, `binding-options.ts`, `CMakeLists.txt`, `src/test` | none | | not modelled |
| lwIP, libzt, Node.js | not in the repository (`ext/` holds empty submodules) | | | external: modelled inside the modules above from how the code uses them |

How they interact:

* **JavaScript to tcpip.** A native method posts a function with
  `typed_tcpip_callback` (`lwip-util.h:25`); the tcpip thread runs posted
  functions in order, between the packets and timers of lwIP.
* **tcpip to JavaScript.** The tcpip thread calls *thread-safe functions*. Each
  has a FIFO queue of its own. A socket has one for its events, a listener one
  for its connections, and every asynchronous call makes one for its result
  (`macros.h:167`). Nothing orders the queues of two functions.
* **Shared fields.** `pcb`, `emit` and `event_callback` are read by both
  threads without a lock.
* **JavaScript callbacks** run to completion together with the promise
  continuations they make ready, so one delivery is one step of the models.

What is hard, and what makes each component correct:

* *TCP write path.* `realWrite` decides to wait for a `"sent"` event after the
  send it decides about has run elsewhere; the event may be under way, delivered
  or still to come. Correct means no lost wake-up, never two sends of one socket
  in flight, the write callback only for bytes lwIP took, every promise settled.
* *TCP receive path.* Data passes four queues, two of them inside streams that
  push back, and the receive window is given back in the middle. Correct means
  nothing lost or reordered, the window conserved and opened again, a bound on
  what piles up, and an end that is reported after the data.
* *TCP connect and close.* Either side may close first, lwIP frees the pcb and
  the code its emitter at moments of their own, and posted functions hold copies
  of both. Correct means no use after release, `"finish"` and `"close"` when
  both sides have closed, a connect that succeeds or fails.
* *TCP server.* Listening and closing are asynchronous, connections come on a
  third queue, and `"close"` is emitted from two places by a count. Correct means
  the held listener is live, no listener is lost, the count is right and `"close"`
  comes once, drained, after a close.
* *UDP socket.* The pcb is created asynchronously, flags change when results
  arrive, and `onRecv` is aborted with datagrams queued. Correct means one
  `"listening"`, a port that stays, flags that agree with lwIP, no message
  after `"close"`, no pbuf lost.
* *Node lifecycle.* One function stands for events, for what keeps the process
  running and, by its finaliser, for freeing the node.
* *Thread bridge.* Both directions can block: the threads must not wait for
  each other.

`PROJECT.json` lists the hazards line by line, with the properties that cover
each.

## 2. The modules

Every module is parameterised by constants with a named assumption, has one
action per handler or posted function, and ends with its properties. Before the
actions each module has a section *Faulty variants*: plausible mistakes in one
definition, each named with the property that notices it. They are not part of
the model; replacing a definition by its variant must break the property, which
shows that the property depends on the code.

### TcpSend, refining ByteSink

`TcpSend` follows one chunk at a time (a Duplex stream never calls `_write`
again before the callback) from `_write` to the acknowledgement of the peer.
Bytes are counted: the model knows how many, not which. `phase` is where the
current call of `realWrite` stands: `idle`, `awaitConnect` (the `once("connect")`
of `net.ts:290`), `awaitSend` (the `await` of `net.ts:299`), `awaitSent`
(the `once("sent")` of `net.ts:316`). The loop of `Socket::send` is three
actions (`SendStart`, `SendIterate`, `SendFinish`) because JavaScript runs
meanwhile, and a fourth, `SendOnNullPcb`, is the loop on a pcb that `tcp_err_cb`
has cleared. `PeerAck` is `tcp_sent_cb`; `PeerReset` is `tcp_err_cb` with an error
other than `ERR_CLSD`; closing is in `TcpClose`. `Init` is a fresh
socket or one made by `accept_cb`.

`ByteSink` is what a stream may rely on: bytes are taken in order, at most a
buffer's worth unacknowledged, and the callback comes when all are taken. The
refinement maps its acknowledged bytes to `taken - (SndBuf - sndbuf)`.

### TcpReceive, refining ByteSource

A chunk is its length. It goes from `Segment` (`tcp_receive_cb`) through
`emitter`, the queue of the socket's events, into the receiver, a PassThrough
(`writes`, `buffer`), from there into the Duplex that the Socket is (`readable`)
and out to the application (`out`). Two marks push back: a write to the
receiver is done when the receiver holds less than its mark, and only then is
the window returned (`Ack`, `RunAck`); a push that the Duplex answers with false
pauses the receiver until `_read`. What the streams of Node.js do by
themselves (the steps of `Tick`) is done before the next event of the tcpip thread is
delivered, as process ticks are. `notices` are the events after which no data comes:
the FIN, which ends the receiver, and an error, which destroys the socket. The loop
of `Socket::ack` is a recursive function, `Loop`.

An accepted socket gets its callbacks on the JavaScript thread, in two steps: the one
for data first (`Install`), the one for errors last (`Initialised`), while lwIP goes on
and JavaScript does nothing else. What comes before its callback is set meets
lwIP's defaults, and sets `early`; only `tcp_err_cb` clears the pcb of the socket
(`cleared`), which an ack is posted with. The application may listen for data or not,
pause, resume and destroy.

`ByteSource` is what a reader may rely on: chunks in order, none lost, the end after
the last, and no more than the window, both marks and a segment waiting for it.

### TcpPipe

A writer and a reader, composed: the sender is `ByteSink`, which `TcpSend` is
proved to implement, the receiver is `TcpReceive` step by step. Flow control
couples them: a segment needs bytes in the send buffer and room in the window, an
acknowledgement needs bytes that lwIP received. The run of `TcpPipe` is the
run of `TcpReceive`: it is where arrivals depend on the window.

### TcpClose

The life of one socket: made by the application, accepted by a server, or
accepted and dropped for `maxConnections` (`origin`). `tcp` is the state of the pcb
in lwIP, `field` the native object's pointer to it, `emit` the emitter, which is
uninitialised in an accepted socket until the server has made a `Socket` of it.
`waiting` and `timers` are the listeners and the timers of attempts to connect:
every listener hears every failure. One chunk goes each way, for the sake of the
pcb that it uses: `write` is where the chunk of `_write` stands (waiting for an event,
posted, or taken with the result under way), `unread` a chunk in the receiver whose
`ack` is to come. `callbacks` says how far `Socket::init` is, which sets them one after
the other while lwIP goes on (`OnAccepted`, `Initialised`).

`Emit` is the use of the emitter by any callback. The pcb is used by all that
JavaScript posts: `RunSend` reads the field of the socket, `RunShutdown`, `RunNagle`,
`RunAck` and `RunAccepted` the copy they were given; and by `Socket::init`. Using it
after lwIP has freed it (`Stale`) ends the process or does not; reading or writing
through a null pcb ends it.

The code does come to wrong uses of memory, so the properties cannot be stated
without exception. The history variable `met` collects *circumstances* after which it
may. None of them is such a use, and most behaviours that meet one never come to it:
each is recorded at the step that makes the use possible, and what the
properties say is that without one of them the use is not reached. They are

* `overtaken`: lwIP frees the pcb while a function that will use it is posted, or before
  `Socket::init` is over;
* `late`: a method is called, or a stream goes on, when lwIP has freed the pcb already;
* `noDelay`: `setNoDelay` before the pcb exists;
* `reconnect`: connect again, after a failure or while connecting;
* `dataFin`: data and FIN in one segment after ours;
* `dropped`: a connection beyond `maxConnections`, whose socket has no emitter;

and, for the closing handshake, `crossing` (FINs that cross), `endFirst` (end before
connected), `destroy`, `early` (the connection ends before the callbacks are set).

### NetServer, refining ServerLifecycle

`Listen`, `Ref`, `Unref`, `OnListenResult`, `Close`, `OnCloseResult`,
`OnConnection` and `OnSocketClose` are the methods and handlers of class `Server`
on the JavaScript thread; `RunListen`, `RunClose`, `RunAccepted` and `Accept` run
on the tcpip thread. Connections and listeners are tokens. The count
`connAmount` starts at 0 and is set to -1 by a listener that the constructor
adds once (`net.ts:30`); both places that emit `"close"` (`net.ts:55` and `146`)
are parts of the actions they occur in. `holders` are the listeners whose function
keeps the process, `unrefNext` the `once("listening")` of an early `unref`.
`owed` counts callbacks given to `close` and not called.

What an application does decides what holds, so a variable that never changes,
`use`, says how the server is used. `any` application calls listen and close at
will. An `orderly` one is *patient*: it waits for a listen that is pending, closes
only a running server and does not listen again after a close. Peers connect when they
like in both, and `maxConnections` is chosen at the start. The properties say which use
they speak of.

`ServerLifecycle` is the server as `node:net` describes it: it opens connections within
the limit, after its start and before its end is announced, and announces `"close"`
once, after it was stopped and its last connection ended. The mapping is the plain one
(`announced` is the number of times `"close"` was emitted, `Phase` follows the
handle and the calls of close). The code leaves this lifecycle when a connection is
delivered at one of two moments, which `stray` records: before the result of its
listen, or after `"close"`. `ImplementsLifecycle` therefore says of every behaviour of a
patient application that each step is one of the lifecycle until one of them has
happened, and from then on nothing.

### NetArguments

How `listen` and `createConnection` tell their overloads apart, by type and
place. Nothing runs: the module is operators, and the theorems about them stand in
`NetServerProofs`.

### UdpSocket

One action per method and per posted function. `pcb` is the field of the native
object (`unset`, `live` or `null`), `native` the pcb in lwIP. Results are a
set, since each comes on a queue of its own. An `unset` field that is read is a
free choice of what is found. lwIP is external: it answers a null pcb with an
error, binds an unbound pcb that sends or connects, and moves a bound pcb that is
bound again. A `use` as in `NetServer`: a *patient* application waits for each
bind, connect and disconnect. Two history variables say when the code has left safe
ground: `early`, when close or disconnect has read a pcb that was not set, and
`late`, when `ref` or `unref` was called on the aborted `onRecv`.
`received` counts datagrams queued on `onRecv`, `pbufs` what lwIP handed over
and did not get back.

### ZtNode

`state` is `NodeState`, `started` and `joining` the polling loops of `start` and
`joinNetwork`, `entry` where `startNodeAndJoinNet` stands, `tsfn` the life of the
function made by `node_start` (`open`,
`closing` after an Abort or at the end of the process, `deleted` and `finalised`
by the two statements of its finaliser). `Raise`, `ReadPointer` and `Handle` are the
two reads of `event_callback` in `event_handler` and the call, with anything in
between. libzt is external, and little is assumed of it: it may call `event_handler`
at any time once it was given it, one call at a time, and `zts_node_free` frees a
service that is up, without waiting for a call that is going on, and fails otherwise.
`node_free` may therefore release the function under a handler that has passed its
test: `overtaken` records that, in the step of `node_free`, and `ListenerLive` says
that this is the only way in which a handler calls what is no more before the process
ends. One network stands for all.

### ThreadBridge

The only module with a bounded mailbox: it shows that the blocking calls of the
two threads cannot make them wait for each other, and so justifies the unbounded
queues of all others. Posting is a step of its own, for which the JavaScript
thread waits while the mailbox is full, and so is the hand-over of the tcpip thread.

## 3. The runs

Passing runs, one for each component:

| run | shows | bounds |
|---|---|---|
| `tcp_send` | no lost wake-up, one send at a time, acknowledgements conserved, `ByteSink` implemented, every callback in the end unless the connection is lost; with resets and destroys at any time | buffer 3, 2 bytes per `tcp_write`, chunks of 0, 1 and 4 bytes, 6 bytes in all |
| `tcp_pipe` | nothing lost or reordered, the window conserved, `ByteSource` implemented; the reader catches up, and the end is reported even if nobody listens, unless something breaks the connection | window 2, marks 2 and 1, segments of 1 and 2, one byte per `tcp_recved`, 6 bytes in all, 1 pause |
| `tcp_close` | no wrong use of the pcb or the emitter unless one of the circumstances named came before; `"finish"` not before both sides have closed; `"close"` after a closing handshake; every connect settles | 1 retry, 2 connects, three origins, one chunk each way at a time, one `"sent"` queued |
| `net_server` | any use: the held listener is live, the count right until the first `"close"`, backlog slots return; patient: no listener orphaned, `unref` respected, the first `"close"` drained and after a close, closing completes and is reported, `ServerLifecycle` implemented until a stray connection | 2 connections, limit 2 in any use, 1 and 2 in orderly use, 2 listens, 2 closes |
| `udp_socket` | any use: pbufs accounted, bound means a port, a bound socket holds the process, close reported (or the process crashed); unless early or late: no use of what was removed; unless early: no message after `"close"`; patient: one `"listening"`, flag and port agree with lwIP | 4 calls, 2 datagrams |
| `zt_node` | no call of a dead function before the process ends unless `node_free` overtakes it, none heard after free, `start`, `joinNetwork` and `startNodeAndJoinNet` settle, a reference keeps the process, its end frees the node | 3 events, 2 joins |
| `thread_bridge` | every promise settled, every buffer returned | 3 calls, 4 buffers, mailbox of 2 |

Why the bounds are enough. In `tcp_send` a chunk larger than the buffer plus one
more `tcp_write` makes the loop split, fill the buffer and be partial, so that all
three operands of the minimum (`tcp.cc:207`) and both ways to continue
(`net.ts:314` and `316`) occur, repeatedly and for a second chunk. In `tcp_pipe` six
bytes are more than the window, the receiver and the Duplex hold together, so that
a reader that does not read closes the window and must open it again; a segment
of two is above the mark of the Duplex and above what one call of `tcp_recved`
takes, so every push may be refused and `ack` loops. (In the code the length that
`ack` is given is that of one event, the `tot_len` of a pbuf, which has 16 bits like
the limit of `tcp_recved`: its loop never takes a second turn. The model shows that
it would be right for smaller limits, too.) In `tcp_close` one retry and
two connects give a retry that fails again, two listeners for one failure, and
a connect during another; after a second connect no new chunk is followed (`Once`),
since what is posted for a socket in that state meets a circumstance anyway. A chunk each
way, again and again, puts every function that uses the pcb into the mailbox when the pcb
is freed. In `net_server` a limit of two lets two connections be open at once, so that
there is a last and a last but one, before the first `"close"`, too; a limit of one
gives drops; two listens and two closes give every order of two
overlapping lives. Four UDP calls are enough for two of one kind around two of
another. In the bridge four buffers and three calls exceed mailbox and place to
post together, so that every wait occurs. Deadlock is checked where stopping means
something, with `Quiescent` to say when it is legitimate; `tcp_pipe`, `tcp_close` and
`thread_bridge` do not check it, since a transfer that is done, a closed socket, a
process that has ended and settled calls have nothing left to do.

Fairness. Liveness is stated under weak fairness of the deliveries of queues
that are not empty (libuv serves every queue), of the functions of the tcpip
thread (it blocks only on an empty mailbox), of the streams of Node.js and of timers.
Assumptions on the outside are named: the peer completes the handshake and
acknowledges, or lwIP gives up (`TcpSend`, `TcpPipe`, `TcpClose`), an application
that pauses resumes (`TcpReceive`), every connection ends (`NetServer`), the
service gets online and into its networks (`ZtNode`). Calls of the application,
arrivals, FINs and resets are never assumed to happen. `TcpClose` does not count the
bytes of its chunk, so that a result of `send` may always ask for more: that a chunk does
not go to lwIP in parts for ever is its one strong fairness, and what `TcpSend`, which
counts them, shows as `WriteCompletes`; that the rest is let go by an acknowledgement
is the absence of lost wake-ups shown there.

Runs that end in a violation, each a disagreement between code and text, are
described under `findings` in `PROJECT.json`:

| run | what happens |
|---|---|
| `tcp_send_refused` | bytes that `tcp_write` refused are counted as sent |
| `tcp_pipe_early` | data that arrives before the callbacks of an accepted socket are set is acknowledged and dropped |
| `tcp_close_crossing` | FINs that cross: `"close"` is never emitted |
| `net_server_dispose` | the callback of `close`, and so `asyncDispose`, is never called |
| `zt_node_free` | the node is freed by `free` and again by the finaliser |

The uses are as narrow, and the exceptions as many, as the code needs. What happens
outside them was found with the same models, by checking a property without
its exception:

* *TCP.* A send that runs after a reset reads through the cleared pcb
  (`tcp.cc:206`), and its promise is never settled. An `ack`, a shutdown or the return
  of a backlog slot that is posted when lwIP frees the pcb, and an `ack` of data that the
  application reads after TIME_WAIT, use what is freed (`tcp.cc:233`, `242`, `326`).
  `connect(...).setNoDelay()` writes through a null pcb (`tcp.cc:64`). A segment with
  data and FIN after the local shutdown calls `tcp_receive_cb` twice in TIME_WAIT, and
  the second call uses the emitter that the first released (`tcp.cc:118`). After a
  failed connect lwIP may have freed the pcb or the emitter may be gone,
  and connecting again uses them. A socket that is ended before it is connected
  finishes at once and never sends a FIN (`net.ts:324`).
  `destroy` closes nothing in lwIP, and a destroyed socket goes on retrying to connect
  (`net.ts:345`). The FIN makes the Duplex flow when it holds nothing
  (`net.ts:240`), and data still in the receiver is then emitted to nobody (`EmitData`
  without a listener; `NothingLost` counts it as emitted).
* *Server.* A second listen before the result of the first passes the guard at
  `net.ts:107`; its result replaces `internalServer`, and nothing can close the
  first listener any more (`NoOrphan` in any use).
  A connection delivered and ended before the result of its listen makes the
  server emit `"close"` although it was never closed, since `net.ts:55` takes an
  undefined `internalServer` for a closed one. One delivered between the end of
  the last connection and the result of a close makes one close emit `"close"`
  twice. These are the two `stray` connections: without either exception `net_server`
  finds `ImplementsLifecycle` violated in orderly use. A server that listens again after a close
  emits `"close"` with a connection open: the count was overwritten.
* *UDP.* Two binds in a row, or a bind and a send, emit `"listening"` twice
  (`dgram.ts:106`), and the second bind moves the socket to another port. A connect
  followed by a disconnect before its result leaves the flag set and lwIP
  disconnected (`dgram.ts:141`). A close before the pcb exists reads an
  uninitialised field (`udp.cc:199`); if it is null the close is reported and the
  socket stays open. A `"listening"` that comes after the result of close calls
  `ref` on an aborted function (`dgram.ts:45`).
* *Node.* When the process ends, the finaliser deletes the function before it frees
  the node (`binding.cc:92`), and `event_callback` still points to it. A start that
  fails leaves the state `STARTED`, so that no second start is possible
  (`node.ts:59`).
* *Arguments.* An option that is passed as `undefined` hides those after it:
  `listen` reads none of them, and `createConnection(port, undefined, listener)`
  drops its listener (`ListenerDropped`). `listen(path)` takes the path for a host. The
  callback given with an options object is kept in the object, where a later listen
  with the same object finds it (`net.ts:121`).

## 4. What is proved

Eight modules hold proofs, one for each component that has a state, and
`SumTheorems` for what several of them need. Their only assumptions are the named
ones on the constants. With them every invariant, every action property and every refinement
that a passing run checks is also a theorem; what the runs alone show is liveness.

`SumTheorems` makes induction over data possible without a theorem that takes an
operator as parameter: a set of numbers that holds 0 and the successor of
each of its elements holds all (`NumberInduction`), since the numbers it does not hold would have a
least one (`LeastNumber`), and alike for finite sets (`SetInduction`). What
is to be proved of every number becomes the set of those it is true of. From this
come the sums of sequences, `SumFunction` of the community modules, which are folds: a sum
does not depend on the order in which the fold chooses (`SumExists`, `SumUnique`),
and grows by what is appended and shrinks by what is taken (`SumOfAppend`,
`SumOfTail`, `SumOfConcat`).

`TcpSendProofs` proves, for every buffer size, write limit, set of chunk
lengths and number of bytes:

* `TypeCorrect`: `Spec => []TypeOK`.
* `NoWakeupLost`: `Spec => []NoLostWakeup`.
* `SendsOneAtATime`: `Spec => []OneSendInFlight`.
* `AcksAreConserved`: `Spec => []AcksConserved`.
* `CallbackAfterTaken`: `Spec => []CallbackMeansTaken`, if `tcp_write` does not
  refuse.
* `SinkImplemented`: `Spec => Sink!SinkSpec`, if `tcp_write` does not refuse.

The run `tcp_send_refused` shows that the condition on `tcp_write` is needed.

The argument rests on two inductive invariants, and a third for the acknowledgements.

`WakeInv` strengthens the first three. `SendPlace` says that a socket that awaits a
send has exactly one, posted, running or returned, and never more than was asked;
without it a second send could resolve against the wrong rest. `HandshakeFirst`
says that JavaScript writes only after lwIP is connected. `WakeupDue` is the
heart: a result that is about to be found partial, with counters that are about to
be found equal, has a wake-up to come, because a partial send leaves the buffer
full and an acknowledgement since then is either in the emitter's queue or already
in the counter. `NoLostWakeup` alone is not inductive: it says nothing before the
decision to wait.

`LedgerInv` adds the books: what was issued is written or rests, what lwIP took
is written, being counted by the loop or reported by the result under way. It is
inductive only if `tcp_write` takes what it is given, and implies that an idle
socket has everything taken and that each step maps to a step of `ByteSink`.

`AcksConserved` is inductive beside the types and `WakeInv`, once the sum over the
`"sent"` events in the emitter's queue is known to grow by the event that
`tcp_sent_cb` adds and to shrink by the one that JavaScript takes.

`TcpReceiveProofs` proves, for every window, marks, lengths of segments and limit of
a call of `tcp_recved`, for every pause and reset, and both for a receiver whose peer
may send anything and for the pipe (`Spec \/ PipeSpec => ...`):

* `TypeCorrect`: `[]TypeOK`.
* `ReceivesInOrder`: `[]NothingLost`.
* `WindowIsConserved`: `[]WindowConserved`.
* `SourceImplemented`: `ImplementsByteSource`, the refinement.

They follow from `SourceInvariant`, which has three parts.

`ReceiveInv` adds to `NothingLost` what makes the end come last: a notice is
queued only when the pcb has left `open`, and is delivered when no data is
queued (`FinIsLast`); the Duplex is ended only when the receiver is ended and empty
(`EofIsLast`). Without these a segment could arrive behind the end. The rest is
that a chunk which moves from the head of one queue to the end of the next keeps
its place (`MovesOn`), and that one which arrives is behind all (`ArrivesLast`).

`WindowInv` adds the account of the window. Its sums over four queues are
moved by `SumTheorems`, and `AcksAll` shows by induction that the loop of `Socket::ack`,
whatever `tcp_recved` takes at a time, gives back all of its argument.

`Bounded` limits every queue: the receiver holds less than its mark and the chunk
that crossed it, the Duplex less than its mark and one segment more, and what is in
neither takes room in the window. It gives the capacity of `ByteSource`, and that each step
of the streams is a stutter or the delivery of the oldest chunk. It uses that there is
a longest segment, which `PipeAssumption` states; lwIP's is the MSS.

`TcpCloseProofs` proves, for every number of retries and of calls of connect:

* `TypeCorrect`: `Spec => []TypeOK`.
* `CrashesNever`: `Spec => []NeverCrashes`.
* `FinishIsOver`: `Spec => []FinishMeansOver`.

They follow from `CloseInvariant`: the types, and, as long as none of the fatal
circumstances is met, that the process is alive and three parts that keep it so.
Neither property is inductive: each says what a callback must not find, and not why it does
not find it. `OneAttempt` says that one attempt to connect is under way at a time, and
in one place: posted, or failed with its failure in the queue, or waiting for a
timer; meanwhile lwIP has no connection and reports nothing else. Without it a second
failure could release the emitter that the retry is about to use. `MemoryLasts` is about
what the two threads hand each other: the emitter is released only when the pcb has
nothing more to report, and made before the callbacks are set (`EmitterPart`); the field
of the socket is set from the first callback on until lwIP frees the pcb, which it does
not before `Socket::init` is over (`PcbPart`); and nothing is posted that would
find no pcb when it runs: no `nagle` without one, no `send` while the field is null, and,
once the pcb is freed, nothing that uses it (`PostedPart`). This holds because each step
that breaks it, a method called or a pcb freed, is one that meets a circumstance, and
it is why the process is still alive at every use. `Fins` ties the state of the
pcb to the FINs sent and received, and says who may believe that both are over:
a `"close"` in the queue and a finished write side. No member of `Fatal` is superfluous:
TLC finds a counterexample to `NeverCrashes` when any of them is taken out.

`NetServerProofs` proves, for every set of connections, limit and number of listens
and closes, and every use:

* `ServerTypes`: `Spec => []TypeOK`.
* `ServerAgreesWithLwip`: `Spec => []HandlesAgree`.
* `CountIsRight`: `Spec => []ConnAmountIsOpen`.
* `FirstCloseComesLast`: `Spec => FirstCloseDrained`.
* `LifecycleImplemented`: `Spec => ImplementsLifecycle`, the refinement, which ends with
  the first stray connection.

They follow from `ServerInvariant`. Its part for any use relates the queues to the
listeners: what is asked of the tcpip thread is asked once, of a listener that is in the
state the request needs, and nothing is under way about the listener JavaScript holds
(`Queues`); a connection waits on one listener, once (`Accepts`), so that its
arrival is counted once. `Counting` also bounds the count after the first
`"close"` has overwritten it. For a patient application `Orderly` says that one listen at a
time is pending, that none is after a close, and that an early `unref` is remembered:
without the first, `NoOrphan` breaks when two results return. `Explained` says why
`net.ts:55` may take a missing `internalServer` for a closed one: while a connection is
open and nothing was closed there is a server, unless one was delivered before the
result of its listen; and that after `"close"` no connection is open and the count is
not 0, so that neither place can emit it again, unless one is delivered then.
`FirstCloseDrained` and the refinement rest on it.

It also proves of `NetArguments` `OverloadsRead`: whichever options a call of `listen`
leaves out, the others are read as what they are; and `ListenerDropped`, the case in
which `createConnection` drops its listener.

`UdpSocketProofs` proves, for every number of calls and datagrams:

* `UdpTypes`: `Spec => []TypeOK`.
* `NoPbufLost`: `Spec => []PbufsAccounted`.
* `UdpNeverCrashes`: `Spec => []NeverCrashes`.
* `FlagsRight`: `Spec => []FlagsAgree`.
* `PortIsKept`: `Spec => PortStays`.
* `SilentAfterClose`: `Spec => NoMessageAfterClose`.

They follow from `UdpInvariant`. `Ordered` says that the pcb is created by the first
function posted and that behind its removal there is nothing but `pbuf_free`. With
it `PcbThere`, which holds unless the field was read too early, says that every
captured pcb is live in lwIP until its function has run, and that the Abort comes
after the removal. `PortThere` keeps a port behind every result that reports a
bind. `BindsOnce` and `ConnectsOnce` say what a patient application has under way: one bind
and nothing that binds besides it, one connect with every disconnect ahead of
it; results arrive in any order, and this is why the flags still come out right.
The pbufs are counted by `FreesIn`, the size of a set of places in the mailbox, which
a function that is posted or run changes by one.

`ZtNodeProofs` proves, whether or not the start may fail:

* `NodeTypes`: `Spec => []TypeOK`.
* `ListenerNeverGone`: `Spec => []ListenerLive`.
* `ReferenceHolds`: `Spec => []RefHoldsProcess`.
* `FreedHearsNothing`: `Spec => EventsEnd`.

They follow from `NodeInvariant`: until the process ends the function is open as long as
`event_callback` points to it, and a handler that runs has found it so unless
`node_free` came in between (`FunctionLives`); a node that was freed is not up (`FreedIsQuiet`); the function holds
the process as asked last (`AskedIsHeld`).

`ThreadBridgeProofs` proves, for every set of calls, number of buffers and size of the
mailbox:

* `TypeCorrect`: `Spec => []TypeOK`.

It says that no more buffers are received or freed than arrived, and follows only
from `BuffersAccounted`: every buffer that arrived is in one place, being
handed over, received, being posted to be freed, in the mailbox (a sum over it), or was
freed.

The proofs speak of the uses and circumstances that the properties name, no more: what
happens outside them (section 3) is not excluded.

Only model-checked: liveness (`WriteCompletes`, `CatchesUp`, `EndReported`,
`CloseReported`, `ConnectSettles`, `CloseCompletes`, `BacklogReleased`, `CallsSettle`,
`EndFrees`, `BuffersReturn`), which rests on fairness and `ENABLED` and is out of the
prover's reach; and that no state but the named ones is without a successor.

## 5. What is not modelled

* Readers that call `read()` or wait for `"readable"`: the model has a listener
  for `"data"`, which is how a flowing stream is read.
* `ref` and `unref` of TCP sockets, addresses, `getConnections`, the abort signal
  of `listen`: they read state, change only what keeps the process alive, or call
  an action that is modelled. Methods that only throw "not yet implemented".
* The contents of data: bytes are counted, datagrams and connections are
  tokens, addresses are left out.
* Exhaustion of memory, and the failure of thread-safe functions at the end of
  the process, except in `ZtNode`.
* `zts.ts`, `defs.ts` and `binding-options.ts` declare the native classes and the
  codes of events and errors: no behaviour. Tests and build files.
* lwIP and libzt beyond the answers the code sees.

## 6. Plan

The plan of modules is done: `TcpSend`, `NetServer`, `UdpSocket`, `ZtNode`,
`ThreadBridge`, `TcpReceive`, `TcpPipe`, `TcpClose`, `NetArguments`. So are the proofs
of the safety of all of them. What is left is what the invariants say beyond the
properties they prove: statements about the crossing of components, such as the
writer and the reader of `TcpPipe` together, and the safety half of the liveness
properties (that whatever is awaited is under way), where `NoLostWakeup` and
`HandlesAgree` are the examples.
