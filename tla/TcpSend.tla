------------------------------ MODULE TcpSend ------------------------------
(***************************************************************************)
(* The write path of one TCP socket: Socket._write and realWrite in        *)
(* src/module/net.ts on the JavaScript thread, Socket::send and the lwIP   *)
(* callbacks of src/native/tcp.cc on the tcpip thread, and the queues      *)
(* between them.                                                           *)
(*                                                                         *)
(* JavaScript to tcpip: tcpip_callback appends to one FIFO mailbox.        *)
(* tcpip to JavaScript: every ThreadSafeFunction has a FIFO queue of its   *)
(* own and nothing orders the queues of two of them, so the result of a    *)
(* send and a "sent" event of the emitter may be delivered in either       *)
(* order.  A JavaScript callback runs to completion together with the      *)
(* promise continuations it makes ready.                                   *)
(*                                                                         *)
(* Bytes are counted.  The iterations of the loop in Socket::send are      *)
(* steps of their own: nothing else runs on the tcpip thread meanwhile,    *)
(* but the JavaScript thread does.                                         *)
(***************************************************************************)
EXTENDS Integers, Sequences, Functions

CONSTANTS
  SndBuf,         \* TCP_SND_BUF: free bytes of an empty send buffer
  MaxWrite,       \* UINT16_MAX: most bytes one tcp_write takes
  ChunkLens,      \* lengths of the chunks the stream may write
  MaxBytes,       \* bound: the stream issues at most so many bytes
  TcpWriteFails,  \* may tcp_write refuse (ERR_MEM, ERR_CONN)?
  PeerResets      \* may lwIP abort the connection (tcp_err)?

ASSUME SendAssumption ==
  /\ SndBuf \in Nat \ {0}
  /\ MaxWrite \in Nat \ {0}
  /\ ChunkLens \subseteq Nat
  /\ MaxBytes \in Nat
  /\ TcpWriteFails \in BOOLEAN
  /\ PeerResets \in BOOLEAN

VARIABLES
  \* JavaScript thread: class Socket and the pending call of realWrite
  connected,      \* Socket.connected
  destroyed,      \* Duplex.destroyed
  phase,          \* where the current chunk's _write waits, "idle" if none
  rest,           \* chunk.length of the current call of realWrite
  currentAcked,   \* realWrite's local of that name
  bytesWritten,   \* Socket.bytesWritten
  bytesAcked,     \* Socket.bytesAcked
  \* queues between the threads
  mailbox,        \* lengths of the sends posted to the tcpip thread
  results,        \* results queued on the "Socket::send" functions
  emitter,        \* events queued on the "TCP::EventEmitter" function
  \* tcpip thread
  pcb,            \* Socket::pcb: "connecting", "open" or "null"
  sndbuf,         \* tcp_sndbuf(pcb)
  sending,        \* inside the lambda of Socket::send
  bufLength,      \* its capture of that name
  sent,           \* its local of that name
  alive,          \* the process has not crashed
  \* history
  issued,         \* bytes of the chunks given to _write
  taken           \* bytes lwIP accepted into the send buffer

jsVars == <<connected, destroyed, phase, rest, currentAcked, bytesWritten,
            bytesAcked>>
loopVars == <<sending, bufLength, sent>>
vars == <<jsVars, mailbox, results, emitter, pcb, sndbuf, loopVars, alive,
          issued, taken>>

Phases == {"idle", "awaitConnect", "awaitSend", "awaitSent"}

Event == [type : {"connect", "error"}] \cup [type : {"sent"}, len : Nat \ {0}]

\* A socket that is connecting (connect has run on the tcpip thread), or one
\* that a server has just accepted.
Init ==
  /\ connected \in BOOLEAN
  /\ pcb = IF connected THEN "open" ELSE "connecting"
  /\ destroyed = FALSE
  /\ phase = "idle"
  /\ rest = 0 /\ currentAcked = 0 /\ bytesWritten = 0 /\ bytesAcked = 0
  /\ mailbox = <<>> /\ results = <<>> /\ emitter = <<>>
  /\ sndbuf = SndBuf
  /\ sending = FALSE /\ bufLength = 0 /\ sent = 0
  /\ alive = TRUE
  /\ issued = 0 /\ taken = 0

-----------------------------------------------------------------------------
(* Faulty variants of definitions below: each is a mistake that the property *)
(* named with it must notice.                                                *)

\* Least of two lengths (LWIP_MIN).
Least(a, b) == IF a <= b THEN a ELSE b

\* TypeOK: the loop forgets how much of the chunk is left.
NextLenIgnoresChunk == Least(MaxWrite, sndbuf)

\* ImplementsByteSink: the loop forgets how much room there is.
NextLenIgnoresRoom == Least(MaxWrite, bufLength - sent)

\* NoLostWakeup, WriteCompletes: realWrite does not compare the counters.
RoomNeverAppeared == FALSE

\* OneSendInFlight: the "sent" listener is on() instead of once().
WaitsForEverySent == phase \in {"awaitSend", "awaitSent"}

\* AcksConserved: "sent" events are counted instead of their bytes.
OneAcked == 1

-----------------------------------------------------------------------------
(* JavaScript thread *)

\* realWrite up to its await: sample bytesAcked (acked is its value) and
\* post a send of n bytes.
RealWrite(n, acked) ==
  /\ phase' = "awaitSend"
  /\ rest' = n
  /\ currentAcked' = acked
  /\ mailbox' = Append(mailbox, n)

\* The stream writes its next chunk; it waits for the callback of the last.
\* Before the connection is up the chunk waits for the "connect" event.
_write(n) ==
  /\ alive /\ ~destroyed
  /\ phase = "idle"
  /\ issued + n <= MaxBytes
  /\ issued' = issued + n
  /\ \/ connected /\ RealWrite(n, bytesAcked)
     \/ /\ ~connected
        /\ phase' = "awaitConnect" /\ rest' = n
        /\ UNCHANGED <<currentAcked, mailbox>>
  /\ UNCHANGED <<connected, destroyed, bytesWritten, bytesAcked, results,
                 emitter, pcb, sndbuf, loopVars, alive, taken>>

\* The "connect" event: a chunk that waited for it is written.
OnConnect ==
  /\ alive /\ emitter # <<>> /\ Head(emitter).type = "connect"
  /\ emitter' = Tail(emitter)
  /\ connected' = TRUE
  /\ \/ phase = "awaitConnect" /\ RealWrite(rest, bytesAcked)
     \/ /\ phase # "awaitConnect"
        /\ UNCHANGED <<phase, rest, currentAcked, mailbox>>
  /\ UNCHANGED <<destroyed, bytesWritten, bytesAcked, results, pcb, sndbuf,
                 loopVars, alive, issued, taken>>

\* The argument of the "sent" event at the head of the queue.
AckedLength == Head(emitter).len

\* The listener that realWrite adds with once("sent", ...).
WaitsForSent == phase = "awaitSent"

\* The "sent" event: the counter first, then the continuation of a realWrite
\* that waits for room, if there is one.
OnSent ==
  /\ alive /\ emitter # <<>> /\ Head(emitter).type = "sent"
  /\ emitter' = Tail(emitter)
  /\ bytesAcked' = bytesAcked + AckedLength
  /\ \/ WaitsForSent /\ RealWrite(rest, bytesAcked')
     \/ /\ ~WaitsForSent
        /\ UNCHANGED <<phase, rest, currentAcked, mailbox>>
  /\ UNCHANGED <<connected, destroyed, bytesWritten, results, pcb, sndbuf,
                 loopVars, alive, issued, taken>>

\* The "error" event destroys the socket.
OnError ==
  /\ alive /\ emitter # <<>> /\ Head(emitter).type = "error"
  /\ emitter' = Tail(emitter)
  /\ destroyed' = TRUE
  /\ UNCHANGED <<connected, phase, rest, currentAcked, bytesWritten,
                 bytesAcked, mailbox, results, pcb, sndbuf, loopVars, alive,
                 issued, taken>>

\* The application destroys the socket; nothing below it is told.
Destroy ==
  /\ alive /\ ~destroyed
  /\ destroyed' = TRUE
  /\ UNCHANGED <<connected, phase, rest, currentAcked, bytesWritten,
                 bytesAcked, mailbox, results, emitter, pcb, sndbuf, loopVars,
                 alive, issued, taken>>

\* The two tests of realWrite after its await.
AllWritten(length) == length = rest
RoomAppeared == currentAcked # bytesAcked

\* realWrite after its await: the callback if all was written, another send
\* if room appeared meanwhile, else wait for the next "sent" event.
OnSendResolved ==
  /\ alive /\ results # <<>>
  /\ results' = Tail(results)
  /\ LET length == Head(results) IN
     /\ bytesWritten' = bytesWritten + length
     /\ \/ /\ AllWritten(length)
           /\ phase' = "idle" /\ rest' = 0
           /\ UNCHANGED <<currentAcked, mailbox>>
        \/ /\ ~AllWritten(length) /\ RoomAppeared
           /\ RealWrite(rest - length, bytesAcked)
        \/ /\ ~AllWritten(length) /\ ~RoomAppeared
           /\ phase' = "awaitSent" /\ rest' = rest - length
           /\ UNCHANGED <<currentAcked, mailbox>>
  /\ UNCHANGED <<connected, destroyed, bytesAcked, emitter, pcb, sndbuf,
                 loopVars, alive, issued, taken>>

-----------------------------------------------------------------------------
(* tcpip thread *)

\* lwIP completes the handshake and calls the lambda given to tcp_connect.
Connected ==
  /\ alive /\ ~sending /\ pcb = "connecting"
  /\ pcb' = "open"
  /\ emitter' = Append(emitter, [type |-> "connect"])
  /\ UNCHANGED <<jsVars, mailbox, results, sndbuf, loopVars, alive, issued,
                 taken>>

\* The tcpip thread takes a posted send from its mailbox.
SendStart ==
  /\ alive /\ ~sending /\ mailbox # <<>>
  /\ mailbox' = Tail(mailbox)
  /\ sending' = TRUE
  /\ bufLength' = Head(mailbox)
  /\ sent' = 0
  /\ UNCHANGED <<jsVars, results, emitter, pcb, sndbuf, alive, issued, taken>>

\* len of the next iteration: LWIP_MIN(UINT16_MAX, LWIP_MIN(sndbuf, ...)).
NextLen == Least(MaxWrite, Least(sndbuf, bufLength - sent))

\* One iteration.  The result of tcp_write is not looked at: a refused call
\* leaves the send buffer alone but is counted in sent all the same.
SendIterate ==
  /\ alive /\ sending /\ pcb # "null" /\ NextLen > 0
  /\ sent' = sent + NextLen
  /\ \E len \in IF TcpWriteFails THEN {0, NextLen} ELSE {NextLen} :
       sndbuf' = sndbuf - len /\ taken' = taken + len
  /\ UNCHANGED <<jsVars, mailbox, results, emitter, pcb, sending, bufLength,
                 alive, issued>>

\* The loop breaks and the count goes to the promise.
SendFinish ==
  /\ alive /\ sending /\ pcb # "null" /\ NextLen = 0
  /\ sending' = FALSE /\ bufLength' = 0 /\ sent' = 0
  /\ results' = Append(results, sent)
  /\ UNCHANGED <<jsVars, mailbox, emitter, pcb, sndbuf, alive, issued, taken>>

\* tcp_sndbuf(nullptr): the error callback has cleared the pcb.
SendOnNullPcb ==
  /\ alive /\ sending /\ pcb = "null"
  /\ alive' = FALSE
  /\ UNCHANGED <<jsVars, mailbox, results, emitter, pcb, sndbuf, loopVars,
                 issued, taken>>

\* The peer acknowledges k bytes: lwIP frees them and calls tcp_sent_cb.
PeerAck ==
  /\ alive /\ ~sending /\ pcb = "open"
  /\ \E k \in 1..(SndBuf - sndbuf) :
       /\ sndbuf' = sndbuf + k
       /\ emitter' = Append(emitter, [type |-> "sent", len |-> k])
  /\ UNCHANGED <<jsVars, mailbox, results, pcb, loopVars, alive, issued,
                 taken>>

\* lwIP drops the connection and calls tcp_err_cb with another error than
\* ERR_CLSD: the pcb is cleared and the error is the emitter's last event.
PeerReset ==
  /\ PeerResets
  /\ alive /\ ~sending /\ pcb # "null"
  /\ pcb' = "null"
  /\ emitter' = Append(emitter, [type |-> "error"])
  /\ UNCHANGED <<jsVars, mailbox, results, sndbuf, loopVars, alive, issued,
                 taken>>

-----------------------------------------------------------------------------
JavaScript == OnConnect \/ OnSent \/ OnError \/ OnSendResolved

Tcpip == SendStart \/ SendIterate \/ SendFinish \/ SendOnNullPcb

\* The process is gone, or nothing is queued and no chunk waits on a
\* connection that still exists: only the application can go on.
Quiescent ==
  /\ \/ ~alive
     \/ /\ mailbox = <<>> /\ results = <<>> /\ emitter = <<>> /\ ~sending
        /\ phase = "idle" \/ pcb = "null"
  /\ UNCHANGED vars

Next ==
  \/ \E n \in ChunkLens : _write(n)
  \/ Destroy
  \/ JavaScript
  \/ Connected
  \/ Tcpip
  \/ PeerAck
  \/ PeerReset
  \/ Quiescent

Spec == Init /\ [][Next]_vars

\* libuv serves every queue, the tcpip thread its mailbox, and the peer
\* completes the handshake and acknowledges what it was sent.
FairSpec ==
  /\ Spec
  /\ WF_vars(OnConnect) /\ WF_vars(OnSent) /\ WF_vars(OnError)
  /\ WF_vars(OnSendResolved)
  /\ WF_vars(Tcpip)
  /\ WF_vars(Connected) /\ WF_vars(PeerAck)

-----------------------------------------------------------------------------
(* Properties *)

\* Type invariant.
TypeOK ==
  /\ connected \in BOOLEAN /\ destroyed \in BOOLEAN
  /\ phase \in Phases
  /\ rest \in Nat /\ currentAcked \in Nat
  /\ bytesWritten \in Nat /\ bytesAcked \in Nat
  /\ mailbox \in Seq(Nat) /\ results \in Seq(Nat) /\ emitter \in Seq(Event)
  /\ pcb \in {"connecting", "open", "null"}
  /\ sndbuf \in 0..SndBuf
  /\ sending \in BOOLEAN /\ bufLength \in Nat /\ sent \in Nat
  /\ alive \in BOOLEAN
  /\ issued \in Nat /\ taken \in Nat

\* A "sent" event is on its way to the JavaScript thread, or one will be
\* when the peer acknowledges.
RoomOrWake ==
  \/ sndbuf < SndBuf
  \/ \E i \in DOMAIN emitter : emitter[i].type = "sent"

\* No lost wake-up: a chunk that waits for a "sent" event (net.ts:316) on an
\* open connection will get one, although its decision to wait was taken on
\* the JavaScript thread after the send it is about (net.ts:313).
NoLostWakeup == phase = "awaitSent" /\ pcb = "open" => RoomOrWake

\* One send at a time: the retries of realWrite and the wake-ups by "sent"
\* events never put two sends of one socket in flight, which would reorder
\* or duplicate the bytes of a chunk.
OneSendInFlight ==
  Len(mailbox) + Len(results) + (IF sending THEN 1 ELSE 0)
    = IF phase = "awaitSend" THEN 1 ELSE 0

\* Bytes reported by the "sent" events that JavaScript has not seen yet.
AckedInTransit ==
  SumFunction([i \in DOMAIN emitter |->
                 IF emitter[i].type = "sent" THEN emitter[i].len ELSE 0])

\* Acknowledgements are neither lost nor counted twice on their way to
\* bytesAcked (net.ts:245): what lwIP took is in the send buffer, or in the
\* emitter's queue as "sent" events, or in bytesAcked.
AcksConserved == taken = bytesAcked + AckedInTransit + (SndBuf - sndbuf)

\* The write callback ("everything was written out", net.ts:302) has run
\* only for bytes that lwIP holds or has sent.
CallbackMeansTaken == phase = "idle" => taken = issued

\* Every chunk's callback runs in the end, while the connection lasts.
WriteCompletes == phase # "idle" ~> (phase = "idle" \/ pcb = "null")

\* The write path implements the byte sink.
Sink == INSTANCE ByteSink WITH
  Capacity <- SndBuf,
  acked <- taken - (SndBuf - sndbuf),
  busy <- phase # "idle"
ImplementsByteSink == Sink!SinkSpec
=============================================================================
