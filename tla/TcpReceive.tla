----------------------------- MODULE TcpReceive -----------------------------
(***************************************************************************)
(* The receive path of a net.Socket: tcp_receive_cb and Socket::ack of     *)
(* src/native/tcp.cc on the tcpip thread, the constructor's listeners and  *)
(* _read of src/module/net.ts on the JavaScript thread.  Data goes from    *)
(* lwIP through a PassThrough stream, the receiver, into the Duplex stream *)
(* that the Socket is, and the receive window is given back when a write   *)
(* to the receiver is done.                                                *)
(*                                                                         *)
(* A chunk is its length.  What the streams of Node.js do by themselves,   *)
(* on the next tick, are steps of their own (Tick); no event from the      *)
(* tcpip thread is delivered before they are done.                         *)
(***************************************************************************)
EXTENDS Naturals, Sequences, Functions

CONSTANTS
  SegLens,     \* lengths of the segments that arrive
  Wnd,         \* TCP_WND, the receive window
  PassMark,    \* high-water mark of the receiver
  ReadMark,    \* high-water mark of the Duplex
  AckMax,      \* the most that tcp_recved takes: 0xffff
  MaxBytes,    \* bound: bytes that arrive
  MaxPauses,   \* bound: calls of pause
  MayBreak     \* whether the peer resets and the application destroys

ASSUME ReceiveAssumption ==
  /\ SegLens \subseteq Nat \ {0}
  /\ Wnd \in Nat /\ MaxBytes \in Nat /\ MaxPauses \in Nat
  /\ PassMark \in Nat \ {0} /\ ReadMark \in Nat \ {0} /\ AckMax \in Nat \ {0}
  /\ MayBreak \in BOOLEAN

VARIABLES
  \* tcpip thread
  pcb,         \* "open", "fin" once the peer has closed, or "freed"
  callbacks,   \* of the pcb: "none", "recv" while Socket::init sets them, "all"
  cleared,     \* tcp_err_cb has cleared the pcb of the socket
  rcvWnd,      \* what is left of the receive window
  \* queues between the threads
  emitter,     \* "data" events with a chunk
  notices,     \* events that follow them: "fin" (no chunk) and "error"
  mailbox,     \* acks: the length, and whether the pcb captured was set
  \* the receiver
  writes,      \* chunks written whose turn has not come
  held,        \* length of the last chunk, if its write is not done; or 0
  buffer,      \* chunks that can be read from it
  finished,    \* end() was called
  receiving,   \* it flows, into the Duplex
  \* the Duplex
  readable,    \* chunks that can be read from it
  eof,         \* push(null) was called
  flowing,     \* "unset", "on" or "off"
  listener,    \* the application listens for "data"
  ended,       \* "end" was emitted
  destroyed,
  \* history
  alive,       \* FALSE once a use of freed memory has ended the process
  arrived,     \* chunks given to tcp_receive_cb
  out,         \* chunks emitted by the Duplex
  received,    \* bytes that lwIP has received
  early,       \* something arrived before the callbacks were set
  pauses

lwipVars == <<pcb, callbacks, cleared, rcvWnd, arrived, received, early>>
queueVars == <<emitter, notices, mailbox>>
receiverVars == <<writes, held, buffer, finished, receiving>>
duplexVars == <<readable, eof, flowing, listener, ended, destroyed, out>>
vars == <<lwipVars, queueVars, receiverVars, duplexVars, alive, pauses>>

\* A connecting socket has its callbacks from the start; an accepted one gets
\* them on the JavaScript thread.
Init ==
  /\ pcb = "open" /\ callbacks \in {"none", "all"} /\ cleared = FALSE /\ rcvWnd = Wnd
  /\ emitter = <<>> /\ notices = <<>> /\ mailbox = <<>>
  /\ writes = <<>> /\ held = 0 /\ buffer = <<>>
  /\ finished = FALSE /\ receiving = FALSE
  /\ readable = <<>> /\ eof = FALSE /\ flowing = "unset" /\ listener = FALSE
  /\ ended = FALSE /\ destroyed = FALSE
  /\ alive = TRUE /\ arrived = <<>> /\ out = <<>> /\ received = 0
  /\ early = FALSE /\ pauses = 0

\* Bytes in a sequence of chunks.
Bytes(s) == SumFunction(s)

-----------------------------------------------------------------------------
(* Faulty variants of definitions below: each is a mistake that the property *)
(* named with it must notice.                                                *)

\* TypeOK: the ack is one byte short.
AckShort(n) == Append(mailbox, [len |-> n - 1, set |-> ~cleared])

\* NothingLost: a push that returns FALSE is taken for a refusal.
PushedIfAccepted(n) ==
  IF Bytes(readable) + n < ReadMark THEN Append(readable, n) ELSE readable

\* WindowConserved: the length is given to tcp_recved in one piece, which takes
\* 16 bits of it (the line tcp.cc:236 that was commented out).
InOnePiece(n) == n % (AckMax + 1)

\* ImplementsByteSource: the ack does not wait for the write to be done.
NeverHeld(n) == TRUE

\* EndReported: nothing makes the Duplex flow at the FIN.
NeverFlows == FALSE

\* CatchesUp: _read does not resume the receiver.
ReadsNothing(k) == receiving \/ finished

-----------------------------------------------------------------------------
(* The receiver: a PassThrough *)

\* A write is done at once unless the receiver is full.
DoneAtOnce(n) == finished \/ Bytes(buffer) + n < PassMark

\* internalSocket.ack: posts the length and the pcb the socket has.
Ack(n) == Append(mailbox, [len |-> n, set |-> ~cleared])

\* The next chunk written can be read; its window is returned when the write
\* is done.
Transform ==
  /\ held = 0 /\ writes # <<>>
  /\ LET n == Head(writes) IN
     /\ buffer' = Append(buffer, n)
     /\ writes' = Tail(writes)
     /\ \/ DoneAtOnce(n) /\ mailbox' = Ack(n) /\ UNCHANGED held
        \/ ~DoneAtOnce(n) /\ held' = n /\ UNCHANGED mailbox
  /\ UNCHANGED <<lwipVars, emitter, notices, finished, receiving, duplexVars,
                 alive, pauses>>

\* push of the Duplex: FALSE asks for no more.
Accepts(n) == ~destroyed /\ Bytes(readable) + n < ReadMark

Pushed(n) == IF destroyed THEN readable ELSE Append(readable, n)

\* The receiver emits "data": the chunk is pushed, and the receiver paused if
\* that is enough.  Reading it below its mark completes the write it holds.
OnReceiverData ==
  /\ receiving /\ buffer # <<>>
  /\ LET n == Head(buffer)
         done == held > 0 /\ Bytes(buffer) - n < PassMark IN
     /\ buffer' = Tail(buffer)
     /\ held' = IF done THEN 0 ELSE held
     /\ mailbox' = IF done THEN Ack(held) ELSE mailbox
     /\ readable' = Pushed(n)
     /\ receiving' = Accepts(n)
  /\ UNCHANGED <<lwipVars, emitter, notices, writes, finished, eof, flowing,
                 listener, ended, destroyed, out, alive, pauses>>

\* It emits "end" when all it was given has been read: push(null).
ReceiverDrained == receiving /\ finished /\ writes = <<>> /\ buffer = <<>>

OnReceiverEnd ==
  /\ ReceiverDrained /\ ~eof /\ ~destroyed
  /\ eof' = TRUE
  /\ UNCHANGED <<lwipVars, queueVars, receiverVars, readable, flowing, listener,
                 ended, destroyed, out, alive, pauses>>

-----------------------------------------------------------------------------
(* The Duplex *)

\* It calls _read, which resumes the receiver, when it holds k bytes.
Read(k) == receiving \/ (k < ReadMark /\ ~eof /\ ~destroyed)

\* It emits "data" while it flows, whether or not there is a listener.
EmitData ==
  /\ flowing = "on" /\ readable # <<>> /\ ~destroyed
  /\ LET n == Head(readable) IN
     /\ out' = Append(out, n)
     /\ receiving' = Read(Bytes(readable) - n)
  /\ readable' = Tail(readable)
  /\ UNCHANGED <<lwipVars, queueVars, writes, held, buffer, finished, eof,
                 flowing, listener, ended, destroyed, alive, pauses>>

EmitEnd ==
  /\ flowing = "on" /\ eof /\ readable = <<>> /\ ~ended /\ ~destroyed
  /\ ended' = TRUE
  /\ UNCHANGED <<lwipVars, queueVars, receiverVars, readable, eof, flowing,
                 listener, destroyed, out, alive, pauses>>

Tick == Transform \/ OnReceiverData \/ OnReceiverEnd \/ EmitData \/ EmitEnd

\* The next tick has something to do.
Ticking ==
  \/ held = 0 /\ writes # <<>>
  \/ receiving /\ buffer # <<>>
  \/ ReceiverDrained /\ ~eof /\ ~destroyed
  \/ flowing = "on" /\ ~destroyed /\ (readable # <<>> \/ (eof /\ ~ended))

-----------------------------------------------------------------------------
(* The application *)

\* on("data"): the first listener starts the flow, unless it was paused.
Listen ==
  /\ ~listener /\ ~destroyed
  /\ listener' = TRUE
  /\ IF flowing = "unset"
       THEN flowing' = "on" /\ receiving' = Read(Bytes(readable))
       ELSE UNCHANGED <<flowing, receiving>>
  /\ UNCHANGED <<lwipVars, queueVars, writes, held, buffer, finished, readable,
                 eof, ended, destroyed, out, alive, pauses>>

Pause ==
  /\ pauses < MaxPauses /\ flowing # "off" /\ ~destroyed
  /\ pauses' = pauses + 1
  /\ flowing' = "off"
  /\ UNCHANGED <<lwipVars, queueVars, receiverVars, readable, eof, listener,
                 ended, destroyed, out, alive>>

Resume ==
  /\ flowing = "off" /\ ~destroyed
  /\ flowing' = "on"
  /\ receiving' = Read(Bytes(readable))
  /\ UNCHANGED <<lwipVars, queueVars, writes, held, buffer, finished, readable,
                 eof, listener, ended, destroyed, out, alive, pauses>>

\* destroy: nothing tells lwIP.
Destroy ==
  /\ MayBreak /\ ~destroyed
  /\ destroyed' = TRUE
  /\ UNCHANGED <<lwipVars, queueVars, receiverVars, readable, eof, flowing,
                 listener, ended, out, alive, pauses>>

-----------------------------------------------------------------------------
(* Events from the tcpip thread, on the JavaScript thread *)

\* "data" with a chunk: it is written to the receiver.
OnData ==
  /\ ~Ticking /\ emitter # <<>>
  /\ emitter' = Tail(emitter)
  /\ writes' = Append(writes, Head(emitter))
  /\ UNCHANGED <<lwipVars, notices, mailbox, held, buffer, finished, receiving,
                 duplexVars, alive, pauses>>

\* "data" with no chunk: the receiver ends, and if the Duplex holds nothing it
\* is made to flow, so that the end is noticed.
FlowsAtFin == readable = <<>>

OnFin ==
  /\ ~Ticking /\ emitter = <<>> /\ notices # <<>> /\ Head(notices) = "fin"
  /\ notices' = Tail(notices)
  /\ finished' = TRUE
  /\ IF FlowsAtFin
       THEN flowing' = "on" /\ receiving' = Read(0)
       ELSE UNCHANGED <<flowing, receiving>>
  /\ UNCHANGED <<lwipVars, emitter, mailbox, writes, held, buffer, readable, eof,
                 listener, ended, destroyed, out, alive, pauses>>

OnError ==
  /\ ~Ticking /\ emitter = <<>> /\ notices # <<>> /\ Head(notices) = "error"
  /\ notices' = Tail(notices)
  /\ destroyed' = TRUE
  /\ UNCHANGED <<lwipVars, emitter, mailbox, receiverVars, readable, eof, flowing,
                 listener, ended, out, alive, pauses>>

\* Socket::init of an accepted socket, after the connection was handed over:
\* the callback for data first, that for errors last, while lwIP goes on.  The
\* pcb may be freed by then, and the process may not survive its use.
Install ==
  /\ callbacks = "none"
  /\ callbacks' = "recv"
  /\ alive' \in IF pcb = "freed" THEN BOOLEAN ELSE {TRUE}
  /\ UNCHANGED <<pcb, cleared, rcvWnd, arrived, received, early, queueVars,
                 receiverVars, duplexVars, pauses>>

Initialised ==
  /\ callbacks = "recv"
  /\ callbacks' = "all"
  /\ alive' \in IF pcb = "freed" THEN BOOLEAN ELSE {TRUE}
  /\ UNCHANGED <<pcb, cleared, rcvWnd, arrived, received, early, queueVars,
                 receiverVars, duplexVars, pauses>>

-----------------------------------------------------------------------------
(* tcpip thread *)

\* lwIP receives n bytes: tcp_receive_cb, or tcp_recv_null, which returns the
\* window and drops them, if that callback is not set.
Segment(n) ==
  /\ pcb = "open" /\ n <= rcvWnd
  /\ received' = received + n
  /\ \/ /\ callbacks # "none"
        /\ rcvWnd' = rcvWnd - n
        /\ emitter' = Append(emitter, n)
        /\ arrived' = Append(arrived, n)
        /\ UNCHANGED early
     \/ /\ callbacks = "none"
        /\ early' = TRUE
        /\ UNCHANGED <<rcvWnd, emitter, arrived>>
  /\ UNCHANGED <<pcb, callbacks, cleared, notices, mailbox, receiverVars, duplexVars,
                 alive, pauses>>

\* What tells JavaScript that the connection is over, if the callback is set.
Notice(what, told) ==
  /\ notices' = IF told THEN Append(notices, what) ELSE notices
  /\ early' = (early \/ ~told)
  /\ UNCHANGED <<callbacks, rcvWnd, arrived, received, emitter, mailbox,
                 receiverVars, duplexVars, alive, pauses>>

\* The peer closes: tcp_receive_cb with no pbuf.
PeerFin ==
  /\ pcb = "open" /\ pcb' = "fin"
  /\ Notice("fin", callbacks # "none") /\ UNCHANGED cleared

\* A reset or a timeout: the pcb is freed, and tcp_err_cb clears that of the
\* socket.
PeerReset ==
  /\ MayBreak /\ pcb # "freed" /\ pcb' = "freed"
  /\ Notice("error", callbacks = "all") /\ cleared' = (callbacks = "all")

\* The loop of Socket::ack: what tcp_recved is given of the bytes remaining.
Loop[remaining \in Nat] ==
  LET recved == IF remaining > AckMax THEN AckMax ELSE remaining IN
  IF remaining = recved THEN recved ELSE recved + Loop[remaining - recved]

Recved(length) == Loop[length]

\* tcp_recved: the window does not grow beyond its size.
AfterRecved(n) == IF rcvWnd + n > Wnd THEN Wnd ELSE rcvWnd + n

\* The function of ack.  A pcb that was set when it was posted and is freed
\* now is used all the same: the process may or may not survive that.
RunAck ==
  /\ mailbox # <<>>
  /\ mailbox' = Tail(mailbox)
  /\ LET ack == Head(mailbox) IN
     /\ rcvWnd' = IF ack.set /\ pcb # "freed" THEN AfterRecved(Recved(ack.len))
                                              ELSE rcvWnd
     /\ alive' \in IF ack.set /\ pcb = "freed" THEN BOOLEAN ELSE {TRUE}
  /\ UNCHANGED <<pcb, callbacks, cleared, arrived, received, early, emitter, notices,
                 receiverVars, duplexVars, pauses>>

-----------------------------------------------------------------------------
Application == Listen \/ Pause \/ Resume \/ Destroy
Events == OnData \/ OnFin \/ OnError

\* The JavaScript thread does nothing else until Socket::init returns.
JavaScript == callbacks # "recv" /\ (Tick \/ Application \/ Events)

\* All but what the peer sends.
Local == alive /\ (JavaScript \/ Install \/ Initialised \/ RunAck)

Next ==
  \/ Local
  \/ alive /\ \E n \in SegLens : received + n <= MaxBytes /\ Segment(n)
  \/ alive /\ (PeerFin \/ PeerReset)

Spec == Init /\ [][Next]_vars

\* Both threads serve their queues, the streams of Node.js run, and an
\* application that pauses resumes; whether it listens is left to it.
Serves ==
  /\ WF_vars(alive /\ callbacks # "recv" /\ Tick)
  /\ WF_vars(alive /\ callbacks # "recv" /\ Events)
  /\ WF_vars(alive /\ callbacks # "recv" /\ Resume)
  /\ WF_vars(alive /\ RunAck) /\ WF_vars(alive /\ (Install \/ Initialised))

FairSpec == Spec /\ Serves
-----------------------------------------------------------------------------
(* Properties *)

\* Type invariant.
Chunks == Seq(Nat \ {0})
TypeOK ==
  /\ pcb \in {"open", "fin", "freed"} /\ callbacks \in {"none", "recv", "all"}
  /\ cleared \in BOOLEAN
  /\ rcvWnd \in 0..Wnd /\ received \in Nat
  /\ emitter \in Chunks /\ notices \in Seq({"fin", "error"})
  /\ mailbox \in Seq([len : Nat \ {0}, set : BOOLEAN])
  /\ writes \in Chunks /\ held \in Nat /\ buffer \in Chunks
  /\ finished \in BOOLEAN /\ receiving \in BOOLEAN
  /\ readable \in Chunks /\ eof \in BOOLEAN
  /\ flowing \in {"unset", "on", "off"} /\ listener \in BOOLEAN
  /\ ended \in BOOLEAN /\ destroyed \in BOOLEAN
  /\ alive \in BOOLEAN /\ arrived \in Chunks /\ out \in Chunks
  /\ early \in BOOLEAN /\ pauses \in 0..MaxPauses

\* What tcp_receive_cb was given has been emitted or is in one of the four
\* queues on the way, in order.
InOrder ==
  ~destroyed => arrived = out \o (readable \o (buffer \o (writes \o emitter)))

\* "end" is emitted after everything that arrived.
EndAfterAll == ended => out = arrived

\* Until it is destroyed the Socket loses, repeats and reorders nothing, although
\* every push may pause the receiver and every FIN finds data on the way
\* (net.ts:228-268).
NothingLost == InOrder /\ EndAfterAll

\* While the connection lasts, each byte of the window is free, or held by a
\* chunk whose write is not done, or on its way back (net.ts:233-236).
InTransit ==
  Bytes(emitter) + Bytes(writes) + held
  + Bytes([i \in DOMAIN mailbox |-> mailbox[i].len])
WindowConserved == pcb # "freed" => rcvWnd + InTransit = Wnd

\* The end that the peer announced is reported, even to an application that
\* never listens for data (net.ts:240).
EndReported ==
  pcb = "fin" /\ ~early ~> ended \/ destroyed \/ ~alive

=============================================================================
