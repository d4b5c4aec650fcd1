------------------------------ MODULE TcpClose ------------------------------
(***************************************************************************)
(* The life of one net.Socket: connect with its retries, shutdown, the     *)
(* closing handshake, errors and destroy.  _connect, _final and the        *)
(* listeners of src/module/net.ts run on the JavaScript thread; the        *)
(* functions that the methods of src/native/tcp.cc post and its callbacks  *)
(* on the tcpip thread, between the states of lwIP's pcb.                  *)
(*                                                                         *)
(* The pcb is freed by lwIP and the emitter by Socket::emit_close and      *)
(* tcp_err_cb, while functions that use them are posted: a use after that  *)
(* ends the process, or may.  The variable met collects circumstances that *)
(* come before such a use and need not lead to one: what is asked is       *)
(* whether they are all there are.                                         *)
(*                                                                         *)
(* Of the bytes that are read and written, which are in TcpReceive and     *)
(* TcpSend, one chunk each way is followed to the uses of the pcb.         *)
(***************************************************************************)
EXTENDS Naturals, Sequences, Functions

CONSTANTS
  Attempts,     \* the retries of a connect: 120
  MaxConnects,  \* bound: calls of connect
  Origins       \* where the sockets considered come from

ASSUME CloseAssumption ==
  /\ Attempts \in Nat /\ MaxConnects \in Nat
  /\ Origins \subseteq {"client", "accepted", "dropped"}

VARIABLES
  \* how the socket came to be: made by the application, accepted by a server,
  \* or accepted and dropped for its maxConnections
  origin, allowHalfOpen,
  \* JavaScript thread
  connected,
  waiting,     \* retries left to each "connect_error" listener
  timers,      \* retries left to each attempt that waits for its timer
  wr,          \* write side: "open", "ending", "finishing" in _final, "finished"
  write,       \* the chunk in _write: "none", "due" once an event lets it be sent,
               \* "posted" to lwIP, "taken" with the result on its way
  rd,          \* read side: "open", "fin" once the receiver has ended, "ended"
  unread,      \* a chunk in the receiver has not been acknowledged
  destroyed,   \* "close" has been emitted too
  \* queues between the threads
  emitter, mailbox,
  \* tcpip thread
  field,       \* Socket::pcb: "null" or "set"
  emit,        \* Socket::emit: "unset" (uninitialised), "set" or "null"
  callbacks,   \* of the pcb: "none", "recv" while Socket::init sets them, "all"
  tcp,         \* state of the pcb
  \* history
  alive,       \* FALSE once a wrong use of memory has ended the process
  wrote,           \* something was given to lwIP to send
  gotFin, sentFin, \* the FIN of the peer has arrived, ours was given to lwIP
  connects,    \* calls of connect
  met          \* circumstances: see below

setup == <<origin, allowHalfOpen>>
jsVars == <<connected, waiting, timers, wr, rd, unread, destroyed>>
nativeVars == <<field, emit, callbacks, tcp, wrote, gotFin, sentFin>>
vars == <<setup, jsVars, write, emitter, mailbox, nativeVars, alive, connects, met>>

\* Circumstances after which the process may end: a connection that was
\* dropped; setNoDelay before there is a pcb; connect again, after it failed or
\* while it is going on; a FIN with data after ours; a pcb that lwIP frees while
\* a function that will use it is posted, or before Socket::init is over; a
\* method that is called after lwIP has freed the pcb it is about.
Fatal == {"dropped", "noDelay", "reconnect", "dataFin", "overtaken", "late"}

\* Circumstances in which the socket is not closed by the closing handshake: FINs
\* that cross; an end before the connection is made; a destroy; a FIN or a
\* reset before the callbacks are set.
Unclosed == {"crossing", "endFirst", "destroy", "early"}

\* They are collected until a fatal one is met.
Meet(which) == met' = IF met \cap Fatal = {} THEN met \cup which ELSE met

Init ==
  /\ origin \in Origins
  /\ allowHalfOpen \in IF origin = "client" THEN BOOLEAN ELSE {FALSE}
  /\ connected = FALSE /\ waiting = <<>> /\ timers = <<>>
  /\ wr = "open" /\ write = "none" /\ rd = "open" /\ unread = FALSE
  /\ destroyed = FALSE
  /\ emitter = <<>> /\ mailbox = <<>>
  /\ field = "null" /\ callbacks = "none" /\ wrote = FALSE
  /\ emit = IF origin = "client" THEN "set" ELSE "unset"
  /\ tcp = IF origin = "client" THEN "none" ELSE "established"
  /\ alive = TRUE /\ gotFin = FALSE /\ sentFin = FALSE
  /\ connects = 0 /\ met = {}

\* The last events of a socket, after which its emitter is released.
Final == {"close", "error"}

\* There is a Socket that the application knows.
Known == origin = "client" \/ (origin = "accepted" /\ callbacks # "none")

-----------------------------------------------------------------------------
(* Faulty variants of definitions below: each is a mistake that the property *)
(* named with it must notice.                                                *)

\* TypeOK: the retries left are not looked at.
RetriesForEver(err, attempts) == err = "noRoute"

\* ConnectSettles: the last retry ends in silence.
GivesUpIfFailed(err, attempts) == err = "failed"

\* NeverCrashes: the emitter is released at the FIN of the peer.
ClosesAtFin(state) == state \in {"timeWait", "closeWait"}

\* FinishMeansOver: _final does not wait for the native socket.
NeverWaits == "finished"

\* CloseReported: the write side stays open after "end".
StaysOpen == wr

-----------------------------------------------------------------------------
(* Uses of the emitter, on the tcpip thread *)

\* The callbacks queue these events, in turn.  Each needs an emitter that has
\* not been released; an uninitialised one may be anything.
Emit(events) ==
  LET last == {i \in DOMAIN events : events[i] \in Final} IN
  \/ events = <<>> /\ UNCHANGED <<emitter, emit, alive>>
  \/ /\ events # <<>> /\ emit = "set"
     /\ emitter' = emitter \o events
     /\ emit' = IF last = {} THEN "set" ELSE "null"
     /\ alive' = (last \subseteq {Len(events)})
  \/ /\ events # <<>> /\ emit # "set"
     /\ alive' \in IF emit = "null" THEN {FALSE} ELSE BOOLEAN
     /\ UNCHANGED <<emitter, emit>>

-----------------------------------------------------------------------------
(* Uses of the pcb: functions posted by JavaScript *)

\* A function that uses a pcb which has been freed.
Stale == alive' \in BOOLEAN

\* It was given the pcb when it was posted.
UseGiven ==
  IF Head(mailbox).pcb = "set" /\ tcp = "freed" THEN Stale ELSE UNCHANGED alive

\* Functions that will use a pcb: send the one that is in the field when it runs,
\* the others the one they were given.
Uses(message) ==
  message.op = "send" \/ (message.op # "connect" /\ message.pcb = "set")

\* lwIP frees the pcb before such a function or Socket::init has used it.
Overtaken ==
  IF \/ \E i \in DOMAIN mailbox : Uses(mailbox[i])
     \/ origin # "client" /\ callbacks # "all"
    THEN {"overtaken"} ELSE {}

Post(op) == mailbox' = Append(mailbox, [op |-> op, pcb |-> field])

\* A method posts such a function, perhaps too late.
Late(op) == IF tcp = "freed" /\ (op = "send" \/ field = "set") THEN {"late"} ELSE {}
Call(op, circumstances) == Post(op) /\ Meet(circumstances \cup Late(op))

-----------------------------------------------------------------------------
(* JavaScript thread: the application *)

\* Bound: after a second connect no further write, chunk or setNoDelay.
Once == connects <= 1

\* _connect: a listener for its failure, and the native connect.
PostConnect(attempts) ==
  /\ waiting' = Append(waiting, attempts) /\ Post("connect")

Connect ==
  /\ Known /\ ~connected /\ connects < MaxConnects
  /\ connects' = connects + 1
  /\ Meet(IF connects = 0 THEN {} ELSE {"reconnect"})
  /\ PostConnect(Attempts)
  /\ UNCHANGED <<setup, connected, timers, wr, rd, unread, destroyed, write,
                 emitter, nativeVars, alive>>

\* The timer of a retry: whatever has happened since, it connects.
Retry ==
  /\ timers # <<>>
  /\ timers' = Tail(timers)
  /\ PostConnect(Head(timers) - 1)
  /\ UNCHANGED <<setup, connected, wr, rd, unread, destroyed, write, emitter,
                 nativeVars, alive, connects, met>>

End ==
  /\ Known /\ wr = "open" /\ ~destroyed
  /\ wr' = "ending"
  /\ UNCHANGED <<setup, connected, waiting, timers, rd, unread, destroyed, write,
                 emitter, mailbox, nativeVars, alive, connects, met>>

\* _write: before the connection is made it waits for "connect", else realWrite.
Write ==
  /\ Once /\ Known /\ wr = "open" /\ ~destroyed /\ write = "none"
  /\ \/ connected /\ write' = "posted" /\ Call("send", {})
     \/ ~connected /\ write' = "due" /\ UNCHANGED <<mailbox, met>>
  /\ UNCHANGED <<setup, jsVars, emitter, nativeVars, alive, connects>>

\* The result of send: the chunk is written; or the rest goes on at once, if
\* something was acknowledged meanwhile, or else after the next "sent".
OnSendResult ==
  /\ write = "taken"
  /\ \/ write' \in {"none", "due"} /\ UNCHANGED <<mailbox, met>>
     \/ write' = "posted" /\ Call("send", {})
  /\ UNCHANGED <<setup, jsVars, emitter, nativeVars, alive, connects>>

\* The receiver passes a chunk on: its length is acknowledged.
Ack ==
  /\ unread /\ unread' = FALSE
  /\ Call("ack", {})
  /\ UNCHANGED <<setup, connected, waiting, timers, wr, rd, destroyed, write, emitter,
                 nativeVars, alive, connects>>

\* _final, when all writes are done.  Of a connected socket it waits for the
\* "close" of the native one.
AfterFinal == IF connected THEN "finishing" ELSE "finished"

_final ==
  /\ wr = "ending" /\ write = "none" /\ ~destroyed
  /\ wr' = AfterFinal
  /\ Call("shutdown", IF connected THEN {} ELSE {"endFirst"})
  /\ UNCHANGED <<setup, connected, waiting, timers, rd, unread, destroyed, write,
                 emitter, nativeVars, alive, connects>>

\* nagle reads the pcb of the socket.
SetNoDelay ==
  /\ Once /\ Known
  /\ \A i \in DOMAIN mailbox : mailbox[i].op # "nagle"   \* bound: one posted
  /\ Call("nagle", IF field = "null" THEN {"noDelay"} ELSE {})
  /\ UNCHANGED <<setup, jsVars, write, emitter, nativeVars, alive, connects>>

\* destroy: there is no _destroy, nothing is posted.
Destroy ==
  /\ Known /\ ~destroyed
  /\ destroyed' = TRUE
  /\ Meet({"destroy"})
  /\ UNCHANGED <<setup, connected, waiting, timers, wr, rd, unread, write, emitter,
                 mailbox, nativeVars, alive, connects>>

\* "end" is emitted once all data is read, and acknowledged; unless half-open
\* connections are allowed, the Duplex ends its write side too.
AutoEnd == IF wr = "open" /\ ~allowHalfOpen THEN "ending" ELSE wr

ReadEnd ==
  /\ rd = "fin" /\ ~unread /\ ~destroyed
  /\ rd' = "ended"
  /\ wr' = AutoEnd
  /\ UNCHANGED <<setup, connected, waiting, timers, unread, destroyed, write,
                 emitter, mailbox, nativeVars, alive, connects, met>>

\* Both sides of the Duplex have ended: it destroys itself.
AutoDestroy ==
  /\ rd = "ended" /\ wr = "finished" /\ ~destroyed
  /\ destroyed' = TRUE
  /\ UNCHANGED <<setup, connected, waiting, timers, wr, rd, unread, write, emitter,
                 mailbox, nativeVars, alive, connects, met>>

-----------------------------------------------------------------------------
(* JavaScript thread: events of the native socket *)

NextEvent(event) ==
  emitter # <<>> /\ Head(emitter) = event /\ emitter' = Tail(emitter)

\* A write waits for it.
OnConnect ==
  /\ NextEvent("connect")
  /\ connected' = TRUE
  /\ IF write = "due" THEN write' = "posted" /\ Call("send", {})
                      ELSE UNCHANGED <<write, mailbox, met>>
  /\ UNCHANGED <<setup, waiting, timers, wr, rd, unread, destroyed, nativeVars,
                 alive, connects>>

\* "sent": the rest of a chunk may wait for it.
OnSent ==
  /\ NextEvent("sent")
  /\ IF write = "due" THEN write' = "posted" /\ Call("send", {})
                      ELSE UNCHANGED <<write, mailbox, met>>
  /\ UNCHANGED <<setup, jsVars, nativeVars, alive, connects>>

\* Every listener for a failure: it waits to try again if there was no route
\* and retries are left, and destroys the socket if not.
Retries(err, attempts) == err = "noRoute" /\ attempts > 0
GivesUp(err, attempts) == ~Retries(err, attempts)

Retrying(err) ==
  LET upTo[n \in 0..Len(waiting)] ==
        IF n = 0 THEN <<>>
        ELSE IF Retries(err, waiting[n]) THEN Append(upTo[n - 1], waiting[n])
        ELSE upTo[n - 1]
  IN  upTo[Len(waiting)]

OnConnectError(err) ==
  /\ NextEvent(err)
  /\ timers' = timers \o Retrying(err)
  /\ waiting' = <<>>
  /\ destroyed' = (destroyed \/ \E i \in DOMAIN waiting : GivesUp(err, waiting[i]))
  /\ UNCHANGED <<setup, connected, wr, rd, unread, write, mailbox, nativeVars,
                 alive, connects, met>>

\* "data" without a chunk: the receiver ends.
OnFin ==
  /\ NextEvent("fin")
  /\ rd' = "fin"
  /\ UNCHANGED <<setup, connected, waiting, timers, wr, unread, destroyed, write,
                 mailbox, nativeVars, alive, connects, met>>

\* "data" with a chunk: the receiver has it.
OnData ==
  /\ NextEvent("data")
  /\ unread' = TRUE
  /\ UNCHANGED <<setup, connected, waiting, timers, wr, rd, destroyed, write, mailbox,
                 nativeVars, alive, connects, met>>

\* The callback of _final, if it waits.
OnClose ==
  /\ NextEvent("close")
  /\ wr' = IF wr = "finishing" THEN "finished" ELSE wr
  /\ UNCHANGED <<setup, connected, waiting, timers, rd, unread, destroyed, write,
                 mailbox, nativeVars, alive, connects, met>>

OnError ==
  /\ NextEvent("error")
  /\ destroyed' = TRUE
  /\ UNCHANGED <<setup, connected, waiting, timers, wr, rd, unread, write, mailbox,
                 nativeVars, alive, connects, met>>

\* The function queued by accept_cb: the native socket gets its pcb, the
\* server makes a Socket with an emitter or drops the connection, and
\* Socket::init sets the callbacks for data and acknowledgements.  The pcb may
\* have been freed already.
OnAccepted ==
  /\ origin # "client" /\ callbacks = "none"
  /\ callbacks' = "recv" /\ field' = "set"
  /\ \/ origin = "accepted" /\ connected' = TRUE /\ emit' = "set"
     \/ origin = "dropped" /\ UNCHANGED <<connected, emit>>
  /\ IF tcp = "freed" THEN Stale ELSE UNCHANGED alive
  /\ Meet({"dropped"} \cap {origin})
  /\ UNCHANGED <<setup, waiting, timers, wr, rd, unread, destroyed, write, emitter,
                 mailbox, tcp, wrote, gotFin, sentFin, connects>>

\* It goes on: the callback for errors, and tcp_backlog_accepted is posted.
Initialised ==
  /\ callbacks = "recv"
  /\ callbacks' = "all" /\ Post("accepted")
  /\ IF tcp = "freed" THEN Stale ELSE UNCHANGED alive
  /\ UNCHANGED <<setup, jsVars, write, emitter, field, emit, tcp, wrote, gotFin,
                 sentFin, connects, met>>

-----------------------------------------------------------------------------
(* tcpip thread: functions posted by JavaScript *)

Take(op) == mailbox # <<>> /\ Head(mailbox).op = op /\ mailbox' = Tail(mailbox)

\* connect: a new pcb if there is none.  tcp_connect fails without a route, for
\* other reasons, or because the pcb is in use.
RunConnect ==
  /\ Take("connect")
  /\ field' = "set" /\ callbacks' = "all"
  /\ \/ /\ field = "null" \/ tcp = "closed"
        /\ \/ tcp' = "synSent" /\ Emit(<<>>)
           \/ tcp' = "closed" /\ \E err \in {"noRoute", "failed"} : Emit(<<err>>)
     \/ /\ field = "set" /\ tcp \notin {"closed", "freed"}
        /\ Emit(<<"failed">>) /\ UNCHANGED tcp
     \/ /\ field = "set" /\ tcp = "freed"
        /\ Stale /\ UNCHANGED <<tcp, emit, emitter>>
  /\ UNCHANGED <<setup, jsVars, write, wrote, gotFin, sentFin, connects, met>>

\* tcp_shutdown sends a FIN in two states, and refuses in all others.
AfterShutdown ==
  CASE tcp = "established" -> "finWait1"
    [] tcp = "closeWait" -> "lastAck"
    [] OTHER -> tcp

RunShutdown ==
  /\ Take("shutdown")
  /\ UseGiven
  /\ IF Head(mailbox).pcb = "set"
       THEN tcp' = AfterShutdown /\ sentFin' = (sentFin \/ tcp' # tcp)
       ELSE UNCHANGED <<tcp, sentFin>>
  /\ UNCHANGED <<setup, jsVars, write, emitter, field, emit, callbacks, wrote, gotFin,
                 connects, met>>

\* tcp_nagle_disable writes to the pcb it is given.
RunNagle ==
  /\ Take("nagle")
  /\ IF Head(mailbox).pcb = "null" THEN alive' = FALSE ELSE UseGiven
  /\ UNCHANGED <<setup, jsVars, write, emitter, nativeVars, connects, met>>

\* tcp_recved refuses a null pcb.
RunAck ==
  /\ Take("ack") /\ UseGiven
  /\ UNCHANGED <<setup, jsVars, write, emitter, nativeVars, connects, met>>

\* tcp_backlog_accepted.
RunAccepted ==
  /\ Take("accepted") /\ UseGiven
  /\ UNCHANGED <<setup, jsVars, write, emitter, nativeVars, connects, met>>

\* send reads the field: tcp_sndbuf of a null pcb is a read through null.
RunSend ==
  /\ Take("send")
  /\ write' = "taken" /\ wrote' = TRUE
  /\ IF field = "null" THEN alive' = FALSE
     ELSE IF tcp = "freed" THEN Stale ELSE UNCHANGED alive
  /\ UNCHANGED <<setup, jsVars, emitter, field, emit, callbacks, tcp, gotFin, sentFin,
                 connects, met>>

-----------------------------------------------------------------------------
(* tcpip thread: lwIP *)

\* The handshake of a connect: the lambda given to tcp_connect.
Handshake ==
  /\ tcp = "synSent"
  /\ tcp' = "established"
  /\ Emit(<<"connect">>)
  /\ UNCHANGED <<setup, jsVars, write, mailbox, field, callbacks, wrote, gotFin,
                 sentFin, connects, met>>

\* Data of the peer, once there is a callback: tcp_receive_cb.
NoData ==   \* bound: one chunk on its way to its acknowledgement
  /\ "data" \notin Range(emitter) /\ ~unread
  /\ \A i \in DOMAIN mailbox : mailbox[i].op # "ack"

PeerData ==
  /\ tcp \in {"established", "finWait1", "finWait2"} /\ callbacks # "none"
  /\ Once /\ NoData
  /\ Emit(<<"data">>)
  /\ UNCHANGED <<setup, jsVars, write, mailbox, field, callbacks, tcp, wrote, gotFin,
                 sentFin, connects, met>>

\* The peer acknowledges data: tcp_sent_cb.
PeerAck ==
  /\ tcp \in {"established", "finWait1", "closing", "closeWait", "lastAck"}
  /\ wrote /\ "sent" \notin Range(emitter)   \* bound: one queued
  /\ Emit(<<"sent">>)
  /\ UNCHANGED <<setup, jsVars, write, mailbox, field, callbacks, tcp, wrote, gotFin,
                 sentFin, connects, met>>

\* tcp_receive_cb: in TIME_WAIT both sides have closed.
ClosesIn(state) == state = "timeWait"
Received(event) == <<event>> \o (IF ClosesIn(tcp') THEN <<"close">> ELSE <<>>)

\* The FIN of the peer, alone or with data.  In FIN_WAIT_1 it may acknowledge
\* ours.  Without callbacks lwIP closes the connection, in LAST_ACK, and will
\* not report that.
PeerFin ==
  /\ \/ /\ tcp = "established"
        /\ tcp' = IF callbacks # "none" THEN "closeWait" ELSE "closedByLwip"
     \/ tcp = "finWait1" /\ tcp' \in {"closing", "timeWait"}
     \/ tcp = "finWait2" /\ tcp' = "timeWait"
  /\ gotFin' = TRUE /\ sentFin' = (sentFin \/ callbacks = "none")
  /\ \E withData \in {d \in BOOLEAN : d => NoData} :
       /\ Emit(IF callbacks = "none" THEN <<>>
               ELSE IF withData THEN Received("data") \o Received("fin")
               ELSE Received("fin"))
       /\ Meet({c \in {"dataFin", "crossing", "early"} :
                  CASE c = "dataFin" -> withData /\ tcp' = "timeWait"
                    [] c = "crossing" -> tcp' = "closing"
                    [] c = "early" -> callbacks = "none"})
  /\ UNCHANGED <<setup, jsVars, write, mailbox, field, callbacks, wrote, connects>>

\* tcp_err_cb, if it is set: the pcb is gone.
PcbGone(event) ==
  /\ tcp' = "freed"
  /\ IF callbacks = "all"
       THEN field' = "null" /\ Emit(<<event>>) /\ Meet(Overtaken)
       ELSE UNCHANGED <<field, emit, emitter, alive>> /\ Meet(Overtaken \cup {"early"})
  /\ UNCHANGED <<setup, jsVars, write, mailbox, callbacks, wrote, gotFin, sentFin,
                 connects>>

\* The peer acknowledges our FIN.
FinAcked ==
  \/ /\ \/ tcp = "finWait1" /\ tcp' = "finWait2" /\ UNCHANGED met
        \/ tcp = "closing" /\ tcp' = "timeWait" /\ UNCHANGED met
        \/ tcp = "closedByLwip" /\ tcp' = "freed" /\ Meet(Overtaken)
     /\ UNCHANGED <<setup, jsVars, write, emitter, mailbox, field, emit, callbacks,
                    wrote, gotFin, sentFin, alive, connects>>
  \/ tcp = "lastAck" /\ PcbGone("close")

\* A reset, or lwIP gives up.
Reset ==
  /\ tcp \in {"synSent", "established", "finWait1", "finWait2", "closing",
              "closeWait", "lastAck", "closedByLwip"}
  /\ PcbGone("error")

\* TIME_WAIT is over: lwIP frees the pcb and calls nothing.
TimeWaitOver ==
  /\ tcp = "timeWait"
  /\ tcp' = "freed" /\ Meet(Overtaken)
  /\ UNCHANGED <<setup, jsVars, write, emitter, mailbox, field, emit, callbacks, wrote,
                 gotFin, sentFin, alive, connects>>

-----------------------------------------------------------------------------
Application == Connect \/ Write \/ End \/ SetNoDelay \/ Destroy
Stream == OnSendResult \/ Ack \/ _final \/ ReadEnd \/ AutoDestroy
Events ==
  \/ OnConnect \/ OnConnectError("noRoute") \/ OnConnectError("failed")
  \/ OnFin \/ OnData \/ OnSent \/ OnClose \/ OnError
Accepting == OnAccepted \/ Initialised
Posted ==
  RunConnect \/ RunShutdown \/ RunNagle \/ RunAck \/ RunAccepted \/ RunSend
Network ==
  \/ Handshake \/ PeerData \/ PeerAck \/ PeerFin
  \/ FinAcked \/ Reset \/ TimeWaitOver

\* The function queued by accept_cb runs to its end before any other of the
\* JavaScript thread.
JavaScript == callbacks # "recv" /\ (Application \/ Retry \/ Stream \/ Events)

Next == alive /\ (JavaScript \/ Accepting \/ Posted \/ Network)

Spec == Init /\ [][Next]_vars

\* Timers, streams and threads run, and lwIP retransmits until the peer answers
\* or it gives up.  Nothing makes the peer send a FIN or a reset.  A chunk does
\* not go to lwIP in parts for ever, and the rest of one that waits is let go by
\* an acknowledgement.
FairSpec ==
  /\ Spec
  /\ WF_vars(alive /\ Retry)
  /\ WF_vars(alive /\ _final) /\ WF_vars(alive /\ ReadEnd)
  /\ WF_vars(alive /\ AutoDestroy) /\ WF_vars(alive /\ Ack)
  /\ WF_vars(alive /\ OnSendResult) /\ SF_vars(alive /\ OnSendResult /\ write' = "none")
  /\ WF_vars(alive /\ Events) /\ WF_vars(alive /\ Accepting)
  /\ WF_vars(alive /\ Posted)
  /\ WF_vars(alive /\ tcp = "synSent" /\ (Handshake \/ Reset))
  /\ WF_vars(alive /\ FinAcked) /\ WF_vars(alive /\ write = "due" /\ PeerAck)

-----------------------------------------------------------------------------
(* Properties *)

\* Type invariant.
TypeOK ==
  /\ origin \in Origins /\ allowHalfOpen \in BOOLEAN
  /\ connected \in BOOLEAN /\ destroyed \in BOOLEAN
  /\ waiting \in Seq(0..Attempts) /\ timers \in Seq(1..Attempts)
  /\ wr \in {"open", "ending", "finishing", "finished"}
  /\ rd \in {"open", "fin", "ended"}
  /\ write \in {"none", "due", "posted", "taken"} /\ unread \in BOOLEAN
  /\ emitter \in Seq({"connect", "noRoute", "failed", "data", "sent", "fin"} \cup Final)
  /\ mailbox \in Seq([op : {"connect", "shutdown", "nagle", "ack", "accepted", "send"},
                      pcb : {"null", "set"}])
  /\ field \in {"null", "set"} /\ emit \in {"unset", "set", "null"}
  /\ callbacks \in {"none", "recv", "all"} /\ wrote \in BOOLEAN
  /\ tcp \in {"none", "closed", "synSent", "established", "finWait1", "finWait2",
              "closing", "timeWait", "closeWait", "lastAck", "closedByLwip",
              "freed"}
  /\ alive \in BOOLEAN /\ gotFin \in BOOLEAN /\ sentFin \in BOOLEAN
  /\ connects \in 0..MaxConnects /\ met \subseteq Fatal \cup Unclosed

\* No callback uses an emitter that was released or never made, and no function
\* a pcb that is null or freed, unless one of these circumstances came before
\* (tcp.cc:64, 96, 104, 126, 139, 156, 162, 181, 188, 206, 233, 242 and 326 use
\* them unchecked).
NeverCrashes ==
  met \cap Fatal = {} => alive

\* "finish" is not emitted before both sides have closed (net.ts:321), unless
\* the write side was ended before a connection was made.
FinishMeansOver ==
  wr = "finished" /\ met \cap (Fatal \cup {"endFirst"}) = {} =>
    gotFin /\ sentFin /\ tcp \in {"timeWait", "freed"}

\* Once the peer has closed, and the application has or closes by itself, the
\* socket emits "close" and its emitter is released, so that it no longer keeps
\* the process.
Excepted == met # {} \/ ~alive
CloseReported ==
  gotFin /\ (sentFin \/ ~allowHalfOpen) ~> (destroyed /\ emit = "null") \/ Excepted

\* A connect comes to an end: connected, or destroyed after its retries.
ConnectSettles == connects > 0 ~> connected \/ destroyed \/ ~alive

\* The same for FINs that cross: "tx shutdown and FIN received" (tcp.cc:117) is
\* when emit_close is to be called.
BothFinsClose == gotFin /\ sentFin ~> emit = "null" \/ met \ {"crossing"} # {} \/ ~alive
=============================================================================
