----------------------------- MODULE UdpSocket -----------------------------
(***************************************************************************)
(* One dgram socket: class Socket of src/module/dgram.ts on the JavaScript *)
(* thread, class UDP::Socket of src/native/udp.cc on both threads, and the *)
(* queues between them.                                                    *)
(*                                                                         *)
(* The native constructor only posts the creation of the pcb: until that   *)
(* has run the field pcb is uninitialised, and a method that reads it on   *)
(* the JavaScript thread finds anything.  Every asynchronous call has a    *)
(* result function of its own, so results arrive in any order.             *)
(*                                                                         *)
(* lwIP answers a null pcb with an error and binds an unbound pcb that     *)
(* sends or connects.                                                      *)
(***************************************************************************)
EXTENDS Naturals, Sequences, FiniteSets

CONSTANTS
  MaxCalls,      \* bound: asynchronous calls
  MaxDatagrams,  \* bound: datagrams that arrive
  Uses           \* the uses that are considered

ASSUME UdpAssumption ==
  /\ MaxCalls \in Nat /\ MaxDatagrams \in Nat
  /\ Uses \subseteq {"any", "patient"}

VARIABLES
  use,          \* see below; it never changes
  \* JavaScript thread: class Socket of dgram.ts
  bound, connected, closed,
  \* shared: the field UDP::Socket::pcb
  pcb,          \* "unset", "live" or "null"
  \* queues between the threads
  mailbox,      \* functions posted to the tcpip thread
  results,      \* results of calls that JavaScript has not seen
  received,     \* datagrams queued on onRecv
  aborted,      \* onRecv has been aborted
  holds,        \* it keeps the process
  \* lwIP
  native,       \* the pcb: "none", "live" or "removed"
  port,         \* its local port, 0 if unbound
  remote,       \* it is connected
  pbufs,        \* pbufs handed to lwip_recv_cb and not freed
  alive,        \* the process has not crashed
  \* history
  calls, arrived, delivered,
  listenings,   \* times "listening" was emitted
  asked,        \* the application has called ref or unref
  early,        \* close or disconnect read the pcb before it was set
  late,         \* onRecv was referenced or unreferenced after its Abort
  reported      \* "close" has been emitted

jsVars == <<use, bound, connected, closed>>
queueVars == <<mailbox, results, received, aborted, holds>>
lwipVars == <<native, port, remote, pbufs>>
historyVars == <<calls, arrived, delivered, listenings, asked, early, late, reported>>
vars == <<jsVars, pcb, queueVars, lwipVars, alive, historyVars>>

\* The constructor has run: the creation of the pcb is posted.
Init ==
  /\ use \in Uses
  /\ bound = FALSE /\ connected = FALSE /\ closed = FALSE
  /\ pcb = "unset"
  /\ mailbox = <<[op |-> "new"]>>
  /\ results = {} /\ received = 0 /\ aborted = FALSE /\ holds = FALSE
  /\ native = "none" /\ port = 0 /\ remote = FALSE /\ pbufs = 0
  /\ alive = TRUE
  /\ calls = 0 /\ arrived = 0 /\ delivered = 0
  /\ listenings = 0 /\ asked = FALSE /\ early = FALSE /\ late = FALSE
  /\ reported = FALSE

\* A patient application makes one call of bind, connect and disconnect at a
\* time, and disconnects or closes only once the pcb exists.
Patient == use = "patient"

Asynchronous == {"bind", "send", "connect", "close"}

\* Calls of an operation in ops whose promise is not settled.
Pending(ops) ==
  \/ \E i \in DOMAIN mailbox : mailbox[i].op \in ops
  \/ \E r \in results : r.op \in ops

-----------------------------------------------------------------------------
(* Faulty variants of definitions below: each is a mistake that the property *)
(* named with it must notice.                                                *)

\* PbufsAccounted: what is queued at the Abort is not freed.
FreeNone(n) == <<>>

\* NoMessageAfterClose: the result of close does not abort onRecv.
AbortsNever(r) == aborted

\* NeverCrashes: close aborts onRecv before the pcb is removed.
AbortsEarly == TRUE

\* FlagsAgree: a send that failed reports a bind.
EverySendBinds(r) == ~bound

\* PortStays: bind is never refused.
AlwaysUnbound == TRUE

\* FlagsAgree, too: disconnect does not clear the flag.
StaysConnected == connected

\* CloseReported: the removal of the pcb has no result.
NoResultOf(message, good) ==
  IF message.op = "close" THEN results
  ELSE results \cup {[op |-> message.op, ok |-> good, n |-> message.n]}

\* TypeOK: a datagram is queued twice more instead of removed.
CountedTwice == received + 2

-----------------------------------------------------------------------------
(* JavaScript thread *)

\* A method that is not refused because the socket was closed.
Method == alive /\ ~closed /\ calls < MaxCalls

\* typed_tcpip_callback: the n-th call posts a function.
Post(message) == mailbox' = Append(mailbox, message)

MayBind == ~bound

Bind ==
  /\ Method /\ MayBind
  /\ Patient => ~Pending(Asynchronous)
  /\ calls' = calls + 1
  /\ Post([op |-> "bind", n |-> calls'])
  /\ UNCHANGED <<jsVars, pcb, results, received, aborted, holds, lwipVars, alive,
                 arrived, delivered, listenings, asked, early, late, reported>>

\* send to the address given, or, if connected, to the one lwIP has.
Send ==
  /\ Method
  /\ Patient => ~Pending({"bind", "connect"})
  /\ calls' = calls + 1
  /\ Post([op |-> "send", n |-> calls'])
  /\ UNCHANGED <<jsVars, pcb, results, received, aborted, holds, lwipVars, alive,
                 arrived, delivered, listenings, asked, early, late, reported>>

Connect ==
  /\ Method
  /\ Patient => ~Pending(Asynchronous)
  /\ calls' = calls + 1
  /\ Post([op |-> "connect", n |-> calls'])
  /\ UNCHANGED <<jsVars, pcb, results, received, aborted, holds, lwipVars, alive,
                 arrived, delivered, listenings, asked, early, late, reported>>

\* disconnect captures the pcb on the JavaScript thread.
ConnectedAfterDisconnect == FALSE

Disconnect ==
  /\ Method
  /\ Patient => pcb # "unset" /\ ~Pending(Asynchronous)
  /\ early' = (early \/ pcb = "unset")
  /\ calls' = calls + 1
  /\ Post([op |-> "disconnect", n |-> calls', pcb |-> pcb])
  /\ connected' = ConnectedAfterDisconnect
  /\ UNCHANGED <<use, bound, closed, pcb, results, received, aborted, holds,
                 lwipVars, alive, arrived, delivered, listenings, asked, late,
                 reported>>

\* close posts the removal of the pcb and clears the field, or, if that is
\* null, resolves at once and emits "close".  An uninitialised field is
\* either null or a wild pointer.
AbortedByClose == aborted

Close ==
  /\ Method
  /\ Patient => pcb # "unset"
  /\ early' = (early \/ pcb = "unset")
  /\ calls' = calls + 1
  /\ closed' = TRUE
  /\ \/ /\ Post([op |-> "close", n |-> calls', pcb |-> pcb])
        /\ pcb' = "null"
        /\ aborted' = AbortedByClose
        /\ UNCHANGED reported
     \/ /\ pcb = "unset"
        /\ reported' = TRUE
        /\ UNCHANGED <<pcb, mailbox, aborted>>
  /\ UNCHANGED <<use, bound, connected, results, received, holds, lwipVars, alive,
                 arrived, delivered, listenings, asked, late>>

\* The promise of a call is settled and its continuation runs.
SendBinds(r) == r.ok /\ ~bound

EmitsListening(r) ==
  \/ r.op = "bind" /\ r.ok
  \/ r.op = "send" /\ SendBinds(r)

\* Functions that free n pbufs on the tcpip thread.
Frees(n) == [i \in 1..n |-> [op |-> "free"]]

AbortsOnRecv(r) == aborted \/ r.op = "close"

\* onRecv.Ref and Unref.  Neither looks whether the socket is closed, and after
\* an Abort the function may be gone.
SetHolds(value) ==
  /\ holds' = value
  /\ late' = (late \/ aborted)
  /\ alive' \in IF aborted THEN BOOLEAN ELSE {TRUE}

OnResult ==
  /\ alive
  /\ \E r \in results :
       /\ results' = results \ {r}
       /\ bound' = (bound \/ EmitsListening(r))
       /\ listenings' = listenings + (IF EmitsListening(r) THEN 1 ELSE 0)
       /\ IF EmitsListening(r) /\ listenings = 0
            THEN SetHolds(TRUE) ELSE UNCHANGED <<holds, late, alive>>
       /\ connected' = (connected \/ (r.op = "connect" /\ r.ok))
       /\ reported' = (reported \/ r.op = "close")
       /\ aborted' = AbortsOnRecv(r)
       /\ IF aborted'
            THEN mailbox' = mailbox \o Frees(received) /\ received' = 0
            ELSE UNCHANGED <<mailbox, received>>
  /\ UNCHANGED <<use, closed, pcb, lwipVars, calls, arrived, delivered, asked,
                 early>>

\* ref and unref, called by the application.
Ref(value) ==
  /\ alive /\ calls < MaxCalls
  /\ calls' = calls + 1
  /\ asked' = TRUE
  /\ SetHolds(value)
  /\ UNCHANGED <<jsVars, pcb, mailbox, results, received, aborted, lwipVars,
                 arrived, delivered, listenings, early, reported>>

\* tsfnOnRecv: the datagram is copied, its pbuf freed on the tcpip thread, and
\* "message" is emitted.
LeftAfterMessage == received - 1

OnMessage ==
  /\ alive /\ ~aborted /\ received > 0
  /\ received' = LeftAfterMessage
  /\ delivered' = delivered + 1
  /\ Post([op |-> "free"])
  /\ UNCHANGED <<jsVars, pcb, results, aborted, holds, lwipVars, alive, calls,
                 arrived, listenings, asked, early, late, reported>>

-----------------------------------------------------------------------------
(* tcpip thread *)

\* The thread takes the next function, if it is one of op.
Serve(op) ==
  /\ alive
  /\ mailbox # <<>> /\ Head(mailbox).op = op
  /\ mailbox' = Tail(mailbox)

ResultOf(message, good) ==
  results \cup {[op |-> message.op, ok |-> good, n |-> message.n]}

\* The lambda of the constructor.
RunNew ==
  /\ Serve("new")
  /\ pcb' = "live" /\ native' = "live"
  /\ UNCHANGED <<jsVars, results, received, aborted, holds, port, remote, pbufs,
                 alive, historyVars>>

\* The lambda of bind: udp_bind takes a new port or fails.
RunBind ==
  /\ Serve("bind")
  /\ \E ok \in IF pcb = "live" THEN BOOLEAN ELSE {FALSE} :
       /\ port' = IF ok THEN port + 1 ELSE port
       /\ results' = ResultOf(Head(mailbox), ok)
  /\ UNCHANGED <<jsVars, pcb, received, aborted, holds, native, remote, pbufs, alive,
                 historyVars>>

\* The lambdas of send and connect: lwIP binds an unbound pcb first.  A send
\* may fail all the same, a connect not.
RunSendOrConnect(op) ==
  /\ Serve(op)
  /\ \E ok \in IF pcb = "live" THEN BOOLEAN ELSE {FALSE} :
       /\ \/ ok /\ port' = IF port = 0 THEN 1 ELSE port
          \/ ~ok /\ port' \in IF pcb = "live" /\ port = 0 /\ op = "send" THEN {0, 1}
                              ELSE {port}
       /\ remote' = (remote \/ (op = "connect" /\ ok))
       /\ results' = ResultOf(Head(mailbox), ok)
  /\ UNCHANGED <<jsVars, pcb, received, aborted, holds, native, pbufs, alive,
                 historyVars>>

\* The lambda of disconnect, on the pcb that was captured.
RunDisconnect ==
  /\ Serve("disconnect")
  /\ \/ /\ Head(mailbox).pcb = "live"
        /\ remote' = FALSE
        /\ alive' = (native = "live")
     \/ /\ Head(mailbox).pcb = "unset"
        /\ alive' \in BOOLEAN
        /\ UNCHANGED remote
  /\ UNCHANGED <<jsVars, pcb, results, received, aborted, holds, native, port, pbufs,
                 historyVars>>

\* The lambda of close: udp_remove of the pcb that was captured.
RunClose ==
  /\ Serve("close")
  /\ \/ /\ Head(mailbox).pcb = "live"
        /\ native' = "removed"
        /\ alive' = (native = "live")
     \/ /\ Head(mailbox).pcb = "unset"
        /\ alive' \in BOOLEAN
        /\ UNCHANGED native
  /\ results' = ResultOf(Head(mailbox), TRUE)
  /\ UNCHANGED <<jsVars, pcb, received, aborted, holds, port, remote, pbufs,
                 historyVars>>

\* pbuf_free.
RunFree ==
  /\ Serve("free")
  /\ pbufs' = pbufs - 1
  /\ UNCHANGED <<jsVars, pcb, results, received, aborted, holds, native, port, remote,
                 alive, historyVars>>

\* A datagram arrives: lwip_recv_cb queues it on onRecv, whose memory is gone
\* after an Abort.
Datagram ==
  /\ native = "live" /\ port # 0
  /\ arrived < MaxDatagrams
  /\ arrived' = arrived + 1
  /\ pbufs' = pbufs + 1
  /\ received' = received + 1
  /\ alive /\ alive' = ~aborted
  /\ UNCHANGED <<jsVars, pcb, mailbox, results, aborted, holds, native, port,
                 remote, calls, delivered, listenings, asked, early, late, reported>>

-----------------------------------------------------------------------------
Tcpip ==
  \/ RunNew \/ RunBind \/ RunSendOrConnect("send") \/ RunSendOrConnect("connect")
  \/ RunDisconnect \/ RunClose \/ RunFree

\* The process is gone, or nothing is queued to either thread.
Quiescent ==
  /\ ~alive \/ (mailbox = <<>> /\ results = {} /\ received = 0)
  /\ UNCHANGED vars

Next ==
  \/ Bind \/ Send \/ Connect \/ Disconnect \/ Close
  \/ Ref(TRUE) \/ Ref(FALSE)
  \/ OnResult \/ OnMessage
  \/ Tcpip
  \/ Datagram
  \/ Quiescent

Spec == Init /\ [][Next]_vars

\* Both threads serve their queues.
FairSpec == Spec /\ WF_vars(Tcpip) /\ WF_vars(OnResult) /\ WF_vars(OnMessage)

-----------------------------------------------------------------------------
(* Properties *)

\* Type invariant.
Pcb == {"unset", "live", "null"}
Message ==
  [op : {"new", "free"}] \cup [op : {"bind", "send", "connect"}, n : 1..MaxCalls]
  \cup [op : {"disconnect", "close"}, n : 1..MaxCalls, pcb : Pcb]
TypeOK ==
  /\ use \in Uses
  /\ {bound, connected, closed, aborted, holds, remote, alive, asked, early, late,
      reported} \subseteq BOOLEAN
  /\ pcb \in Pcb
  /\ mailbox \in Seq(Message)
  /\ results \subseteq [op : Asynchronous, ok : BOOLEAN, n : 1..MaxCalls]
  /\ received \in 0..MaxDatagrams /\ pbufs \in 0..MaxDatagrams
  /\ native \in {"none", "live", "removed"}
  /\ port \in Nat
  /\ calls \in 0..MaxCalls
  /\ arrived \in 0..MaxDatagrams /\ delivered \in 0..MaxDatagrams
  /\ listenings \in Nat

\* Every pbuf lwIP handed over is queued for JavaScript or for its free, also
\* when onRecv is aborted with datagrams queued (udp.cc:92).
PbufsAccounted ==
  pbufs = received + Cardinality({i \in DOMAIN mailbox : mailbox[i].op = "free"})

\* Unless the pcb was read too early, no "message" is emitted after "close"
\* (udp.cc:211 aborts onRecv first).
NoMessageAfterClose == [][~early /\ reported => delivered' = delivered]_vars

\* The threads never meet a removed pcb or an aborted function: udp_remove
\* (udp.cc:208) runs after every use of the pcb and before the Abort.  Excepted
\* are a pcb that was read too early, and a ref after the Abort, by the
\* application or by a "listening" that comes late.
NeverCrashes == ~early /\ ~late => alive

\* close is reported, however many calls are queued (dgram.ts:116).
CloseReported == closed ~> (reported \/ ~alive)

\* A socket that is bound for JavaScript has a port in lwIP (address() reads
\* it unchecked, udp.cc:223).
BoundMeansPort == bound /\ ~closed => pcb = "live" /\ port # 0

\* "unbound socket should not hold process open" (dgram.ts:39), and a bound one
\* does, unless the application says otherwise.
HoldsWhileBound == ~asked => holds = bound

\* "listening" is emitted once, by the bind or the first send.
ListeningOnce == listenings <= 1

\* With no connect or disconnect under way the flag that decides where a send
\* goes (dgram.ts:96) says what lwIP will do.
ConnectedAgrees ==
  ~closed /\ ~Pending({"connect", "disconnect"}) => connected = remote

\* The flags of JavaScript agree with lwIP, the last two for a patient
\* application.
FlagsAgree ==
  BoundMeansPort /\ HoldsWhileBound /\ (Patient => ListeningOnce /\ ConnectedAgrees)

\* The port that JavaScript has been told of stays, for a patient application.
PortStays == [][Patient /\ bound => port' = port]_vars
=============================================================================
