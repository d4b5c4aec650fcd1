----------------------------- MODULE NetServer -----------------------------
(***************************************************************************)
(* One net.Server: class Server of src/module/net.ts on the JavaScript     *)
(* thread, class Server and accept_cb of src/native/tcp.cc on the tcpip    *)
(* thread.  Every call of createServer makes a native listener; its        *)
(* result, its connections and the end of its close are delivered by three *)
(* ThreadSafeFunctions, whose queues nothing orders.                       *)
(*                                                                         *)
(* What holds depends on how the server is used: a variable that never     *)
(* changes says how.                                                       *)
(***************************************************************************)
EXTENDS Integers, Sequences, FiniteSets

CONSTANTS
  Conns,            \* connections that peers make
  MaxListens,       \* bound: calls of listen
  MaxCloses,        \* bound: calls of close
  AnyLimits,        \* values of maxConnections in any use that is considered
  OrderlyLimits     \* and in orderly use

ASSUME ServerAssumption ==
  /\ IsFiniteSet(Conns)
  /\ MaxListens \in Nat /\ MaxCloses \in Nat
  /\ AnyLimits \cup OrderlyLimits \subseteq Nat

Listeners == 1..MaxListens
None == 0   \* undefined, for internalServer

VARIABLES
  use,             \* see below
  maxConnections,  \* set before the server is used
  \* JavaScript thread: class Server of net.ts
  listening, internalServer, connAmount,
  resetOnClose,    \* the constructor's once("close") listener is there
  unrefNext,       \* unref has added a once("listening") listener
  \* queues between the threads
  mailbox,         \* functions posted to the tcpip thread
  listenResults,   \* outcomes queued on the "Server::listen" functions
  closeResults,    \* listeners queued on the "Server::close" functions
  accepts,         \* connections queued on each "TCP::onConnection" function
  \* tcpip thread
  listener,        \* state of each native listener
  delayed,         \* connections that count against the backlog
  holders,         \* listeners whose "TCP::onConnection" keeps the process
  \* the connections, as the application sees them
  conn,
  \* history
  listens, closes, \* calls so far
  announced,       \* times "close" was emitted
  stray,           \* a connection was delivered before the result of its listen
                   \* ("early") or when "close" had been emitted ("late")
  owed,            \* callbacks given to close that have not been called
  unreffed         \* the application called unref last, not ref

setup == <<use, maxConnections>>
jsVars == <<setup, listening, internalServer, connAmount, resetOnClose, unrefNext>>
queueVars == <<mailbox, listenResults, closeResults, accepts>>
countVars == <<listens, closes, announced, stray, owed, unreffed>>
lwipVars == <<listener, delayed, holders>>
vars == <<jsVars, queueVars, lwipVars, conn, countVars>>

Init ==
  /\ \/ use = "any" /\ maxConnections \in AnyLimits
     \/ use = "orderly" /\ maxConnections \in OrderlyLimits
  /\ listening = FALSE /\ internalServer = None
  /\ connAmount = 0 /\ resetOnClose = TRUE /\ unrefNext = FALSE
  /\ mailbox = <<>> /\ listenResults = {} /\ closeResults = {}
  /\ accepts = [l \in Listeners |-> <<>>]
  /\ listener = [l \in Listeners |-> "unused"]
  /\ delayed = {} /\ holders = {}
  /\ conn = [c \in Conns |-> "none"]
  /\ listens = 0 /\ closes = 0 /\ announced = 0 /\ stray = {} /\ owed = 0
  /\ unreffed = FALSE

Open == {c \in Conns : conn[c] = "open"}

\* Any application calls listen and close at will.  An orderly one is patient:
\* it waits for a listen that is pending, closes only a running server and does
\* not listen again after a close.  Peers connect when they like.
Patient == use = "orderly"

\* A listen whose promise is not settled.
ListenPending ==
  \E l \in Listeners :
    listener[l] = "posted" \/ \E r \in listenResults : r.l = l

-----------------------------------------------------------------------------
(* Faulty variants of definitions below: each is a mistake that the property *)
(* named with it must notice.                                                *)

\* HandlesAgree: close does not forget the native server.
KeepsHandle == internalServer

\* HandlesAgree, too: unref before the server listens is forgotten.
UnrefsNow == unrefNext

\* TypeOK: the "close" listener of a connection is added twice.
CountedDownTwice == connAmount - 2

\* ConnAmountIsOpen: the end of a connection is not counted.
NotCountedDown == connAmount

\* FirstCloseDrained: the end of the native close is the end of the server.
CloseIsEnough == TRUE

\* CloseCompletes: the last connection does not report the close.
LastEndSilent(n) == FALSE

\* ImplementsLifecycle: "close" is emitted again by the end of the native close.
NotOverwritten(n) == n

\* BacklogReleased: a dropped connection's slot is not given back.
GiveBackUnlessFull(c) ==
  IF maxConnections <= connAmount THEN mailbox
  ELSE Append(mailbox, [op |-> "accepted", c |-> c])

-----------------------------------------------------------------------------
(* JavaScript thread *)

\* connAmount once "close" has been emitted with the count n: the listener
\* that the constructor added with once() overwrites it, the first time.
AfterClose(n) == IF resetOnClose THEN -1 ELSE n

\* emit("close") if the condition holds; the count is n before it.
EmitCloseIf(condition, n) ==
  IF condition
    THEN /\ connAmount' = AfterClose(n)
         /\ resetOnClose' = FALSE
         /\ announced' = announced + 1
    ELSE /\ connAmount' = n
         /\ UNCHANGED <<resetOnClose, announced>>

CanListen == ~listening

\* listen: refused only while a listen has succeeded.  createServer posts
\* the creation of the native listener.
Listen ==
  /\ listens < MaxListens
  /\ Patient => ~ListenPending
  /\ Patient => closes = 0
  /\ CanListen
  /\ listens' = listens + 1
  /\ mailbox' = Append(mailbox, [op |-> "listen", l |-> listens'])
  /\ listener' = [listener EXCEPT ![listens'] = "posted"]
  /\ holders' = holders \cup {listens'}
  /\ UNCHANGED <<jsVars, listenResults, closeResults, accepts, delayed, conn,
                 closes, announced, stray, owed, unreffed>>

\* createServer's promise is settled: internalListen goes on, and "listening"
\* or "error" is emitted.
OnListenResult ==
  \E r \in listenResults :
    /\ listenResults' = listenResults \ {r}
    /\ \/ /\ r.ok
          /\ internalServer' = r.l /\ listening' = TRUE
          /\ unrefNext' = FALSE
          /\ holders' = IF unrefNext THEN holders \ {r.l} ELSE holders
       \/ /\ ~r.ok
          /\ UNCHANGED <<internalServer, listening, unrefNext, holders>>
    /\ UNCHANGED <<setup, connAmount, resetOnClose, mailbox, closeResults, accepts,
                   listener, delayed, conn, countVars>>

\* ref acts on a running server only; unref of any other waits for the next
\* "listening".
Ref ==
  /\ unreffed' = FALSE
  /\ holders' = holders \cup ({internalServer} \ {None})
  /\ UNCHANGED <<jsVars, queueVars, listener, delayed, conn, listens, closes,
                 announced, stray, owed>>

UnrefNextAfterUnref == unrefNext \/ internalServer = None

Unref ==
  /\ unreffed' = TRUE
  /\ holders' = holders \ {internalServer}
  /\ unrefNext' = UnrefNextAfterUnref
  /\ UNCHANGED <<setup, listening, internalServer, connAmount, resetOnClose,
                 queueVars, listener, delayed, conn, listens, closes, announced,
                 stray, owed>>

\* internalServer after close has posted the native close.
HandleAfterClose == None

\* close: of a running server it posts the native close and forgets its
\* callback, of any other it emits "close" at once, which calls it.
Close ==
  /\ closes < MaxCloses
  /\ Patient => ~ListenPending
  /\ Patient => internalServer # None
  /\ closes' = closes + 1
  /\ listening' = FALSE
  /\ \/ /\ internalServer = None
        /\ EmitCloseIf(TRUE, connAmount)
        /\ UNCHANGED <<internalServer, mailbox, owed>>
     \/ /\ internalServer # None
        /\ mailbox' = Append(mailbox, [op |-> "close", l |-> internalServer])
        /\ internalServer' = HandleAfterClose
        /\ \E callback \in {0, 1} : owed' = owed + callback
        /\ UNCHANGED <<connAmount, resetOnClose, announced>>
  /\ UNCHANGED <<setup, unrefNext, listenResults, closeResults, accepts, lwipVars,
                 conn, listens, stray, unreffed>>

\* The native close is done.
DrainedAtClose == connAmount = 0

OnCloseResult ==
  \E l \in closeResults :
    /\ closeResults' = closeResults \ {l}
    /\ EmitCloseIf(DrainedAtClose, connAmount)
    /\ UNCHANGED <<setup, listening, internalServer, unrefNext, mailbox,
                   listenResults, accepts, lwipVars, conn, listens, closes, stray,
                   owed, unreffed>>

\* internalConnectionHandler, called by the function accept_cb has queued:
\* drop the connection or make its Socket and emit "connection".  Then
\* either way the backlog slot is given back.
Full == maxConnections <= connAmount

GiveBack(c) == Append(mailbox, [op |-> "accepted", c |-> c])

\* What a connection that is delivered now is too early or too late for.
Stray == {when \in {"early", "late"} :
            \/ when = "early" /\ internalServer = None /\ closes = 0
            \/ when = "late" /\ announced > 0}

OnConnection ==
  \E l \in Listeners :
    /\ accepts[l] # <<>>
    /\ accepts' = [accepts EXCEPT ![l] = Tail(@)]
    /\ LET c == Head(accepts[l]) IN
       /\ \/ Full /\ conn' = [conn EXCEPT ![c] = "dropped"]
                  /\ UNCHANGED connAmount
          \/ ~Full /\ conn' = [conn EXCEPT ![c] = "open"]
                   /\ connAmount' = connAmount + 1
       /\ mailbox' = GiveBack(c)
    /\ stray' = stray \cup Stray
    /\ UNCHANGED <<setup, listening, internalServer, resetOnClose, unrefNext,
                   listenResults, closeResults, lwipVars, listens, closes, announced,
                   owed, unreffed>>

\* A Socket emits "close".
CountAfterEnd == connAmount - 1
DrainedAtEnd(n) == internalServer = None /\ n = 0

OnSocketClose(c) ==
  /\ conn[c] = "open"
  /\ conn' = [conn EXCEPT ![c] = "closed"]
  /\ EmitCloseIf(DrainedAtEnd(CountAfterEnd), CountAfterEnd)
  /\ UNCHANGED <<setup, listening, internalServer, unrefNext, queueVars, lwipVars,
                 listens, closes, stray, owed, unreffed>>

-----------------------------------------------------------------------------
(* tcpip thread *)

\* The lambda of createServer: bind, and listen unless that fails, in which case
\* the function of the listener is released.
RunListen ==
  /\ mailbox # <<>> /\ Head(mailbox).op = "listen"
  /\ mailbox' = Tail(mailbox)
  /\ \E ok \in BOOLEAN :
       LET l == Head(mailbox).l IN
       /\ listener' = [listener EXCEPT ![l] = IF ok THEN "bound" ELSE "failed"]
       /\ listenResults' = listenResults \cup {[l |-> l, ok |-> ok]}
       /\ holders' = IF ok THEN holders ELSE holders \ {l}
  /\ UNCHANGED <<jsVars, closeResults, accepts, delayed, conn, countVars>>

\* The lambda of Server::close, which releases it, too.
RunClose ==
  /\ mailbox # <<>> /\ Head(mailbox).op = "close"
  /\ mailbox' = Tail(mailbox)
  /\ listener' = [listener EXCEPT ![Head(mailbox).l] = "closed"]
  /\ closeResults' = closeResults \cup {Head(mailbox).l}
  /\ holders' = holders \ {Head(mailbox).l}
  /\ UNCHANGED <<jsVars, listenResults, accepts, delayed, conn, countVars>>

\* tcp_backlog_accepted.
RunAccepted ==
  /\ mailbox # <<>> /\ Head(mailbox).op = "accepted"
  /\ mailbox' = Tail(mailbox)
  /\ delayed' = delayed \ {Head(mailbox).c}
  /\ UNCHANGED <<jsVars, listenResults, closeResults, accepts, listener, holders,
                 conn, countVars>>

\* A handshake completes on a listener: accept_cb.
Accept(c) ==
  /\ conn[c] = "none"
  /\ \E l \in Listeners :
       /\ listener[l] = "bound"
       /\ accepts' = [accepts EXCEPT ![l] = Append(@, c)]
  /\ conn' = [conn EXCEPT ![c] = "queued"]
  /\ delayed' = delayed \cup {c}
  /\ UNCHANGED <<jsVars, mailbox, listenResults, closeResults, listener,
                 holders, countVars>>

-----------------------------------------------------------------------------
JavaScript == OnListenResult \/ OnCloseResult \/ OnConnection
Tcpip == RunListen \/ RunClose \/ RunAccepted

\* Nothing is queued to either thread: application and peers decide what is next.
Quiescent ==
  /\ mailbox = <<>> /\ listenResults = {} /\ closeResults = {}
  /\ \A l \in Listeners : accepts[l] = <<>>
  /\ UNCHANGED vars

Next ==
  \/ Listen \/ Close
  \/ Ref \/ Unref
  \/ JavaScript
  \/ Tcpip
  \/ \E c \in Conns : Accept(c) \/ OnSocketClose(c)
  \/ Quiescent

Spec == Init /\ [][Next]_vars

\* Both threads serve their queues, and every connection ends.
FairSpec ==
  /\ Spec
  /\ WF_vars(OnListenResult) /\ WF_vars(OnCloseResult) /\ WF_vars(Tcpip)
  /\ WF_vars(OnConnection)
  /\ \A c \in Conns : WF_vars(OnSocketClose(c))

-----------------------------------------------------------------------------
(* Properties *)

\* Type invariant.
Message == [op : {"listen", "close"}, l : Listeners]
           \cup [op : {"accepted"}, c : Conns]
TypeOK ==
  /\ use \in {"any", "orderly"}
  /\ maxConnections \in AnyLimits \cup OrderlyLimits
  /\ listening \in BOOLEAN
  /\ internalServer \in Listeners \cup {None}
  /\ connAmount \in -(1 + Cardinality(Conns))..Cardinality(Conns)
  /\ {resetOnClose, unrefNext, unreffed} \subseteq BOOLEAN
  /\ mailbox \in Seq(Message)
  /\ listenResults \subseteq [l : Listeners, ok : BOOLEAN]
  /\ closeResults \subseteq Listeners
  /\ accepts \in [Listeners -> Seq(Conns)]
  /\ listener \in [Listeners -> {"unused", "posted", "bound", "failed", "closed"}]
  /\ delayed \subseteq Conns /\ holders \subseteq Listeners
  /\ conn \in [Conns -> {"none", "queued", "open", "dropped", "closed"}]
  /\ listens \in 0..MaxListens /\ closes \in 0..MaxCloses
  /\ announced \in Nat /\ stray \subseteq {"early", "late"} /\ owed \in 0..MaxCloses

\* A close of l is on its way to the tcpip thread.
BeingClosed(l) ==
  \E i \in DOMAIN mailbox : mailbox[i] = [op |-> "close", l |-> l]

\* The native server JavaScript holds is never closed behind its back, nor
\* closed twice: Server::address (tcp.cc:394) reads its pcb unchecked.
HandleIsLive ==
  internalServer # None =>
    listener[internalServer] = "bound" /\ ~BeingClosed(internalServer)

\* Every listener that has been reported, and every one that keeps the process,
\* is the server's, on its way to it, or being closed: "Server already
\* listening" (net.ts:107) keeps it from being replaced.
NoOrphan ==
  \A l \in Listeners :
    listener[l] = "bound" \/ l \in holders =>
      \/ internalServer = l \/ BeingClosed(l)
      \/ listener[l] = "posted" \/ \E r \in listenResults : r.l = l

\* A running server does not keep the process if unref was called last, also
\* when that was before it listened or while a listen failed (net.ts:166-169).
UnrefRespected ==
  unreffed /\ internalServer # None => internalServer \notin holders

\* The server and lwIP agree on the listeners, the last two parts for a patient
\* application: what it asks for arrives in the order in which it asked.
HandlesAgree == HandleIsLive /\ (Patient => NoOrphan /\ UnrefRespected)

\* Until "close" is first emitted, connAmount, which decides over drops and
\* over that event, is the number of connections the application has.
ConnAmountIsOpen == announced = 0 => connAmount = Cardinality(Open)

\* For a patient application the first "close" comes when no connection is open
\* (net.ts:55 and 146), and after a close unless a connection was delivered before
\* the result of its listen.
FirstCloseDrained ==
  [][Patient /\ announced = 0 /\ announced' = 1 =>
       Open' = {} /\ (closes' > 0 \/ "early" \in stray)]_vars

\* A running server that is closed and does not listen again is closed by lwIP
\* and, once the connections end, reports it: after the close, as
\* FirstCloseDrained says, with the same exception.
CloseCompletes ==
  Patient /\ closes > 0
    ~> /\ \A l \in Listeners : listener[l] # "bound"
       /\ "early" \in stray \/ announced > 0

\* Every connection gives its slot in the backlog back (tcp.cc:309).
BacklogReleased == \A c \in Conns : c \in delayed ~> c \notin delayed

\* Used patiently, which is all that the mapping lets be seen, the server
\* implements the lifecycle, until a connection is delivered too early or too
\* late: "close" once (net.ts:30, 55 and 146), after a close, drained, and never more
\* connections than maxConnections (net.ts:41).
Phase ==
  IF closes > 0 THEN "stopped" ELSE IF internalServer # None THEN "up" ELSE "new"

Life == INSTANCE ServerLifecycle WITH
  Peers <- Conns, limit <- maxConnections,
  phase <- IF Patient THEN Phase ELSE "new",
  open <- IF Patient THEN Open ELSE {},
  announced <- IF Patient THEN announced ELSE 0
ImplementsLifecycle ==
  Life!LifeInit /\ [][Life!LifeNext \/ stray' # {}]_(Life!lifeVars)

\* The callback of close is called ([Symbol.asyncDispose], net.ts:83, waits
\* for it).
CallbackCalled == owed > 0 ~> owed = 0
=============================================================================
