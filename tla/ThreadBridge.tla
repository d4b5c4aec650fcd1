---------------------------- MODULE ThreadBridge ----------------------------
(***************************************************************************)
(* How the two threads of the bindings call each other: typed_tcpip_       *)
(* callback and ts_pbuf_free of src/native/lwip-util.h, async_run and      *)
(* tsfn_once of src/native/macros.h, and the receive callback of a socket, *)
(* which returns a buffer to lwIP for every one it gets (lwip_recv_cb and  *)
(* tsfnOnRecv of src/native/udp.cc).                                       *)
(*                                                                         *)
(* The JavaScript thread posts functions to the mailbox of the tcpip       *)
(* thread and waits for a place in it; the tcpip thread calls thread-safe  *)
(* functions and waits for a place in their queues.  The other modules     *)
(* take both queues for unbounded: that neither thread waits for ever is   *)
(* shown here.                                                             *)
(***************************************************************************)
EXTENDS Naturals, Sequences, FiniteSets

CONSTANTS
  Calls,       \* asynchronous calls
  MaxBuffers,  \* bound: buffers that arrive
  MailboxSize  \* places in the mailbox of the tcpip thread

\* A place that is empty, the function that frees a buffer, and a buffer.
Nothing == "nothing"
Free == "free"
Buffer == "buffer"

ASSUME BridgeAssumption ==
  /\ IsFiniteSet(Calls) /\ Calls \cap {Nothing, Free, Buffer} = {}
  /\ MaxBuffers \in Nat
  /\ MailboxSize \in Nat \ {0}

VARIABLES
  mailbox,   \* functions posted: calls, and Free for a pbuf_free
  posting,   \* what the JavaScript thread waits to post, or Nothing
  handing,   \* what the tcpip thread waits to hand over, or Nothing
  received,  \* buffers queued on the function of the socket
  results,   \* calls queued on functions of their own
  promise,   \* of each call: "none", "pending" or "settled"
  arrived, freed  \* history: buffers

vars == <<mailbox, posting, handing, received, results, promise, arrived, freed>>

Init ==
  /\ mailbox = <<>> /\ posting = Nothing /\ handing = Nothing
  /\ received = 0 /\ results = {}
  /\ promise = [c \in Calls |-> "none"]
  /\ arrived = 0 /\ freed = 0

-----------------------------------------------------------------------------
(* Faulty variants of definitions below: each is a mistake that the property *)
(* named with it must notice.                                                *)

\* CallsSettle: thread-safe functions queue one call each.
QueuesOne == received = 0

\* BuffersReturn: a buffer received is not freed.
FreesNothing == Nothing

\* TypeOK: a buffer received stays queued, to be freed again.
StaysQueued == received

-----------------------------------------------------------------------------
(* JavaScript thread *)

\* It runs unless it waits to post.
JsRuns == posting = Nothing

\* An asynchronous call makes a promise and posts its function.
Call(c) ==
  /\ JsRuns /\ promise[c] = "none"
  /\ promise' = [promise EXCEPT ![c] = "pending"]
  /\ posting' = c
  /\ UNCHANGED <<mailbox, handing, received, results, arrived, freed>>

HasPlace == Len(mailbox) < MailboxSize

\* tcpip_callback.
Post ==
  /\ posting # Nothing /\ HasPlace
  /\ mailbox' = Append(mailbox, posting)
  /\ posting' = Nothing
  /\ UNCHANGED <<handing, received, results, promise, arrived, freed>>

\* The function of a call: it settles the promise.
Settle(c) ==
  /\ JsRuns /\ c \in results
  /\ results' = results \ {c}
  /\ promise' = [promise EXCEPT ![c] = "settled"]
  /\ UNCHANGED <<mailbox, posting, handing, received, arrived, freed>>

\* The function of the socket: it posts the free of the buffer.
AfterReceive == Free
LeftAfterReceive == received - 1

Receive ==
  /\ JsRuns /\ received > 0
  /\ received' = LeftAfterReceive
  /\ posting' = AfterReceive
  /\ UNCHANGED <<mailbox, handing, results, promise, arrived, freed>>

-----------------------------------------------------------------------------
(* tcpip thread *)

TcpipRuns == handing = Nothing

\* The next function of the mailbox: a call has a result to hand over.
Take ==
  /\ TcpipRuns /\ mailbox # <<>>
  /\ mailbox' = Tail(mailbox)
  /\ \/ Head(mailbox) = Free /\ freed' = freed + 1 /\ UNCHANGED handing
     \/ Head(mailbox) \in Calls /\ handing' = Head(mailbox) /\ UNCHANGED freed
  /\ UNCHANGED <<posting, received, results, promise, arrived>>

\* A buffer arrives and is handed over by the receive callback.
Arrive ==
  /\ TcpipRuns /\ arrived < MaxBuffers
  /\ arrived' = arrived + 1
  /\ handing' = Buffer
  /\ UNCHANGED <<mailbox, posting, received, results, promise, freed>>

\* BlockingCall: the queue of a function has no limit.
QueueHasPlace == TRUE

HandOver ==
  /\ ~TcpipRuns
  /\ \/ /\ handing = Buffer /\ QueueHasPlace
        /\ received' = received + 1
        /\ UNCHANGED results
     \/ /\ handing \in Calls
        /\ results' = results \cup {handing}
        /\ UNCHANGED received
  /\ handing' = Nothing
  /\ UNCHANGED <<mailbox, posting, promise, arrived, freed>>

-----------------------------------------------------------------------------
Js == Post \/ Receive \/ \E c \in Calls : Settle(c)
Tcpip == Take \/ HandOver

Next == (\E c \in Calls : Call(c)) \/ Arrive \/ Js \/ Tcpip

Spec == Init /\ [][Next]_vars

\* Each thread goes on when it can.
FairSpec == Spec /\ WF_vars(Js) /\ WF_vars(Tcpip)

-----------------------------------------------------------------------------
(* Properties *)

\* Type invariant.
TypeOK ==
  /\ mailbox \in Seq(Calls \cup {Free}) /\ Len(mailbox) <= MailboxSize
  /\ posting \in Calls \cup {Free, Nothing}
  /\ handing \in Calls \cup {Buffer, Nothing}
  /\ received \in 0..MaxBuffers
  /\ results \subseteq Calls
  /\ promise \in [Calls -> {"none", "pending", "settled"}]
  /\ arrived \in 0..MaxBuffers /\ freed \in 0..MaxBuffers

\* The threads never wait for each other for ever: every promise is settled,
\* however small the mailbox and many the buffers that come back through it
\* (macros.h:134 makes functions whose queue is unlimited).
CallsSettle == \A c \in Calls : promise[c] = "pending" ~> promise[c] = "settled"

\* Every buffer lwIP handed over comes back to be freed (lwip-util.h:65).
BuffersReturn == <>[](freed = arrived)
=============================================================================
