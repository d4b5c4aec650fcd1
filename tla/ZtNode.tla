------------------------------- MODULE ZtNode -------------------------------
(***************************************************************************)
(* The life of the libzt node: src/module/node.ts on the JavaScript        *)
(* thread, node_start, node_free, ref, unref and event_handler of          *)
(* src/native/binding.cc, and the threads of libzt, which call             *)
(* event_handler.                                                          *)
(*                                                                         *)
(* The thread-safe function that carries events to JavaScript also stands  *)
(* for the life of the node: while it is referenced it keeps the process   *)
(* running, and its finaliser frees the node, after an Abort or when the   *)
(* process ends.  One network stands for all.  startNodeAndJoinNet of      *)
(* src/index.ts is one more caller of start and joinNetwork.               *)
(***************************************************************************)
EXTENDS Naturals

CONSTANTS
  MaxEvents,  \* bound: events
  MaxJoins,   \* bound: calls of joinNetwork
  MayFail     \* may zts_node_start fail?

ASSUME NodeAssumption ==
  /\ MaxEvents \in Nat /\ MaxJoins \in Nat
  /\ MayFail \in BOOLEAN

VARIABLES
  \* JavaScript thread: node.ts
  state,     \* NodeState
  started,   \* the promise of start: "none", "polling", "resolved", "rejected"
  joining,   \* calls of joinNetwork that poll
  entry,     \* startNodeAndJoinNet: "none", "starting", "joining" or settled
  ended,     \* the event loop has ended
  \* shared: binding.cc
  callback,  \* event_callback is not null
  tsfn,      \* what it pointed to first
  holds,     \* that is referenced
  events,    \* events queued on it
  \* libzt
  service,   \* "off", "up" or "freed"
  online,
  network,   \* "left", "joined" or "ready"
  handler,   \* event_handler: "idle", "tested" once event_callback was not null,
             \* "called" once it has been read again
  \* history
  asked,     \* to be kept running was asked for last, by start or ref
  raised, delivered, joins,
  frees,     \* calls of zts_node_free
  overtaken, \* node_free has released the function under a running event_handler
  crashed    \* event_handler has called a function that is no more

jsVars == <<state, started, joining, entry, ended>>
tsfnVars == <<callback, tsfn, holds, events>>
serviceVars == <<service, online, network>>
historyVars == <<asked, raised, delivered, joins, frees, overtaken, crashed>>
vars == <<jsVars, tsfnVars, serviceVars, handler, historyVars>>

Init ==
  /\ state = "INIT" /\ started = "none" /\ joining = 0 /\ entry = "none"
  /\ ended = FALSE
  /\ callback = FALSE /\ tsfn = "none" /\ holds = FALSE /\ events = 0
  /\ service = "off" /\ online = FALSE /\ network = "left" /\ handler = "idle"
  /\ asked = FALSE /\ raised = 0 /\ delivered = 0 /\ joins = 0
  /\ frees = 0 /\ overtaken = FALSE /\ crashed = FALSE

\* zts_node_free.  It does not wait for an event_handler that runs; without a
\* service it fails.
NodeFree ==
  /\ frees' = frees + 1
  /\ IF service = "up"
       THEN service' = "freed" /\ online' = FALSE /\ network' = "left"
       ELSE UNCHANGED serviceVars

-----------------------------------------------------------------------------
(* Faulty variants of definitions below: each is a mistake that the property *)
(* named with it must notice.                                                *)

\* EventsEnd: node_free does not abort the function.
AbortsNothing == tsfn

\* ListenerLive: node_free leaves event_callback as it is.
KeepsPointer == callback

\* CallsSettle: start waits for a network.
WaitsForNetwork == online /\ network = "ready"

\* CallsSettle, too: a network that is ready answers the last call only.
ReadyForLast == network = "ready" /\ joining = 1

\* RefHoldsProcess: start asks for the reference before there is a function.
RefsTooEarly(ref) == FALSE

\* EndFrees: the finaliser only deletes the function.
OnlyDeletes == UNCHANGED <<serviceVars, frees>>

\* TypeOK: every join polls twice.
PollsTwice == joining + 2

-----------------------------------------------------------------------------
(* JavaScript thread *)

Js == ~ended /\ ~crashed

\* The promise of start is rejected: by its initialisers, before the state changes,
\* or by zts_node_start, after that and after the function was made.  Otherwise
\* start polls, with a reference or not.
StartRefused ==
  /\ started' = "rejected"
  /\ UNCHANGED <<state, joining, ended, tsfnVars, serviceVars, handler, historyVars>>

HoldsAfterStart(ref) == ref

StartNode(ref) ==
  /\ state' = "STARTED"
  /\ tsfn' = "open" /\ callback' = TRUE
  /\ \/ /\ service' = "up" /\ started' = "polling"
        /\ asked' = ref /\ holds' = HoldsAfterStart(ref)
     \/ /\ MayFail
        /\ started' = "rejected"
        /\ UNCHANGED <<service, asked, holds>>
  /\ UNCHANGED <<joining, ended, events, online, network, handler, raised,
                 delivered, joins, frees, overtaken, crashed>>

Start ==
  /\ Js /\ state = "INIT"
  /\ \/ started = "none" /\ StartRefused
     \/ \E ref \in BOOLEAN : StartNode(ref)
  /\ UNCHANGED entry

\* startNodeAndJoinNet awaits start, which it gives no ref ...
StartNodeAndJoinNet ==
  /\ Js /\ entry = "none"
  /\ \/ /\ state # "INIT"
        /\ entry' = "rejected"
        /\ UNCHANGED <<state, started, joining, ended, tsfnVars, serviceVars,
                       handler, historyVars>>
     \/ /\ state = "INIT"
        /\ StartRefused \/ StartNode(FALSE)
        /\ entry' = IF started' = "rejected" THEN "rejected" ELSE "starting"

\* The loop of start, at a timer.
StartIsOver == online

\* net_join, called by joinNetwork, does not throw.
Joins ==
  /\ state = "STARTED" /\ service = "up"
  /\ network' = IF network = "left" THEN "joined" ELSE network

\* ... then calls joinNetwork, at once.
PollStart ==
  /\ Js /\ started = "polling" /\ StartIsOver
  /\ started' = "resolved"
  /\ \/ entry # "starting" /\ UNCHANGED <<entry, network>>
     \/ entry = "starting" /\ entry' = "joining" /\ Joins
     \/ entry = "starting" /\ entry' = "rejected" /\ UNCHANGED network
  /\ UNCHANGED <<state, joining, ended, tsfnVars, service, online, handler,
                 historyVars>>

\* joinNetwork: net_join throws or joins, and the polling begins.
JoiningAfterJoin == joining + 1

JoinNetwork ==
  /\ Js /\ state = "STARTED" /\ joins < MaxJoins
  /\ joins' = joins + 1
  /\ \/ Joins /\ joining' = JoiningAfterJoin
     \/ UNCHANGED <<joining, network>>
  /\ UNCHANGED <<state, started, entry, ended, tsfnVars, service, online, handler, asked,
                 raised, delivered, frees, overtaken, crashed>>

\* The loop of joinNetwork, at a timer.
JoinIsOver == network = "ready"

PollJoin ==
  /\ Js /\ joining > 0 /\ JoinIsOver
  /\ joining' = joining - 1
  /\ UNCHANGED <<state, started, entry, ended, tsfnVars, serviceVars, handler, historyVars>>

\* The loop of joinNetwork that startNodeAndJoinNet awaits: then there is an IPv6
\* address, or an IPv4 address, or neither and it is rejected.
PollEntry ==
  /\ Js /\ entry = "joining" /\ JoinIsOver
  /\ entry' \in {"resolved", "rejected"}
  /\ UNCHANGED <<state, started, joining, ended, tsfnVars, serviceVars, handler,
                 historyVars>>

LeaveNetwork ==
  /\ Js /\ state = "STARTED" /\ network # "left"
  /\ network' = "left"
  /\ UNCHANGED <<jsVars, tsfnVars, service, online, handler, historyVars>>

\* ref and unref.
Ref(value) ==
  /\ Js /\ state = "STARTED"
  /\ asked' = value
  /\ holds' = IF callback THEN value ELSE holds
  /\ UNCHANGED <<jsVars, callback, tsfn, events, serviceVars, handler, raised,
                 delivered, joins, frees, overtaken, crashed>>

\* free and node_free: an error is thrown before the function is aborted.  An
\* event_handler may be anywhere meanwhile.
AfterAbort == "closing"
PointerAfterAbort == FALSE

Free ==
  /\ Js /\ state = "STARTED"
  /\ state' = "FREED"
  /\ NodeFree
  /\ IF service = "up" /\ callback
       THEN /\ tsfn' = AfterAbort /\ callback' = PointerAfterAbort
            /\ overtaken' = (handler # "idle")
       ELSE UNCHANGED <<callback, tsfn, overtaken>>
  /\ UNCHANGED <<started, joining, entry, ended, holds, events, handler, asked, raised,
                 delivered, joins, crashed>>

\* An event reaches the listener.
OnEvent ==
  /\ Js /\ tsfn = "open" /\ events > 0
  /\ events' = events - 1
  /\ delivered' = delivered + 1
  /\ UNCHANGED <<jsVars, callback, tsfn, holds, serviceVars, handler, asked,
                 raised, joins, frees, overtaken, crashed>>

\* The process may end when it has no timer, no closing function and no referenced
\* one.
Exit ==
  /\ Js
  /\ started # "polling" /\ joining = 0 /\ entry # "joining"
  /\ tsfn = "open" => ~holds
  /\ tsfn \notin {"closing", "deleted"}
  /\ ended' = TRUE
  /\ tsfn' = IF tsfn = "open" THEN "closing" ELSE tsfn
  /\ UNCHANGED <<state, started, joining, entry, callback, holds, events, serviceVars,
                 handler, historyVars>>

\* The finaliser: what is queued is dropped, the function deleted, then the
\* node freed.
DeleteFunction ==
  /\ ~crashed /\ tsfn = "closing"
  /\ tsfn' = "deleted"
  /\ events' = 0
  /\ UNCHANGED <<jsVars, callback, holds, serviceVars, handler, historyVars>>

FreeInFinaliser == NodeFree

Finalise ==
  /\ ~crashed /\ tsfn = "deleted"
  /\ tsfn' = "finalised"
  /\ FreeInFinaliser
  /\ UNCHANGED <<jsVars, callback, holds, events, handler, asked, raised,
                 delivered, joins, overtaken, crashed>>

-----------------------------------------------------------------------------
(* Threads of libzt *)

\* The service connects.
GetOnline ==
  /\ ~crashed /\ service = "up" /\ ~online
  /\ online' = TRUE
  /\ UNCHANGED <<jsVars, tsfnVars, service, network, handler, historyVars>>

GetReady ==
  /\ ~crashed /\ service = "up" /\ network = "joined"
  /\ network' = "ready"
  /\ UNCHANGED <<jsVars, tsfnVars, service, online, handler, historyVars>>

\* event_handler tests event_callback ...  Once it was given to libzt it may be
\* called at any time, also when the node is freed; bound: one call at a time.
Raise ==
  /\ ~crashed /\ tsfn # "none" /\ handler = "idle" /\ raised < MaxEvents
  /\ raised' = raised + 1
  /\ handler' = IF callback THEN "tested" ELSE "idle"
  /\ UNCHANGED <<jsVars, tsfnVars, serviceVars, asked, delivered, joins, frees,
                 overtaken, crashed>>

\* ... reads it again ...
ReadPointer ==
  /\ ~crashed /\ handler = "tested"
  /\ handler' = "called"
  /\ crashed' = ~callback
  /\ UNCHANGED <<jsVars, tsfnVars, serviceVars, asked, raised, delivered, joins,
                 frees, overtaken>>

\* ... and calls what it pointed to.  A call of a function that closes fails; one
\* of a function that was deleted may do that, nothing or end the process.
Handle ==
  /\ ~crashed /\ handler = "called"
  /\ handler' = "idle"
  /\ LET deleted == tsfn \in {"deleted", "finalised"} IN
       /\ crashed' \in {FALSE, deleted}
       /\ callback' \in (IF tsfn = "closing" THEN {} ELSE {callback})
                        \cup (IF tsfn = "open" THEN {} ELSE {FALSE})
  /\ events' = IF tsfn = "open" THEN events + 1 ELSE events
  /\ UNCHANGED <<jsVars, tsfn, holds, serviceVars, asked, raised, delivered,
                 joins, frees, overtaken>>

-----------------------------------------------------------------------------
\* Nothing need happen when the process crashed or ended, or the node is freed.
Quiescent == (crashed \/ ended \/ state = "FREED") /\ UNCHANGED vars

Next ==
  \/ Start \/ StartNodeAndJoinNet \/ PollStart
  \/ JoinNetwork \/ PollJoin \/ PollEntry \/ LeaveNetwork
  \/ Ref(TRUE) \/ Ref(FALSE) \/ Free
  \/ OnEvent
  \/ Exit \/ DeleteFunction \/ Finalise
  \/ GetOnline \/ GetReady
  \/ Raise \/ ReadPointer \/ Handle
  \/ Quiescent

Spec == Init /\ [][Next]_vars

\* Timers fire, the event loop and event_handler go on, and the service gets
\* online and into its networks.
FairSpec ==
  /\ Spec
  /\ WF_vars(PollStart) /\ WF_vars(PollJoin) /\ WF_vars(PollEntry)
  /\ WF_vars(OnEvent) /\ WF_vars(DeleteFunction) /\ WF_vars(Finalise)
  /\ WF_vars(GetOnline) /\ WF_vars(GetReady)
  /\ WF_vars(ReadPointer) /\ WF_vars(Handle)

-----------------------------------------------------------------------------
(* Properties *)

\* Type invariant.
TypeOK ==
  /\ state \in {"INIT", "STARTED", "FREED"}
  /\ started \in {"none", "polling", "resolved", "rejected"}
  /\ joining \in 0..MaxJoins
  /\ entry \in {"none", "starting", "joining", "resolved", "rejected"}
  /\ {ended, callback, holds, online, asked, overtaken, crashed} \subseteq BOOLEAN
  /\ handler \in {"idle", "tested", "called"}
  /\ tsfn \in {"none", "open", "closing", "deleted", "finalised"}
  /\ events \in 0..MaxEvents
  /\ service \in {"off", "up", "freed"}
  /\ network \in {"left", "joined", "ready"}
  /\ raised \in 0..MaxEvents /\ delivered \in 0..MaxEvents
  /\ joins \in 0..MaxJoins
  /\ frees \in 0..2

\* While the process has not ended event_handler, which reads event_callback twice
\* (binding.cc:43 and 51), never finds it null the second time nor the function
\* deleted, unless node_free came between its test and its call; a call that
\* begins later is safe.
ListenerLive == crashed => ended \/ overtaken

\* After free has freed the node the listener hears no event, queued ones
\* included (binding.cc:114 aborts the function).
EventsEnd ==
  [][state = "FREED" /\ service = "freed" => delivered' = delivered]_vars

\* start (node.ts:65), joinNetwork (node.ts:108) and startNodeAndJoinNet
\* (index.ts:15 and 17) do not poll for ever, unless the network is left or the
\* node freed.
StartSettles == started = "polling" ~> (started = "resolved" \/ state = "FREED")
JoinSettles == joining > 0 ~> (joining = 0 \/ network = "left")
EntrySettles ==
  /\ entry = "starting" ~> (entry # "starting" \/ state = "FREED")
  /\ entry = "joining" ~> (entry # "joining" \/ network = "left")
CallsSettle == StartSettles /\ JoinSettles /\ EntrySettles

\* What start or ref asked for last decides whether a running node keeps the
\* process running (node.ts:17).
RefHoldsProcess == asked /\ service = "up" => ~ended

\* When the process ends the finaliser frees the node (binding.cc:76).
EndFrees == ended ~> (service # "up" \/ crashed)

\* "If node_free is explicitly called, the tsfn is aborted and in its finaliser
\* the actual node is freed" (binding.cc:79): once, that is.
FreedOnce == frees <= 1
=============================================================================
