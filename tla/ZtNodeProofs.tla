---------------------------- MODULE ZtNodeProofs ----------------------------
(***************************************************************************)
(* Theorems about the life of the node, for every number of events and     *)
(* calls, whether or not its start may fail.                               *)
(***************************************************************************)
EXTENDS ZtNode, TLAPS

\* The type invariant, one variable at a time.
Types ==
  /\ state \in {"INIT", "STARTED", "FREED"}
  /\ started \in {"none", "polling", "resolved", "rejected"}
  /\ joining \in 0..MaxJoins
  /\ entry \in {"none", "starting", "joining", "resolved", "rejected"}
  /\ tsfn \in {"none", "open", "closing", "deleted", "finalised"}
  /\ events \in 0..MaxEvents
  /\ handler \in {"idle", "tested", "called"}
  /\ service \in {"off", "up", "freed"}
  /\ network \in {"left", "joined", "ready"}
  /\ raised \in 0..MaxEvents /\ delivered \in 0..MaxEvents
  /\ joins \in 0..MaxJoins
  /\ frees \in 0..2

Flags ==
  /\ ended \in BOOLEAN /\ callback \in BOOLEAN /\ holds \in BOOLEAN
  /\ online \in BOOLEAN /\ asked \in BOOLEAN
  /\ overtaken \in BOOLEAN /\ crashed \in BOOLEAN

\* Until the process ends, the function lives as long as the node is started,
\* and what points to it is cleared before it dies.
FunctionLives ==
  /\ state = "INIT" => service = "off" /\ tsfn = "none" /\ ~callback
  /\ state = "STARTED" /\ ~ended => callback /\ tsfn = "open"
  /\ state = "FREED" /\ ~ended => ~callback \/ service = "off"
  /\ callback /\ ~ended => tsfn = "open"
  /\ handler # "idle" /\ ~ended /\ ~overtaken => callback

\* A node that was freed is not up, and a function that outlives it is one whose
\* start failed.
FreedIsQuiet ==
  /\ state = "FREED" => service # "up"
  /\ state = "FREED" /\ tsfn = "open" => service = "off"
  /\ service = "freed" => state = "FREED" \/ ended

\* What was asked for last is what the function does.
AskedIsHeld == service = "up" /\ ~ended => (holds <=> asked)

\* Every event was raised; the node is freed by free and by the finaliser.
Counts ==
  /\ delivered + events + (IF handler # "idle" THEN 1 ELSE 0) <= raised
  /\ joining <= joins
  /\ frees = (IF state = "FREED" THEN 1 ELSE 0)
             + (IF tsfn = "finalised" THEN 1 ELSE 0)

NodeInv ==
  /\ Types /\ Flags /\ FunctionLives /\ FreedIsQuiet /\ AskedIsHeld /\ Counts
  /\ ListenerLive /\ RefHoldsProcess

-----------------------------------------------------------------------------
(* NodeInv is inductive *)

\* Nothing has been started at first.
LEMMA NodeInit == ASSUME Init PROVE NodeInv
<1>. USE NodeAssumption DEF NodeAssumption, Init
<1>1. Types
  BY DEF Types
<1>2. Flags
  BY DEF Flags
<1>3. FunctionLives
  BY DEF FunctionLives
<1>4. FreedIsQuiet
  BY DEF FreedIsQuiet
<1>5. AskedIsHeld
  BY DEF AskedIsHeld
<1>6. Counts
  BY DEF Counts
<1>7. ListenerLive
  BY DEF ListenerLive
<1>8. RefHoldsProcess
  BY DEF RefHoldsProcess
<1>. QED
  BY <1>1, <1>2, <1>3, <1>4, <1>5, <1>6, <1>7, <1>8 DEF NodeInv

\* Every step keeps it.
LEMMA NodeStep == ASSUME NodeInv, [Next]_vars PROVE NodeInv'
<1>. USE NodeAssumption DEF NodeAssumption, NodeInv, Types, Flags, FunctionLives,
         FreedIsQuiet, AskedIsHeld, Counts, ListenerLive, RefHoldsProcess, Js,
         jsVars, tsfnVars, serviceVars, historyVars
<1>1. CASE Start
  <2>. USE <1>1 DEF Start, StartRefused, StartNode, HoldsAfterStart
  <2>1. Types'
    OBVIOUS
  <2>2. Flags'
    OBVIOUS
  <2>3. FunctionLives'
    OBVIOUS
  <2>4. FreedIsQuiet'
    OBVIOUS
  <2>5. AskedIsHeld'
    OBVIOUS
  <2>6. Counts'
    OBVIOUS
  <2>7. ListenerLive'
    OBVIOUS
  <2>8. RefHoldsProcess'
    OBVIOUS
  <2>. QED
    BY <2>1, <2>2, <2>3, <2>4, <2>5, <2>6, <2>7, <2>8
<1>2. CASE StartNodeAndJoinNet
  <2>. USE <1>2 DEF StartNodeAndJoinNet, StartRefused, StartNode, HoldsAfterStart
  <2>1. Types'
    OBVIOUS
  <2>2. Flags'
    OBVIOUS
  <2>3. FunctionLives'
    OBVIOUS
  <2>4. FreedIsQuiet'
    OBVIOUS
  <2>5. AskedIsHeld'
    OBVIOUS
  <2>6. Counts'
    OBVIOUS
  <2>7. ListenerLive'
    OBVIOUS
  <2>8. RefHoldsProcess'
    OBVIOUS
  <2>. QED
    BY <2>1, <2>2, <2>3, <2>4, <2>5, <2>6, <2>7, <2>8
<1>3. CASE PollStart
  BY <1>3 DEF PollStart, StartIsOver, Joins
<1>4. CASE JoinNetwork
  BY <1>4 DEF JoinNetwork, Joins, JoiningAfterJoin
<1>5. CASE PollJoin
  BY <1>5 DEF PollJoin, JoinIsOver
<1>6. CASE PollEntry
  BY <1>6 DEF PollEntry, JoinIsOver
<1>7. CASE LeaveNetwork
  BY <1>7 DEF LeaveNetwork
<1>8. CASE Ref(TRUE) \/ Ref(FALSE)
  <2>1. PICK v \in BOOLEAN : Ref(v)
    BY <1>8
  <2>2. /\ ~ended /\ ~crashed /\ callback /\ asked' = v /\ holds' = v
        /\ UNCHANGED <<state, started, joining, entry, ended, callback, tsfn, events,
                       service, online, network, handler, raised, delivered,
                       joins, frees, overtaken, crashed>>
    BY <2>1 DEF Ref
  <2>. QED
    BY <2>2
<1>9. CASE Free
  <2>1. /\ ~ended /\ ~crashed /\ state = "STARTED" /\ callback /\ tsfn = "open"
        /\ state' = "FREED" /\ frees' = frees + 1 /\ frees = 0
        /\ UNCHANGED <<started, joining, entry, ended, holds, events, handler, asked,
                       raised, delivered, joins, crashed>>
    BY <1>9 DEF Free, NodeFree
  <2>2. CASE service = "up"
    <3>1. /\ service' = "freed" /\ ~online' /\ network' = "left"
          /\ ~callback' /\ tsfn' = "closing"
      BY <1>9, <2>1, <2>2 DEF Free, NodeFree, AfterAbort, PointerAfterAbort
    <3>2. /\ online' \in BOOLEAN /\ callback' \in BOOLEAN
          /\ overtaken' \in BOOLEAN /\ (handler # "idle" => overtaken')
      BY <1>9, <2>1, <2>2 DEF Free, NodeFree, AfterAbort, PointerAfterAbort
    <3>. QED
      BY <2>1, <2>2, <3>1, <3>2
  <2>3. CASE service # "up"
    <3>1. UNCHANGED <<service, online, network, callback, tsfn, overtaken>>
      BY <1>9, <2>1, <2>3 DEF Free, NodeFree
    <3>2. service = "off"
      BY <2>1, <2>3
    <3>. QED
      BY <2>1, <3>1, <3>2
  <2>. QED
    BY <2>2, <2>3
<1>10. CASE OnEvent
  BY <1>10 DEF OnEvent
<1>11. CASE Exit
  BY <1>11 DEF Exit
<1>12. CASE DeleteFunction
  BY <1>12 DEF DeleteFunction
<1>13. CASE Finalise
  <2>. USE <1>13 DEF Finalise, FreeInFinaliser, NodeFree
  <2>1. Types'
    OBVIOUS
  <2>2. Flags'
    OBVIOUS
  <2>3. FunctionLives'
    OBVIOUS
  <2>4. FreedIsQuiet'
    OBVIOUS
  <2>5. AskedIsHeld'
    OBVIOUS
  <2>6. Counts'
    OBVIOUS
  <2>7. ListenerLive'
    OBVIOUS
  <2>8. RefHoldsProcess'
    OBVIOUS
  <2>. QED
    BY <2>1, <2>2, <2>3, <2>4, <2>5, <2>6, <2>7, <2>8
<1>14. CASE GetOnline
  BY <1>14 DEF GetOnline
<1>15. CASE GetReady
  BY <1>15 DEF GetReady
<1>16. CASE Raise
  BY <1>16 DEF Raise
<1>17. CASE ReadPointer
  BY <1>17 DEF ReadPointer
<1>18. CASE Handle
  <2>. USE <1>18 DEF Handle
  <2>1. Types'
    OBVIOUS
  <2>2. Flags'
    <3>1. callback' = callback \/ callback' = FALSE
      OBVIOUS
    <3>2. crashed' = FALSE \/ crashed' = (tsfn \in {"deleted", "finalised"})
      OBVIOUS
    <3>3. callback' \in BOOLEAN
      BY <3>1
    <3>4. crashed' \in BOOLEAN
      <4>1. CASE tsfn \in {"deleted", "finalised"}
        <5>1. crashed' = FALSE \/ crashed' = TRUE
          BY <3>2, <4>1
        <5>. QED
          BY <5>1
      <4>2. CASE tsfn \notin {"deleted", "finalised"}
        <5>1. crashed' = FALSE
          BY <3>2, <4>2
        <5>. QED
          BY <5>1
      <4>. QED
        BY <4>1, <4>2
    <3>5. UNCHANGED <<ended, holds, online, asked, overtaken>>
      OBVIOUS
    <3>. QED
      BY <3>3, <3>4, <3>5
  <2>3. FunctionLives'
    OBVIOUS
  <2>4. FreedIsQuiet'
    OBVIOUS
  <2>5. AskedIsHeld'
    OBVIOUS
  <2>6. Counts'
    OBVIOUS
  <2>7. ListenerLive'
    OBVIOUS
  <2>8. RefHoldsProcess'
    OBVIOUS
  <2>. QED
    BY <2>1, <2>2, <2>3, <2>4, <2>5, <2>6, <2>7, <2>8
<1>19. CASE UNCHANGED vars
  BY <1>19 DEF vars
<1>. QED
  BY <1>1, <1>2, <1>3, <1>4, <1>5, <1>6, <1>7, <1>8, <1>9, <1>10, <1>11, <1>12,
     <1>13, <1>14, <1>15, <1>16, <1>17, <1>18, <1>19 DEF Next, Quiescent

-----------------------------------------------------------------------------
(* What follows *)

\* The invariant says what the type invariant does.
LEMMA NodeInvTypes == ASSUME NodeInv PROVE TypeOK
<1>1. {ended, callback, holds, online, asked, overtaken, crashed} \subseteq BOOLEAN
  BY DEF NodeInv, Flags
<1>. QED
  BY <1>1 DEF NodeInv, Types, TypeOK

\* Once the node is freed no step calls the listener: the function is aborted.
LEMMA NodeStepQuiet ==
  ASSUME NodeInv, [Next]_vars, state = "FREED", service = "freed"
  PROVE  delivered' = delivered
<1>1. CASE OnEvent
  <2>1. tsfn = "open" /\ service # "off"
    BY <1>1 DEF OnEvent
  <2>. QED
    BY <2>1 DEF NodeInv, FreedIsQuiet
<1>2. CASE ~OnEvent
  BY <1>2 DEF Next, Start, StartNodeAndJoinNet, StartRefused, StartNode, PollStart,
     JoinNetwork, PollJoin, PollEntry, LeaveNetwork, Ref, Free, Exit,
     DeleteFunction, Finalise, GetOnline, GetReady, Raise, ReadPointer, Handle,
     Quiescent, historyVars, vars
<1>. QED
  BY <1>1, <1>2

\* The invariant holds of every behaviour.
THEOREM NodeInvariant == Spec => []NodeInv
<1>. QED
  BY NodeInit, NodeStep, PTL DEF Spec

\* Every state the node reaches has its type.
THEOREM NodeTypes == Spec => []TypeOK
<1>. QED
  BY NodeInvariant, NodeInvTypes, PTL

\* Before the process ends event_handler never calls a function that is no more,
\* unless node_free releases it after this call of event_handler has tested the
\* pointer: the test protects every call that begins after node_free.
THEOREM ListenerNeverGone == Spec => []ListenerLive
<1>1. NodeInv => ListenerLive
  BY DEF NodeInv
<1>. QED
  BY NodeInvariant, <1>1, PTL

\* A running node whose reference was asked for last keeps the process running.
THEOREM ReferenceHolds == Spec => []RefHoldsProcess
<1>1. NodeInv => RefHoldsProcess
  BY DEF NodeInv
<1>. QED
  BY NodeInvariant, <1>1, PTL

\* The listener hears nothing after free has freed the node.
THEOREM FreedHearsNothing == Spec => EventsEnd
<1>1. NodeInv /\ [Next]_vars => [state = "FREED" /\ service = "freed" => delivered' = delivered]_vars
  BY NodeStepQuiet
<1>. QED
  BY NodeInvariant, <1>1, PTL DEF Spec, EventsEnd
=============================================================================
