--------------------------- MODULE TcpCloseProofs ---------------------------
(***************************************************************************)
(* Theorems about the life of a socket, for every number of retries and of *)
(* calls of connect.                                                       *)
(***************************************************************************)
EXTENDS TcpClose, SumTheorems

Event   == {"connect", "noRoute", "failed", "data", "sent", "fin"} \cup Final
Op      == {"connect", "shutdown", "nagle", "ack", "accepted", "send"}
Message == [op : Op, pcb : {"null", "set"}]

\* The two failures that a "connect_error" listener may hear of.
ConnectErrors == {"noRoute", "failed"}

\* The connects in a mailbox.
Connects(box) == {i \in 1..Len(box) : box[i].op = "connect"}

\* A mailbox without certain messages: those that use a pcb, nagle without one,
\* and send.
Without(messages, box) == \A i \in 1..Len(box) : box[i] \notin messages
Users  == {m \in Message : Uses(m)}
Nagles == {m \in Message : m.op = "nagle" /\ m.pcb = "null"}
Sends  == {m \in Message : m.op = "send"}

\* None of the circumstances has been met that may end the process.
Sound == met \cap Fatal = {}

\* A single attempt to connect is under way, if one is: it is posted, or its
\* failure is on the way to its listener, or its listener waits for a timer.
\* lwIP has no connection meanwhile, and reports nothing else.
OneAttempt ==
  /\ connects <= 1 /\ Len(waiting) <= 1
  /\ connects = 0 => Connects(mailbox) = {} /\ timers = <<>> /\ waiting = <<>>
  /\ connects = 0 /\ origin = "client" => tcp = "none"
  /\ \A i, j \in Connects(mailbox) : i = j
  /\ Connects(mailbox) # {} => timers = <<>> /\ emitter = <<>>
  /\ timers # <<>> => Len(timers) = 1 /\ waiting = <<>> /\ emitter = <<>>
  /\ Connects(mailbox) # {} \/ timers # <<>> => tcp \in {"none", "closed"}
  /\ tcp \in {"none", "closed"} =>
       Len(emitter) <= 1 /\ emit = "set" /\ origin = "client"
  /\ Range(emitter) \cap ConnectErrors # {} => tcp \in {"none", "closed"}

\* The emitter is there for every callback that will use it: it is released
\* when lwIP has nothing more to report, and made before the callbacks are set.
EmitterPart ==
  /\ emit = "null" => tcp \in {"timeWait", "freed"}
  /\ emit = "unset" => callbacks = "none" /\ origin # "client"
  /\ callbacks = "none" /\ origin = "client" => tcp = "none"
  /\ callbacks = "recv" => origin # "client"
  /\ tcp = "none" => callbacks = "none" /\ emitter = <<>>
  /\ tcp = "synSent" => origin = "client"
  /\ origin = "dropped" => callbacks = "none"
  /\ origin # "client" /\ callbacks # "none" => connected

\* The pcb is there for every function that will use it: lwIP has not freed it
\* while one is posted or Socket::init goes on, and send is not posted before
\* the field is set.
PcbPart ==
  /\ field = "null" => callbacks = "none" \/ tcp = "freed"
  /\ callbacks = "none" => /\ field = "null" /\ emitter = <<>> /\ ~connected
                           /\ write \in {"none", "due"} /\ ~wrote
  /\ origin # "client" /\ callbacks # "all" => tcp # "freed"

PostedPart ==
  /\ Without(Nagles, mailbox)
  /\ tcp = "freed" => Without(Users, mailbox)
  /\ field = "null" => Without(Sends, mailbox)

\* Both sides have closed.
HandshakeOver == gotFin /\ sentFin /\ tcp \in {"timeWait", "freed"}

\* Which FINs the state of the pcb implies, and who may say that both are over.
Fins ==
  /\ tcp \in {"finWait1", "finWait2", "lastAck", "closing", "timeWait"} => sentFin
  /\ tcp \in {"closeWait", "lastAck", "closing", "timeWait"} => gotFin
  /\ "close" \in Range(emitter) => HandshakeOver
  /\ wr = "finished" /\ "endFirst" \notin met => HandshakeOver

\* The inductive invariant.
MemoryLasts == EmitterPart /\ PcbPart /\ PostedPart
CloseInv ==
  /\ TypeOK
  /\ Sound => alive /\ OneAttempt /\ MemoryLasts /\ Fins

-----------------------------------------------------------------------------
(* Queues *)

\* A queue without its first element, and what it holds.
LEMMA Taken ==
  ASSUME NEW S, NEW q \in Seq(S), q # <<>>
  PROVE  /\ Head(q) \in S /\ Head(q) = q[1] /\ Tail(q) \in Seq(S)
         /\ Len(q) \in Nat \ {0} /\ Len(Tail(q)) = Len(q) - 1
         /\ \A i \in 1..Len(Tail(q)) : Tail(q)[i] = q[i + 1] /\ i + 1 \in 1..Len(q)
         /\ Head(q) \in Range(q) /\ Range(Tail(q)) \subseteq Range(q)
<1>1. /\ Head(q) \in S /\ Head(q) = q[1] /\ Tail(q) \in Seq(S)
      /\ Len(q) \in Nat \ {0} /\ Len(Tail(q)) = Len(q) - 1
      /\ \A i \in 1..Len(Tail(q)) : Tail(q)[i] = q[i + 1]
  BY HeadTailProperties, EmptySeq
<1>2. \A i \in 1..Len(Tail(q)) : i + 1 \in 1..Len(q)
  BY <1>1
<1>3. /\ Range(q) = {q[i] : i \in 1..Len(q)}
      /\ Range(Tail(q)) = {Tail(q)[i] : i \in 1..Len(Tail(q))}
  BY <1>1, LenProperties DEF Range
<1>4. 1 \in 1..Len(q)
  BY <1>1
<1>. QED
  BY <1>1, <1>2, <1>3, <1>4, Zenon

\* A queue with one element more.
LEMMA Added ==
  ASSUME NEW S, NEW q \in Seq(S), NEW e \in S
  PROVE  /\ Append(q, e) \in Seq(S) /\ Append(q, e) # <<>>
         /\ Len(q) \in Nat /\ Len(Append(q, e)) = Len(q) + 1
         /\ \A i \in 1..Len(q) : Append(q, e)[i] = q[i]
         /\ Append(q, e)[Len(q) + 1] = e
BY AppendProperties, LenProperties

\* The connects in a mailbox as messages come and go, and what it is without.
LEMMA Mailbox ==
  ASSUME NEW q \in Seq(Message)
  PROVE  /\ \A m \in Message :
              /\ m.op # "connect" => Connects(Append(q, m)) = Connects(q)
              /\ Connects(q) = {} => \A i, j \in Connects(Append(q, m)) : i = j
              /\ \A M : Without(M, q) /\ m \notin M => Without(M, Append(q, m))
         /\ q # <<>> =>
              /\ (\A i, j \in Connects(q) : i = j) =>
                   /\ \A i, j \in Connects(Tail(q)) : i = j
                   /\ Head(q).op = "connect" => Connects(Tail(q)) = {}
              /\ Connects(Tail(q)) # {} => Connects(q) # {}
              /\ Head(q).op = "connect" => Connects(q) # {}
              /\ Head(q) \in Message
              /\ \A M : Without(M, q) => Head(q) \notin M /\ Without(M, Tail(q))
<1>1. ASSUME NEW m \in Message
      PROVE  /\ m.op # "connect" => Connects(Append(q, m)) = Connects(q)
             /\ Connects(q) = {} => \A i, j \in Connects(Append(q, m)) : i = j
             /\ \A M : Without(M, q) /\ m \notin M => Without(M, Append(q, m))
  <2>. DEFINE a == Append(q, m)
  <2>1. /\ Len(q) \in Nat /\ Len(a) = Len(q) + 1
        /\ \A i \in 1..Len(q) : a[i] = q[i]
        /\ a[Len(q) + 1] = m
    BY Added
  <2>. HIDE DEF a
  <2>2. 1..Len(a) = (1..Len(q)) \cup {Len(q) + 1} /\ Len(q) + 1 \notin 1..Len(q)
    BY <2>1
  <2>3. Connects(a) = Connects(q) \cup
                      (IF m.op = "connect" THEN {Len(q) + 1} ELSE {})
    BY <2>1, <2>2, Zenon DEF Connects
  <2>4. ASSUME NEW M, Without(M, q), m \notin M
        PROVE  Without(M, a)
    BY <2>1, <2>2, <2>4, Zenon DEF Without
  <2>. QED
    BY <2>3, <2>4, Zenon DEF a
<1>2. ASSUME q # <<>>
      PROVE  /\ (\A i, j \in Connects(q) : i = j) =>
                  /\ \A i, j \in Connects(Tail(q)) : i = j
                  /\ Head(q).op = "connect" => Connects(Tail(q)) = {}
             /\ Connects(Tail(q)) # {} => Connects(q) # {}
             /\ Head(q).op = "connect" => Connects(q) # {}
             /\ Head(q) \in Message
             /\ \A M : Without(M, q) => Head(q) \notin M /\ Without(M, Tail(q))
  <2>. DEFINE r == Tail(q)
  <2>1. /\ Head(q) = q[1] /\ Head(q) \in Message
        /\ Len(q) \in Nat \ {0} /\ Len(r) = Len(q) - 1
        /\ \A i \in 1..Len(r) : r[i] = q[i + 1] /\ i + 1 \in 1..Len(q)
    BY <1>2, Taken
  <2>. HIDE DEF r
  <2>2. 1 \in 1..Len(q) /\ \A i, j \in 1..Len(r) : i + 1 # 1 /\ (i + 1 = j + 1 => i = j)
    BY <2>1
  <2>3. \A i \in Connects(r) : i \in 1..Len(r) /\ i + 1 \in Connects(q)
    BY <2>1 DEF Connects
  <2>4. Head(q).op = "connect" => 1 \in Connects(q)
    BY <2>1, <2>2 DEF Connects
  <2>5. ASSUME \A i, j \in Connects(q) : i = j
        PROVE  /\ \A i, j \in Connects(r) : i = j
               /\ Head(q).op = "connect" => Connects(r) = {}
    BY <2>2, <2>3, <2>4, <2>5, Zenon
  <2>6. ASSUME NEW M, Without(M, q)
        PROVE  Head(q) \notin M /\ Without(M, r)
    BY <2>1, <2>2, <2>6, Zenon DEF Without
  <2>. QED
    BY <2>1, <2>3, <2>4, <2>5, <2>6, Zenon DEF r
<1>. QED
  BY <1>1, <1>2, Zenon

\* A queue with more elements, and what it holds.
LEMMA Queued ==
  ASSUME NEW S, NEW q \in Seq(S), NEW r \in Seq(S)
  PROVE  /\ q \o r \in Seq(S) /\ Len(q \o r) = Len(q) + Len(r)
         /\ Len(q) \in Nat /\ Len(r) \in Nat
         /\ Range(q \o r) = Range(q) \cup Range(r)
BY ConcatProperties, LenProperties, RangeConcatenation

\* What the short queues of events hold.
LEMMA Short ==
  /\ Range(<<>>) = {} /\ Len(<<>>) = 0
  /\ \A e : Range(<<e>>) = {e} /\ Len(<<e>>) = 1
<1>1. Range(<<>>) = {}
  BY DEF Range
<1>2. ASSUME NEW e PROVE Range(<<e>>) = {e}
  <2>1. DOMAIN <<e>> = {1} /\ <<e>>[1] = e
    OBVIOUS
  <2>. QED
    BY <2>1 DEF Range
<1>. QED
  BY <1>1, <1>2

\* Two events in a queue.
LEMMA Pair ==
  ASSUME NEW a, NEW b
  PROVE  /\ <<a>> \o <<b>> = <<a, b>> /\ <<a>> \o <<>> = <<a>>
         /\ Range(<<a, b>>) = {a, b} /\ Len(<<a, b>>) = 2
<1>. DEFINE S == {a, b}
<1>1. <<a>> \in Seq(S) /\ <<b>> \in Seq(S) /\ <<a, b>> \in Seq(S)
  OBVIOUS
<1>. HIDE DEF S
<1>2. Len(<<a>>) = 1 /\ Len(<<b>>) = 1 /\ Len(<<a, b>>) = 2
  OBVIOUS
<1>3. /\ <<a>> \o <<b>> \in Seq(S) /\ Len(<<a>> \o <<b>>) = 2
      /\ \A i \in 1..2 : (<<a>> \o <<b>>)[i] = IF i <= 1 THEN <<a>>[i] ELSE <<b>>[i - 1]
  BY <1>1, <1>2, ConcatProperties
<1>4. \A i \in 1..2 : (<<a>> \o <<b>>)[i] = <<a, b>>[i]
  <2>1. (<<a>> \o <<b>>)[1] = a /\ (<<a>> \o <<b>>)[2] = b
    BY <1>3
  <2>. QED
    BY <2>1
<1>5. <<a>> \o <<b>> = <<a, b>>
  BY <1>1, <1>2, <1>3, <1>4, SeqEqual
<1>6. Range(<<a, b>>) = {a, b}
  <2>1. DOMAIN <<a, b>> = {1, 2} /\ <<a, b>>[1] = a /\ <<a, b>>[2] = b
    OBVIOUS
  <2>. QED
    BY <2>1 DEF Range
<1>. QED
  BY <1>1, <1>2, <1>5, <1>6, ConcatEmptySeq

\* The listeners that try again are among those that waited, and each has a
\* retry left: by induction along the queue.
LEMMA RetryingIs ==
  ASSUME NEW err, waiting \in Seq(0..Attempts)
  PROVE  /\ Retrying(err) \in Seq(1..Attempts)
         /\ Len(Retrying(err)) \in Nat /\ Len(Retrying(err)) <= Len(waiting)
<1>. DEFINE next(g, n) == IF n = 0 THEN <<>>
                          ELSE IF Retries(err, waiting[n])
                            THEN Append(g[n - 1], waiting[n])
                            ELSE g[n - 1]
            Upto(g, m) == g = [n \in 0..m |-> next(g, n)]
            upTo == CHOOSE g : Upto(g, Len(waiting))
            defined == {m \in Nat : \E g : Upto(g, m)}
            short == {n \in Nat : n <= Len(waiting) =>
                        /\ upTo[n] \in Seq(1..Attempts)
                        /\ Len(upTo[n]) \in Nat /\ Len(upTo[n]) <= n}
<1>0. /\ Len(waiting) \in Nat
      /\ \A n \in 1..Len(waiting) :
           Retries(err, waiting[n]) => waiting[n] \in 1..Attempts
  BY CloseAssumption, ElementOfSeq, LenProperties DEF Retries, CloseAssumption
<1>1. 0 \in defined
  <2>. DEFINE g == [n \in 0..0 |-> <<>>]
  <2>1. Upto(g, 0)
    OBVIOUS
  <2>. QED
    BY <2>1
<1>2. ASSUME NEW m \in Nat, m \in defined PROVE m + 1 \in defined
  <2>0. PICK g : Upto(g, m)
    BY <1>2
  <2>1. \A n \in 0..m : g[n] = next(g, n)
    BY <2>0, Zenon
  <2>. DEFINE h == [n \in 0..(m + 1) |-> IF n <= m THEN g[n] ELSE next(g, n)]
  <2>2. ASSUME NEW n \in 0..(m + 1) PROVE h[n] = next(h, n)
    <3>1. CASE n = 0
      <4>1. 0 \in 0..m /\ g[0] = next(g, 0)
        BY <2>1
      <4>. QED
        BY <3>1, <4>1
    <3>2. CASE n \in 1..m
      <4>1. g[n] = next(g, n)
        BY <2>1, <3>2
      <4>2. h[n] = g[n] /\ h[n - 1] = g[n - 1]
        BY <3>2
      <4>. QED
        BY <4>1, <4>2
    <3>3. CASE n = m + 1
      <4>1. h[n] = next(g, n) /\ h[n - 1] = g[n - 1]
        BY <3>3
      <4>. QED
        BY <4>1
    <3>. QED
      BY <3>1, <3>2, <3>3
  <2>3. Upto(h, m + 1)
    BY <2>2
  <2>. HIDE DEF h, Upto
  <2>. QED
    BY <2>3
<1>3. Len(waiting) \in defined
  BY <1>0, <1>1, <1>2, NumberInduction
<1>4. Upto(upTo, Len(waiting))
  BY <1>3
<1>. HIDE DEF upTo, defined
<1>5. \A n \in 0..Len(waiting) : upTo[n] = next(upTo, n)
  BY <1>4, Zenon
<1>6. 0 \in short
  <2>1. upTo[0] = <<>>
    BY <1>0, <1>5
  <2>2. upTo[0] \in Seq(1..Attempts) /\ Len(upTo[0]) = 0
    BY <2>1, EmptySeq
  <2>. QED
    BY <2>2
<1>7. ASSUME NEW n \in Nat, n \in short PROVE n + 1 \in short
  <2>1. SUFFICES ASSUME n + 1 <= Len(waiting)
                 PROVE  /\ upTo[n + 1] \in Seq(1..Attempts)
                        /\ Len(upTo[n + 1]) \in Nat /\ Len(upTo[n + 1]) <= n + 1
    OBVIOUS
  <2>2. /\ upTo[n] \in Seq(1..Attempts)
        /\ Len(upTo[n]) \in Nat /\ Len(upTo[n]) <= n
    BY <1>0, <1>7, <2>1
  <2>3. n + 1 \in 1..Len(waiting) /\ upTo[n + 1] = next(upTo, n + 1)
    BY <1>0, <1>5, <2>1
  <2>4. upTo[n + 1] = IF Retries(err, waiting[n + 1])
                        THEN Append(upTo[n], waiting[n + 1]) ELSE upTo[n]
    BY <2>3
  <2>5. CASE Retries(err, waiting[n + 1])
    <3>1. waiting[n + 1] \in 1..Attempts
      BY <1>0, <2>3, <2>5
    <3>. HIDE DEF Upto
    <3>. QED
      BY <2>2, <2>4, <2>5, <3>1, Added
  <2>6. CASE ~Retries(err, waiting[n + 1])
    BY <2>2, <2>4, <2>6
  <2>. QED
    BY <2>5, <2>6
<1>8. Len(waiting) \in short
  BY <1>0, <1>6, <1>7, NumberInduction
<1>9. Retrying(err) = upTo[Len(waiting)]
  BY DEF Retrying, upTo
<1>. QED
  BY <1>0, <1>8, <1>9

-----------------------------------------------------------------------------
(* The type invariant *)

\* What a callback does with the emitter.
LEMMA EmitTypes ==
  ASSUME TypeOK, NEW events \in Seq(Event), Emit(events)
  PROVE  /\ emitter' \in Seq(Event) /\ emit' \in {"unset", "set", "null"}
         /\ alive' \in BOOLEAN
<1>1. emitter \in Seq(Event)
  BY DEF TypeOK, Event
<1>2. CASE events = <<>> /\ UNCHANGED <<emitter, emit, alive>>
  BY <1>1, <1>2 DEF TypeOK
<1>3. ASSUME NEW last, emitter' = emitter \o events,
             emit' = IF last = {} THEN "set" ELSE "null",
             alive' = (last \subseteq {Len(events)})
      PROVE  /\ emitter' \in Seq(Event) /\ emit' \in {"unset", "set", "null"}
             /\ alive' \in BOOLEAN
  <2>1. emitter' \in Seq(Event)
    BY <1>1, <1>3, Queued
  <2>2. emit' \in {"unset", "set", "null"}
    BY <1>3
  <2>3. alive' \in BOOLEAN
    BY <1>3, Zenon
  <2>. QED
    BY <2>1, <2>2, <2>3
<1>4. CASE emit # "set" /\ alive' \in {FALSE, TRUE} /\ UNCHANGED <<emitter, emit>>
  BY <1>1, <1>4 DEF TypeOK
<1>. QED
  BY <1>2, <1>3, <1>4, Zenon DEF Emit

\* The circumstances collected.
LEMMA MeetTypes ==
  ASSUME TypeOK, NEW which \in SUBSET (Fatal \cup Unclosed), Meet(which)
  PROVE  met' \subseteq Fatal \cup Unclosed
BY DEF TypeOK, Meet

\* A method that posts a function, and a function that uses what it was given.
LEMMA PostTypes ==
  ASSUME TypeOK
  PROVE  /\ \A op \in Op : Post(op) => mailbox' \in Seq(Message)
         /\ \A op \in Op, which \in SUBSET (Fatal \cup Unclosed) : Call(op, which) =>
              mailbox' \in Seq(Message) /\ met' \subseteq Fatal \cup Unclosed
         /\ Stale \/ UseGiven => alive' \in BOOLEAN
         /\ Overtaken \subseteq Fatal
<1>1. ASSUME NEW op \in Op, Post(op) PROVE mailbox' \in Seq(Message)
  <2>1. [op |-> op, pcb |-> field] \in Message /\ mailbox \in Seq(Message)
    BY DEF TypeOK, Message, Op
  <2>. QED
    BY <1>1, <2>1, Added DEF Post
<1>2. ASSUME NEW op \in Op, NEW which \in SUBSET (Fatal \cup Unclosed), Call(op, which)
      PROVE  mailbox' \in Seq(Message) /\ met' \subseteq Fatal \cup Unclosed
  <2>1. which \cup Late(op) \in SUBSET (Fatal \cup Unclosed)
    BY DEF Late, Fatal
  <2>. QED
    BY <1>1, <1>2, <2>1, MeetTypes DEF Call
<1>3. ASSUME Stale \/ UseGiven PROVE alive' \in BOOLEAN
  BY <1>3 DEF Stale, UseGiven, TypeOK
<1>4. Overtaken \subseteq Fatal
  BY DEF Overtaken, Fatal
<1>. QED
  BY <1>1, <1>2, <1>3, <1>4

\* The events of the callbacks.
LEMMA Callbacks ==
  /\ <<>> \in Seq(Event) /\ \A e \in Event : <<e>> \in Seq(Event)
  /\ Received("data") \in Seq(Event) /\ Received("fin") \in Seq(Event)
  /\ Received("data") \o Received("fin") \in Seq(Event)
<1>1. <<>> \in Seq(Event) /\ \A e \in Event : <<e>> \in Seq(Event)
  OBVIOUS
<1>2. ASSUME NEW e \in {"data", "fin"} PROVE Received(e) \in Seq(Event)
  <2>1. <<e>> \in Seq(Event) /\ <<"close">> \in Seq(Event)
    BY <1>1 DEF Event, Final
  <2>. QED
    BY <1>1, <2>1, Queued DEF Received
<1>. QED
  BY <1>1, <1>2, Queued

\* Every step keeps the types.
LEMMA TypeStep == ASSUME TypeOK, Next PROVE TypeOK'
<1>. USE DEF setup, jsVars, nativeVars, Fatal, Unclosed
<1>1. /\ waiting \in Seq(0..Attempts) /\ timers \in Seq(1..Attempts)
      /\ emitter \in Seq(Event) /\ mailbox \in Seq(Message)
      /\ Attempts \in Nat /\ MaxConnects \in Nat
  BY CloseAssumption DEF TypeOK, Event, Message, Op, CloseAssumption
<1>2. ASSUME NEW op \in Op,
             NEW which \in SUBSET (Fatal \cup Unclosed), Call(op, which)
      PROVE  mailbox' \in Seq(Message) /\ met' \subseteq Fatal \cup Unclosed
  BY <1>2, PostTypes, Zenon
<1>. HIDE DEF Fatal, Unclosed
<1>3. ASSUME NEW op, Take(op) PROVE mailbox' \in Seq(Message)
  BY <1>1, <1>3, Taken DEF Take
<1>4. ASSUME NEW event, NextEvent(event) PROVE emitter' \in Seq(Event)
  BY <1>1, <1>4, Taken DEF NextEvent
<1>5. ASSUME NEW a \in 0..Attempts, PostConnect(a)
      PROVE  waiting' \in Seq(0..Attempts) /\ mailbox' \in Seq(Message)
  BY <1>1, <1>5, Added, PostTypes DEF PostConnect, Op
<1>6. ASSUME Stale \/ UseGiven PROVE alive' \in BOOLEAN
  BY <1>6, PostTypes
<1>7. Overtaken \subseteq Fatal
  BY PostTypes
\* The application
<1>10. CASE Connect
  <2>1. Attempts \in 0..Attempts /\ connects' \in 0..MaxConnects
    BY <1>1, <1>10 DEF Connect, TypeOK
  <2>2. met' \subseteq Fatal \cup Unclosed
    BY <1>10, MeetTypes DEF Connect, Fatal
  <2>. QED
    BY <1>5, <1>10, <2>1, <2>2 DEF Connect, TypeOK, Message, Op
<1>11. CASE End
  BY <1>11 DEF End, TypeOK
<1>12. CASE SetNoDelay
  <2>1. /\ "nagle" \in Op
        /\ (IF field = "null" THEN {"noDelay"} ELSE {}) \in SUBSET (Fatal \cup Unclosed)
    BY DEF Op, Fatal
  <2>2. mailbox' \in Seq(Message) /\ met' \subseteq Fatal \cup Unclosed
    BY <1>2, <1>12, <2>1, Zenon DEF SetNoDelay
  <2>. QED
    BY <1>12, <2>2 DEF SetNoDelay, TypeOK, Message, Op
<1>8. ASSUME \/ write' = "posted" /\ Call("send", {})
             \/ write' \in {write, "none", "due"} /\ UNCHANGED <<mailbox, met>>
      PROVE  /\ mailbox' \in Seq(Message) /\ met' \subseteq Fatal \cup Unclosed
             /\ write' \in {"none", "due", "posted", "taken"}
  <2>1. "send" \in Op /\ {} \in SUBSET (Fatal \cup Unclosed)
    BY DEF Op
  <2>2. CASE write' = "posted" /\ Call("send", {})
    BY <1>2, <2>1, <2>2
  <2>3. CASE write' \in {write, "none", "due"} /\ UNCHANGED <<mailbox, met>>
    BY <1>1, <2>3 DEF TypeOK
  <2>. QED
    BY <1>8, <2>2, <2>3
<1>9. CASE Write \/ OnSendResult
  <2>1. /\ mailbox' \in Seq(Message) /\ met' \subseteq Fatal \cup Unclosed
        /\ write' \in {"none", "due", "posted", "taken"}
    BY <1>8, <1>9 DEF Write, OnSendResult
  <2>2. UNCHANGED <<setup, jsVars, emitter, nativeVars, alive, connects>>
    BY <1>9 DEF Write, OnSendResult
  <2>. QED
    BY <2>1, <2>2 DEF TypeOK, Message, Op
<1>34. CASE Ack
  <2>1. "ack" \in Op /\ {} \in SUBSET (Fatal \cup Unclosed)
    BY DEF Op
  <2>2. mailbox' \in Seq(Message) /\ met' \subseteq Fatal \cup Unclosed
    BY <1>2, <1>34, <2>1 DEF Ack
  <2>3. unread' \in BOOLEAN
    BY <1>34, Zenon DEF Ack
  <2>4. UNCHANGED <<setup, connected, waiting, timers, wr, rd, destroyed, write,
                    emitter, nativeVars, alive, connects>>
    BY <1>34 DEF Ack
  <2>. QED
    BY <2>2, <2>3, <2>4 DEF TypeOK, Message, Op
<1>13. CASE Destroy
  <2>1. met' \subseteq Fatal \cup Unclosed
    BY <1>13, MeetTypes DEF Destroy, Unclosed
  <2>. QED
    BY <1>13, <2>1 DEF Destroy, TypeOK
<1>14. CASE Retry
  <2>1. /\ Head(timers) \in 1..Attempts /\ timers' \in Seq(1..Attempts)
        /\ PostConnect(Head(timers) - 1)
    BY <1>1, <1>14, Taken DEF Retry
  <2>2. Head(timers) - 1 \in 0..Attempts
    BY <1>1, <2>1
  <2>3. waiting' \in Seq(0..Attempts) /\ mailbox' \in Seq(Message)
    BY <1>5, <2>1, <2>2
  <2>. QED
    BY <1>14, <2>1, <2>3 DEF Retry, TypeOK, Message, Op
\* The streams
<1>15. CASE _final
  <2>1. /\ "shutdown" \in Op
        /\ (IF connected THEN {} ELSE {"endFirst"}) \in SUBSET (Fatal \cup Unclosed)
    BY DEF Op, Unclosed
  <2>2. mailbox' \in Seq(Message) /\ met' \subseteq Fatal \cup Unclosed
    BY <1>2, <1>15, <2>1, Zenon DEF _final
  <2>. QED
    BY <1>15, <2>2 DEF _final, AfterFinal, TypeOK, Message, Op
<1>16. CASE ReadEnd
  BY <1>16 DEF ReadEnd, AutoEnd, TypeOK
<1>17. CASE AutoDestroy
  BY <1>17 DEF AutoDestroy, TypeOK
\* The events
<1>18. CASE OnConnect \/ OnSent
  <2>1. /\ mailbox' \in Seq(Message) /\ met' \subseteq Fatal \cup Unclosed
        /\ write' \in {"none", "due", "posted", "taken"}
    BY <1>8, <1>18 DEF OnConnect, OnSent
  <2>2. /\ emitter' \in Seq(Event) /\ connected' \in BOOLEAN
        /\ UNCHANGED <<setup, waiting, timers, wr, rd, unread, destroyed, nativeVars,
                       alive, connects>>
    BY <1>4, <1>18 DEF OnConnect, OnSent, TypeOK
  <2>. QED
    BY <2>1, <2>2 DEF TypeOK, Event, Message, Op
<1>19. ASSUME NEW err, OnConnectError(err) PROVE TypeOK'
  <2>1. Retrying(err) \in Seq(1..Attempts)
    BY <1>1, RetryingIs
  <2>2. timers' \in Seq(1..Attempts) /\ waiting' \in Seq(0..Attempts)
    BY <1>1, <1>19, <2>1, Queued DEF OnConnectError
  <2>. QED
    BY <1>4, <1>19, <2>2 DEF OnConnectError, TypeOK, Event
<1>20. CASE OnFin
  BY <1>4, <1>20 DEF OnFin, TypeOK, Event
<1>21. CASE OnData
  BY <1>4, <1>21 DEF OnData, TypeOK, Event
<1>22. CASE OnClose
  BY <1>4, <1>22 DEF OnClose, TypeOK, Event
<1>23. CASE OnError
  BY <1>4, <1>23 DEF OnError, TypeOK, Event
<1>24. CASE OnAccepted
  <2>1. alive' \in BOOLEAN
    BY <1>6, <1>24 DEF OnAccepted, TypeOK
  <2>2. met' \subseteq Fatal \cup Unclosed
    BY <1>24, MeetTypes DEF OnAccepted, Fatal
  <2>3. /\ connected' \in BOOLEAN /\ emit' \in {"unset", "set", "null"}
        /\ callbacks' = "recv" /\ field' = "set"
        /\ UNCHANGED <<setup, waiting, timers, wr, rd, unread, destroyed, write, emitter,
                       mailbox, tcp, wrote, gotFin, sentFin, connects>>
    BY <1>24 DEF OnAccepted, TypeOK
  <2>. QED
    BY <2>1, <2>2, <2>3 DEF TypeOK
<1>35. CASE Initialised
  <2>1. alive' \in BOOLEAN
    BY <1>6, <1>35 DEF Initialised, TypeOK
  <2>2. mailbox' \in Seq(Message)
    BY <1>35, PostTypes DEF Initialised, Op
  <2>. QED
    BY <1>35, <2>1, <2>2 DEF Initialised, TypeOK, Message, Op
\* lwIP
<1>25. CASE RunConnect
  <2>1. mailbox' \in Seq(Message)
    BY <1>3, <1>25 DEF RunConnect
  <2>2. \A err \in {"noRoute", "failed"} : <<err>> \in Seq(Event)
    BY Callbacks DEF Event
  <2>3. /\ emitter' \in Seq(Event) /\ emit' \in {"unset", "set", "null"}
        /\ alive' \in BOOLEAN
    BY <1>1, <1>6, <1>25, <2>2, Callbacks, EmitTypes DEF RunConnect, TypeOK
  <2>5. tcp' \in {"synSent", "closed", tcp} /\ field' = "set" /\ callbacks' = "all"
    BY <1>25 DEF RunConnect
  <2>6. UNCHANGED <<setup, jsVars, write, wrote, gotFin, sentFin, connects, met>>
    BY <1>25 DEF RunConnect
  <2>. QED
    BY <2>1, <2>3, <2>5, <2>6 DEF TypeOK, Event, Message, Op
<1>26. CASE RunShutdown
  <2>1. alive' \in BOOLEAN
    BY <1>6, <1>26 DEF RunShutdown
  <2>2. /\ tcp' \in {"finWait1", "lastAck", tcp} /\ sentFin' \in BOOLEAN
        /\ UNCHANGED <<setup, jsVars, write, emitter, field, emit, callbacks, wrote,
                       gotFin, connects, met>>
    BY <1>26 DEF RunShutdown, AfterShutdown, TypeOK
  <2>. QED
    BY <1>3, <1>26, <2>1, <2>2 DEF RunShutdown, TypeOK, Message, Op
<1>27. CASE RunNagle \/ RunAck \/ RunAccepted
  <2>1. alive' \in BOOLEAN
    BY <1>6, <1>27 DEF RunNagle, RunAck, RunAccepted
  <2>2. mailbox' \in Seq(Message)
    BY <1>3, <1>27 DEF RunNagle, RunAck, RunAccepted
  <2>3. UNCHANGED <<setup, jsVars, write, emitter, nativeVars, connects, met>>
    BY <1>27 DEF RunNagle, RunAck, RunAccepted
  <2>. QED
    BY <2>1, <2>2, <2>3 DEF TypeOK, Message, Op
<1>36. CASE RunSend
  <2>1. alive' \in BOOLEAN
    BY <1>6, <1>36 DEF RunSend, TypeOK
  <2>. QED
    BY <1>3, <1>36, <2>1 DEF RunSend, TypeOK, Message, Op
<1>37. ASSUME NEW e \in Event, Emit(<<e>>)
       PROVE  /\ emitter' \in Seq(Event) /\ emit' \in {"unset", "set", "null"}
              /\ alive' \in BOOLEAN
  BY <1>37, Callbacks, EmitTypes
<1>38. CASE PeerData \/ PeerAck
  <2>1. /\ emitter' \in Seq(Event) /\ emit' \in {"unset", "set", "null"}
        /\ alive' \in BOOLEAN
    BY <1>37, <1>38 DEF PeerData, PeerAck, Event
  <2>2. UNCHANGED <<setup, jsVars, write, mailbox, field, callbacks, tcp, wrote, gotFin,
                    sentFin, connects, met>>
    BY <1>38 DEF PeerData, PeerAck
  <2>. QED
    BY <2>1, <2>2 DEF TypeOK, Event
<1>28. CASE Handshake
  <2>1. /\ emitter' \in Seq(Event) /\ emit' \in {"unset", "set", "null"}
        /\ alive' \in BOOLEAN
    BY <1>28, Callbacks, EmitTypes DEF Handshake, Event
  <2>. QED
    BY <1>28, <2>1 DEF Handshake, TypeOK, Event
<1>29. CASE PeerFin
  <2>1. /\ emitter' \in Seq(Event) /\ emit' \in {"unset", "set", "null"}
        /\ alive' \in BOOLEAN
    BY <1>29, Callbacks, EmitTypes DEF PeerFin
  <2>2. met' \subseteq Fatal \cup Unclosed
    <3>1. {"dataFin", "crossing", "early"} \subseteq Fatal \cup Unclosed
      BY DEF Fatal, Unclosed
    <3>. QED
      BY <1>29, <3>1, MeetTypes DEF PeerFin
  <2>3. /\ tcp' \in {"closeWait", "closedByLwip", "closing", "timeWait"}
        /\ gotFin' /\ sentFin' \in BOOLEAN
        /\ UNCHANGED <<setup, jsVars, write, mailbox, field, callbacks, wrote, connects>>
    BY <1>29 DEF PeerFin, TypeOK
  <2>. QED
    BY <1>29, <2>1, <2>2, <2>3 DEF TypeOK, Event, PeerFin
<1>30. ASSUME NEW e \in Final, PcbGone(e) PROVE TypeOK'
  <2>1. <<e>> \in Seq(Event)
    BY Callbacks DEF Event
  <2>2. /\ emitter' \in Seq(Event) /\ emit' \in {"unset", "set", "null"}
        /\ alive' \in BOOLEAN
    BY <1>1, <1>30, <2>1, EmitTypes DEF PcbGone, TypeOK
  <2>3. met' \subseteq Fatal \cup Unclosed /\ field' \in {"null", "set"}
    <3>1. /\ Overtaken \subseteq Fatal \cup Unclosed
          /\ Overtaken \cup {"early"} \subseteq Fatal \cup Unclosed
      BY <1>7 DEF Unclosed
    <3>. QED
      BY <1>30, <3>1, MeetTypes DEF PcbGone, TypeOK
  <2>. QED
    BY <1>30, <2>2, <2>3 DEF PcbGone, TypeOK, Event
<1>31. CASE FinAcked
  <2>1. CASE tcp = "lastAck" /\ PcbGone("close")
    BY <1>30, <2>1 DEF Final
  <2>2. CASE /\ tcp' \in {"finWait2", "timeWait", "freed"}
             /\ UNCHANGED met \/ Meet(Overtaken)
             /\ UNCHANGED <<setup, jsVars, write, emitter, mailbox, field, emit, callbacks,
                            wrote, gotFin, sentFin, alive, connects>>
    <3>1. met' \subseteq Fatal \cup Unclosed
      BY <1>7, <2>2, MeetTypes DEF TypeOK
    <3>. QED
      BY <2>2, <3>1 DEF TypeOK
  <2>. QED
    BY <1>31, <2>1, <2>2 DEF FinAcked
<1>32. CASE Reset
  BY <1>30, <1>32 DEF Reset, Final
<1>33. CASE TimeWaitOver
  <2>1. met' \subseteq Fatal \cup Unclosed
    BY <1>7, <1>33, MeetTypes DEF TimeWaitOver
  <2>. QED
    BY <1>33, <2>1 DEF TimeWaitOver, TypeOK
<1>. QED
  BY <1>9, <1>10, <1>11, <1>12, <1>13, <1>14, <1>15, <1>16, <1>17, <1>18, <1>19,
     <1>20, <1>21, <1>22, <1>23, <1>24, <1>25, <1>26, <1>27, <1>28, <1>29, <1>31,
     <1>32, <1>33, <1>34, <1>35, <1>36, <1>38, Zenon
     DEF Next, JavaScript, Application, Stream, Events, Accepting, Posted, Network

-----------------------------------------------------------------------------
(* What the steps do while nothing fatal is met *)

\* A circumstance that is met.
LEMMA Met ==
  ASSUME NEW which, Meet(which), Sound'
  PROVE  Sound /\ met' = met \cup which /\ which \cap Fatal = {}
BY DEF Meet, Sound

\* What is fatal stays so.
LEMMA SoundBefore == ASSUME Next, Sound' PROVE Sound
<1>1. CASE met' = met
  BY <1>1 DEF Sound
<1>2. CASE \E which : Meet(which)
  BY <1>2, Met
<1>3. met' = met \/ (\E which : Meet(which))
  <2>1. CASE Application \/ Retry \/ Stream
    BY <2>1, Zenon
       DEF Application, Connect, Write, End, SetNoDelay, Destroy, Retry, Stream,
           OnSendResult, Ack, _final, ReadEnd, AutoDestroy, Call
  <2>2. CASE Events
    BY <2>2, Zenon
       DEF Events, OnConnect, OnConnectError, OnFin, OnData, OnSent, OnClose, OnError,
           Call
  <2>3. CASE Accepting \/ Posted
    BY <2>3, Zenon
       DEF Accepting, OnAccepted, Initialised, Posted, RunConnect, RunShutdown,
           RunNagle, RunAck, RunAccepted, RunSend
  <2>4. CASE Network
    BY <2>4, Zenon
       DEF Network, Handshake, PeerData, PeerAck, PeerFin, FinAcked, Reset,
           TimeWaitOver, PcbGone
  <2>. QED
    BY <2>1, <2>2, <2>3, <2>4 DEF Next, JavaScript
<1>. QED
  BY <1>1, <1>2, <1>3

\* What the invariant says while nothing fatal is met.
LEMMA While ==
  ASSUME CloseInv, Next, Sound'
  PROVE  /\ TypeOK /\ alive /\ OneAttempt /\ Fins
         /\ EmitterPart /\ PcbPart /\ PostedPart
         /\ emitter \in Seq(Event) /\ mailbox \in Seq(Message)
         /\ waiting \in Seq(0..Attempts) /\ timers \in Seq(1..Attempts)
BY SoundBefore DEF CloseInv, MemoryLasts, TypeOK, Event, Message, Op

\* A method that is not called too late.
LEMMA CallIs ==
  ASSUME NEW op, NEW which, Call(op, which), Sound'
  PROVE  /\ Post(op) /\ which \cap Fatal = {} /\ met' = met \cup which
         /\ tcp = "freed" => op # "send" /\ field # "set"
<1>1. /\ Post(op) /\ met' = met \cup (which \cup Late(op))
      /\ (which \cup Late(op)) \cap Fatal = {}
  BY Met DEF Call
<1>2. "late" \in Fatal
  BY DEF Fatal
<1>3. Late(op) = {} /\ (tcp = "freed" => op # "send" /\ field # "set")
  BY <1>1, <1>2 DEF Late
<1>. QED
  BY <1>1, <1>3

\* A pcb that is freed when nothing will use it.
LEMMA FreedIs ==
  ASSUME CloseInv, Next, Sound', NEW which, Meet(which), Overtaken \subseteq which
  PROVE  Without(Users, mailbox) /\ (origin = "client" \/ callbacks = "all")
<1>1. Overtaken = {}
  <2>1. which \cap Fatal = {}
    BY Met
  <2>. QED
    BY <2>1, PostTypes, While
<1>2. /\ ~\E i \in DOMAIN mailbox : Uses(mailbox[i])
      /\ origin = "client" \/ callbacks = "all"
  BY <1>1 DEF Overtaken
<1>3. DOMAIN mailbox = 1..Len(mailbox)
  BY While, LenProperties
<1>. QED
  BY <1>2, <1>3, Zenon DEF Without, Users

\* A callback that has an emitter, and reports no last event but at the end.
LEMMA Reports ==
  ASSUME emitter \in Seq(Event), NEW events \in Seq(Event), Emit(events),
         emit = "set", alive,
         \A i \in 1..Len(events) : events[i] \in Final => i = Len(events)
  PROVE  /\ alive' /\ emitter' = emitter \o events
         /\ emit' = IF Range(events) \cap Final = {} THEN "set" ELSE "null"
<1>. DEFINE last == {i \in DOMAIN events : events[i] \in Final}
<1>1. DOMAIN events = 1..Len(events) /\ emitter \o <<>> = emitter
  BY LenProperties, ConcatEmptySeq
<1>2. last \subseteq {Len(events)} /\ (last = {} <=> Range(events) \cap Final = {})
  BY <1>1 DEF Range
<1>3. CASE events = <<>> /\ UNCHANGED <<emitter, emit, alive>>
  <2>1. Range(events) = {}
    BY <1>3, Short
  <2>. QED
    BY <1>1, <1>3, <2>1
<1>4. CASE /\ emitter' = emitter \o events
           /\ emit' = IF last = {} THEN "set" ELSE "null"
           /\ alive' = (last \subseteq {Len(events)})
  <2>. HIDE DEF last
  <2>1. alive'
    BY <1>2, <1>4, Zenon
  <2>. QED
    BY <1>2, <1>4, <2>1
<1>. QED
  BY <1>3, <1>4, Zenon DEF Emit

\* A callback that reports one event.
LEMMA ReportsOne ==
  ASSUME emitter \in Seq(Event), NEW e \in Event, Emit(<<e>>), emit = "set", alive
  PROVE  /\ alive' /\ emitter' = emitter \o <<e>>
         /\ Range(emitter') = Range(emitter) \cup {e}
         /\ Len(emitter') = Len(emitter) + 1
         /\ emit' = IF e \in Final THEN "null" ELSE "set"
<1>1. <<e>> \in Seq(Event) /\ Range(<<e>>) = {e} /\ Len(<<e>>) = 1
  BY Callbacks, Short
<1>2. \A i \in 1..Len(<<e>>) : <<e>>[i] \in Final => i = Len(<<e>>)
  BY <1>1
<1>3. /\ alive' /\ emitter' = emitter \o <<e>>
      /\ emit' = IF {e} \cap Final = {} THEN "set" ELSE "null"
  BY <1>1, <1>2, Reports
<1>4. /\ Range(emitter \o <<e>>) = Range(emitter) \cup Range(<<e>>)
      /\ Len(emitter \o <<e>>) = Len(emitter) + Len(<<e>>)
  <2>. DEFINE one == <<e>>
  <2>1. one \in Seq(Event)
    BY <1>1
  <2>. HIDE DEF one
  <2>2. /\ Range(emitter \o one) = Range(emitter) \cup Range(one)
        /\ Len(emitter \o one) = Len(emitter) + Len(one)
    BY <2>1, Queued
  <2>. QED
    BY <2>2 DEF one
<1>. QED
  BY <1>1, <1>3, <1>4

\* The FIN of the peer.
LEMMA PeerFinIs ==
  ASSUME CloseInv, Next, Sound', PeerFin
  PROVE  /\ alive' /\ Range(emitter') \subseteq Range(emitter) \cup
                      {"data", "fin"} \cup {e \in {"close"} : tcp' = "timeWait"}
         /\ emit' = IF callbacks = "none" THEN emit
                    ELSE IF tcp' = "timeWait" THEN "null" ELSE "set"
         /\ callbacks = "none" => emitter' = emitter
<1>0. /\ alive /\ emitter \in Seq(Event)
      /\ tcp \in {"established", "finWait1", "finWait2"}
      /\ callbacks # "none" => emit = "set"
  BY While DEF PeerFin, EmitterPart, TypeOK
<1>1. CASE callbacks = "none"
  <2>1. Emit(<<>>)
    BY <1>1 DEF PeerFin
  <2>2. UNCHANGED <<emitter, emit, alive>>
    BY <2>1 DEF Emit
  <2>. QED
    BY <1>0, <1>1, <2>2
<1>2. CASE callbacks # "none"
  <2>. DEFINE with == IF tcp' = "timeWait" THEN <<"close">> ELSE <<>>
              E1 == <<"fin">> \o with
              E2 == <<"data">> \o with
  <2>0. /\ Received("fin") = E1 /\ Received("data") = E2
        /\ E1 \in Seq(Event) /\ E2 \o E1 \in Seq(Event)
    BY Callbacks DEF Received, ClosesIn
  <2>1. PICK withData \in BOOLEAN :
          /\ Emit(IF withData THEN E2 \o E1 ELSE E1)
          /\ withData => tcp' # "timeWait"
    <3>1. PICK d \in BOOLEAN :
            /\ Emit(IF d THEN E2 \o E1 ELSE E1)
            /\ Meet({c \in {"dataFin", "crossing", "early"} :
                       CASE c = "dataFin" -> d /\ tcp' = "timeWait"
                         [] c = "crossing" -> tcp' = "closing"
                         [] c = "early" -> callbacks = "none"})
      BY <1>2, <2>0 DEF PeerFin
    <3>2. {c \in {"dataFin", "crossing", "early"} :
             CASE c = "dataFin" -> d /\ tcp' = "timeWait"
               [] c = "crossing" -> tcp' = "closing"
               [] c = "early" -> callbacks = "none"} \cap Fatal = {}
      BY <3>1, Met
    <3>3. "dataFin" \in Fatal
      BY DEF Fatal
    <3>4. d => tcp' # "timeWait"
      BY <3>2, <3>3
    <3>. QED
      BY <3>1, <3>4
  <2>2. CASE withData
    <3>. DEFINE events == <<"data", "fin">>
    <3>1. E2 \o E1 = events /\ tcp' # "timeWait"
      <4>1. tcp' # "timeWait" /\ E1 = <<"fin">> \o <<>> /\ E2 = <<"data">> \o <<>>
        BY <2>1, <2>2
      <4>. QED
        BY <4>1, Pair
    <3>2. Emit(events) /\ events \in Seq(Event)
      BY <2>0, <2>1, <2>2, <3>1
    <3>3. Len(events) = 2 /\ Range(events) = {"data", "fin"}
      BY Pair
    <3>4. \A i \in 1..Len(events) : events[i] \notin Final
      BY DEF Final
    <3>. HIDE DEF events
    <3>5. alive' /\ emitter' = emitter \o events /\ emit' = "set"
      BY <1>0, <1>2, <3>2, <3>3, <3>4, Reports DEF Final
    <3>. QED
      BY <1>0, <1>2, <3>1, <3>2, <3>3, <3>5, Queued
  <2>3. CASE ~withData /\ tcp' # "timeWait"
    <3>1. E1 = <<"fin">>
      BY <2>3, Pair
    <3>2. Emit(<<"fin">>) /\ "fin" \in Event /\ "fin" \notin Final
      BY <2>1, <2>3, <3>1 DEF Event, Final
    <3>. QED
      BY <1>0, <1>2, <2>3, <3>2, ReportsOne
  <2>4. CASE ~withData /\ tcp' = "timeWait"
    <3>. DEFINE events == <<"fin", "close">>
    <3>1. E1 = events
      BY <2>4, Pair
    <3>2. Emit(events) /\ events \in Seq(Event)
      BY <2>0, <2>1, <2>4, <3>1
    <3>3. Len(events) = 2 /\ Range(events) = {"fin", "close"}
      BY Pair
    <3>4. \A i \in 1..Len(events) : events[i] \in Final => i = Len(events)
      BY DEF Final
    <3>. HIDE DEF events
    <3>5. alive' /\ emitter' = emitter \o events /\ emit' = "null"
      BY <1>0, <1>2, <3>2, <3>3, <3>4, Reports DEF Final
    <3>. QED
      BY <1>0, <1>2, <2>4, <3>2, <3>3, <3>5, Queued
  <2>. QED
    BY <2>2, <2>3, <2>4
<1>. QED
  BY <1>0, <1>1, <1>2 DEF TypeOK

\* The end of a pcb that was in use.
Busy == {"synSent", "established", "finWait1", "finWait2", "closing", "closeWait",
         "lastAck", "closedByLwip"}

LEMMA PcbGoneIs ==
  ASSUME CloseInv, Next, Sound', NEW e \in Final, PcbGone(e), tcp \in Busy
  PROVE  /\ callbacks = "all" /\ alive' /\ emit' = "null" /\ met' = met
         /\ Range(emitter') = Range(emitter) \cup {e}
         /\ Without(Users, mailbox)
<1>1. PICK which : Meet(which) /\ Overtaken \subseteq which
  BY DEF PcbGone
<1>2. Without(Users, mailbox) /\ (origin = "client" \/ callbacks = "all")
  BY <1>1, FreedIs
<1>3. callbacks = "all"
  BY <1>2, While DEF EmitterPart, TypeOK, Busy
<1>4. alive /\ emitter \in Seq(Event) /\ emit = "set" /\ e \in Event
  BY <1>3, While DEF EmitterPart, TypeOK, Event, Busy
<1>5. Emit(<<e>>) /\ Meet(Overtaken)
  BY <1>3 DEF PcbGone
<1>6. met' = met
  <2>1. met' = met \cup Overtaken /\ Overtaken \cap Fatal = {} /\ Overtaken \subseteq Fatal
    BY <1>5, Met, PostTypes, While
  <2>. QED
    BY <2>1
<1>. QED
  BY <1>2, <1>3, <1>4, <1>5, <1>6, ReportsOne

\* Data, and an acknowledgement.
LEMMA PeerSendsIs ==
  ASSUME CloseInv, Next, Sound', PeerData \/ PeerAck
  PROVE  /\ alive' /\ emit' = "set" /\ callbacks # "none"
         /\ tcp \in Busy \ {"synSent", "closedByLwip"}
         /\ Range(emitter') \subseteq Range(emitter) \cup {"data", "sent"}
<1>1. tcp \in Busy \ {"synSent", "closedByLwip"}
  BY DEF PeerData, PeerAck, Busy
<1>2. callbacks # "none"
  BY While DEF PeerData, PeerAck, PcbPart
<1>3. alive /\ emitter \in Seq(Event) /\ emit = "set"
  BY <1>1, <1>2, While DEF EmitterPart, TypeOK, Busy
<1>4. PICK e \in {"data", "sent"} : Emit(<<e>>)
  BY DEF PeerData, PeerAck
<1>5. e \in Event /\ e \notin Final
  BY DEF Event, Final
<1>. QED
  BY <1>1, <1>2, <1>3, <1>4, <1>5, ReportsOne

\* The handshake of a connect is over.
LEMMA HandshakeIs ==
  ASSUME CloseInv, Next, Sound', Handshake
  PROVE  /\ alive' /\ emit' = "set" /\ origin = "client"
         /\ Range(emitter') = Range(emitter) \cup {"connect"}
<1>1. /\ alive /\ emitter \in Seq(Event) /\ origin = "client" /\ emit = "set"
      /\ "connect" \in Event /\ "connect" \notin Final /\ Emit(<<"connect">>)
  BY While DEF Handshake, EmitterPart, TypeOK, Event, Final
<1>. QED
  BY <1>1, ReportsOne

\* A connect runs when lwIP has no connection, and it was the only one.
LEMMA RunConnectIs ==
  ASSUME CloseInv, Next, Sound', RunConnect
  PROVE  /\ alive' /\ emit' = "set" /\ met' = met /\ origin = "client"
         /\ connects = 1 /\ timers = <<>> /\ Connects(mailbox') = {}
         /\ \/ tcp' = "synSent" /\ emitter' = <<>>
            \/ tcp' = "closed" /\ Len(emitter') = 1 /\ Range(emitter') \subseteq ConnectErrors
<1>1. /\ mailbox \in Seq(Message) /\ mailbox # <<>> /\ Head(mailbox).op = "connect"
      /\ mailbox' = Tail(mailbox)
  BY While DEF RunConnect, Take
<1>2. Connects(mailbox) # {} /\ Connects(mailbox') = {}
  BY <1>1, While, Mailbox DEF OneAttempt
<1>3. /\ emitter = <<>> /\ timers = <<>> /\ origin = "client" /\ emit = "set" /\ alive
      /\ tcp \in {"none", "closed"} /\ connects = 1
  BY <1>2, While DEF OneAttempt, TypeOK
<1>4. /\ \/ tcp' = "synSent" /\ Emit(<<>>)
         \/ tcp' = "closed" /\ \E err \in {"noRoute", "failed"} : Emit(<<err>>)
      /\ met' = met
  <2>1. field = "null" \/ tcp = "closed"
    BY <1>3, While DEF EmitterPart, PcbPart
  <2>. QED
    BY <1>3, <2>1, While DEF RunConnect, EmitterPart, PcbPart
<1>5. CASE tcp' = "synSent" /\ Emit(<<>>)
  BY <1>2, <1>3, <1>4, <1>5 DEF Emit
<1>6. CASE tcp' = "closed" /\ \E err \in {"noRoute", "failed"} : Emit(<<err>>)
  <2>1. PICK err \in {"noRoute", "failed"} : Emit(<<err>>)
    BY <1>6
  <2>2. err \in Event /\ err \notin Final
    BY DEF Event, Final
  <2>3. emitter \in Seq(Event) /\ Len(emitter) = 0 /\ Range(emitter) = {}
    BY <1>3, Short
  <2>4. alive' /\ Range(emitter') = {err} /\ Len(emitter') = 1 /\ emit' = "set"
    BY <1>3, <2>1, <2>2, <2>3, ReportsOne
  <2>. QED
    BY <1>2, <1>3, <1>4, <1>6, <2>4 DEF ConnectErrors
<1>. QED
  BY <1>4, <1>5, <1>6

\* The functions that are posted find a pcb, and the connection that is accepted
\* is not dropped and has one too.
LEMMA PostedIs ==
  ASSUME CloseInv, Next, Sound'
  PROVE  /\ RunShutdown \/ RunNagle \/ RunAck \/ RunAccepted \/ RunSend =>
              UNCHANGED <<alive, met>>
         /\ RunSend => field = "set"
         /\ Initialised => UNCHANGED <<alive, met>> /\ tcp # "freed"
         /\ OnAccepted => /\ origin = "accepted" /\ emit' = "set" /\ alive'
                          /\ met' = met
<1>1. ASSUME NEW op, Take(op)
      PROVE  /\ Head(mailbox) \in Message /\ Head(mailbox).op = op
             /\ \A M : Without(M, mailbox) => Head(mailbox) \notin M
  BY <1>1, While, Mailbox DEF Take
<1>2. ASSUME NEW op, Take(op), op # "connect", UseGiven PROVE UNCHANGED alive
  <2>1. tcp = "freed" => Head(mailbox) \notin Users
    BY <1>1, <1>2, While DEF PostedPart
  <2>2. tcp = "freed" => Head(mailbox).pcb # "set"
    BY <1>1, <1>2, <2>1 DEF Users, Uses
  <2>. QED
    BY <1>2, <2>2 DEF UseGiven
<1>3. ASSUME RunShutdown \/ RunAck \/ RunAccepted PROVE UNCHANGED <<alive, met>>
  BY <1>2, <1>3 DEF RunShutdown, RunAck, RunAccepted
<1>4. ASSUME RunNagle PROVE UNCHANGED <<alive, met>>
  <2>1. Take("nagle") /\ met' = met
    BY <1>4 DEF RunNagle
  <2>2. Head(mailbox) \notin Nagles
    BY <1>1, <2>1, While DEF PostedPart
  <2>3. Head(mailbox).pcb # "null"
    BY <1>1, <2>1, <2>2 DEF Nagles
  <2>. QED
    BY <1>2, <1>4, <2>1, <2>3 DEF RunNagle
<1>5. ASSUME RunSend PROVE UNCHANGED <<alive, met>> /\ field = "set"
  <2>1. Take("send")
    BY <1>5 DEF RunSend
  <2>2. /\ field = "null" => Head(mailbox) \notin Sends
        /\ tcp = "freed" => Head(mailbox) \notin Users
    BY <1>1, <2>1, While DEF PostedPart
  <2>3. Head(mailbox) \in Sends /\ Head(mailbox) \in Users
    BY <1>1, <2>1 DEF Sends, Users, Uses
  <2>4. field # "null" /\ tcp # "freed"
    BY <2>2, <2>3
  <2>. QED
    BY <1>5, <2>4, While DEF RunSend, TypeOK
<1>6. ASSUME Initialised PROVE UNCHANGED <<alive, met>> /\ tcp # "freed"
  <2>1. tcp # "freed"
    BY <1>6, While DEF Initialised, EmitterPart, PcbPart
  <2>. QED
    BY <1>6, <2>1 DEF Initialised
<1>7. ASSUME OnAccepted
      PROVE  origin = "accepted" /\ emit' = "set" /\ alive' /\ met' = met
  <2>1. Meet({"dropped"} \cap {origin})
    BY <1>7 DEF OnAccepted
  <2>2. met' = met \cup ({"dropped"} \cap {origin}) /\ "dropped" \in Fatal
        /\ ({"dropped"} \cap {origin}) \cap Fatal = {}
    BY <2>1, Met DEF Fatal
  <2>3. origin # "dropped" /\ met' = met
    BY <2>2
  <2>4. tcp # "freed"
    BY <1>7, While DEF OnAccepted, PcbPart
  <2>. QED
    BY <1>7, <2>3, <2>4, While DEF OnAccepted
<1>. QED
  BY <1>3, <1>4, <1>5, <1>6, <1>7

-----------------------------------------------------------------------------
(* A single attempt to connect *)

\* Nothing that concerns the attempt changes.
LEMMA AttemptKept ==
  ASSUME OneAttempt, UNCHANGED <<origin, connects, waiting, timers>>,
         emitter' = emitter, emit' = emit,
         Connects(mailbox') = Connects(mailbox),
         tcp' = tcp \/ {tcp, tcp'} \cap {"none", "closed"} = {}
  PROVE  OneAttempt'
BY DEF OneAttempt

\* An event that is taken, and is no failure to connect.
LEMMA AttemptHears ==
  ASSUME OneAttempt, UNCHANGED <<origin, connects, waiting, timers, tcp, emit>>,
         Connects(mailbox') = Connects(mailbox), emitter \in Seq(Event), emitter # <<>>, emitter' = Tail(emitter)
  PROVE  OneAttempt'
<1>1. Range(emitter') \subseteq Range(emitter) /\ Len(emitter') <= Len(emitter)
      /\ Len(emitter) \in Nat /\ Len(emitter') \in Nat
  BY Taken
<1>. QED
  BY <1>1 DEF OneAttempt

LEMMA AttemptStep == ASSUME CloseInv, Next, Sound' PROVE OneAttempt'
<1>. USE DEF setup, jsVars, nativeVars
<1>1. /\ TypeOK /\ OneAttempt /\ EmitterPart /\ emitter \in Seq(Event)
      /\ mailbox \in Seq(Message) /\ waiting \in Seq(0..Attempts)
      /\ timers \in Seq(1..Attempts)
  BY While
<1>2. ASSUME NEW op \in Op PROVE [op |-> op, pcb |-> field] \in Message
  BY <1>1 DEF TypeOK, Message
<1>4. ASSUME NEW op \in Op \ {"connect"}, Post(op)
      PROVE  Connects(mailbox') = Connects(mailbox)
  BY <1>1, <1>2, <1>4, Mailbox DEF Post
<1>5. ASSUME \/ UNCHANGED mailbox
             \/ \E op \in Op \ {"connect"} : \E which : Call(op, which)
      PROVE  Connects(mailbox') = Connects(mailbox)
  BY <1>4, <1>5 DEF Call
<1>3. ASSUME NEW event, NextEvent(event),
             UNCHANGED <<origin, connects, waiting, timers, tcp, emit>>,
             Connects(mailbox') = Connects(mailbox)
      PROVE  OneAttempt'
  BY <1>1, <1>3, AttemptHears DEF NextEvent
<1>10. CASE Connect
  <2>1. connects = 0 /\ connects' = 1
    <3>1. Meet(IF connects = 0 THEN {} ELSE {"reconnect"}) /\ connects' = connects + 1
      BY <1>10 DEF Connect
    <3>2. (IF connects = 0 THEN {} ELSE {"reconnect"}) \cap Fatal = {}
      BY <3>1, Met
    <3>. QED
      BY <3>1, <3>2 DEF Fatal
  <2>2. origin = "client"
    BY <1>1, <1>10, <2>1 DEF Connect, Known, OneAttempt, EmitterPart, TypeOK
  <2>3. /\ Connects(mailbox) = {} /\ timers = <<>> /\ waiting = <<>> /\ tcp = "none"
        /\ emitter = <<>> /\ emit = "set"
    BY <1>1, <2>1, <2>2 DEF OneAttempt, EmitterPart
  <2>4. /\ waiting' = Append(waiting, Attempts)
        /\ mailbox' = Append(mailbox, [op |-> "connect", pcb |-> field])
        /\ UNCHANGED <<origin, timers, emitter, emit, tcp>>
    BY <1>10 DEF Connect, PostConnect, Post
  <2>5. /\ Attempts \in 0..Attempts /\ Len(waiting') = 1
        /\ \A i, j \in Connects(mailbox') : i = j
    <3>1. Attempts \in 0..Attempts /\ Len(waiting) = 0
      BY <2>3, CloseAssumption, Short DEF CloseAssumption
    <3>2. Len(waiting') = 1
      BY <1>1, <2>4, <3>1, Added
    <3>. QED
      BY <1>1, <1>2, <2>3, <2>4, <3>1, <3>2, Mailbox DEF Op
  <2>6. Len(emitter') <= 1
    BY <2>3, <2>4, Short
  <2>7. Range(emitter') = {}
    BY <2>3, <2>4, Short
  <2>. QED
    BY <2>1, <2>2, <2>3, <2>4, <2>5, <2>6, <2>7 DEF OneAttempt
<1>11. CASE Retry
  <2>1. /\ Len(timers) = 1 /\ waiting = <<>> /\ emitter = <<>> /\ Connects(mailbox) = {}
        /\ tcp \in {"none", "closed"} /\ timers # <<>>
    BY <1>1, <1>11 DEF Retry, OneAttempt
  <2>2. /\ waiting' = Append(waiting, Head(timers) - 1) /\ timers' = Tail(timers)
        /\ mailbox' = Append(mailbox, [op |-> "connect", pcb |-> field])
        /\ UNCHANGED <<origin, connects, emitter, emit, tcp>>
    BY <1>11 DEF Retry, PostConnect, Post
  <2>3. timers' = <<>>
    <3>1. timers' \in Seq(1..Attempts) /\ Len(timers') = 0
      BY <1>1, <2>1, <2>2, Taken
    <3>. QED
      BY <3>1, EmptySeq
  <2>4. /\ Len(waiting') = 1 /\ \A i, j \in Connects(mailbox') : i = j
    <3>1. Head(timers) - 1 \in 0..Attempts
      <4>1. Head(timers) \in 1..Attempts /\ Attempts \in Nat
        BY <1>1, <2>1, Taken, CloseAssumption DEF CloseAssumption
      <4>. QED
        BY <4>1
    <3>2. Len(waiting') = 1
      BY <1>1, <2>1, <2>2, <3>1, Added, Short
    <3>3. \A i, j \in Connects(mailbox') : i = j
      <4>. DEFINE m == [op |-> "connect", pcb |-> field]
      <4>1. m \in Message
        BY <1>2 DEF Op
      <4>. HIDE DEF m
      <4>2. \A i, j \in Connects(Append(mailbox, m)) : i = j
        BY <1>1, <2>1, <4>1, Mailbox
      <4>. QED
        BY <2>2, <4>2 DEF m
    <3>. QED
      BY <3>2, <3>3
  <2>5. connects # 0
    BY <1>1, <2>1 DEF OneAttempt
  <2>. QED
    BY <1>1, <2>1, <2>2, <2>3, <2>4, <2>5 DEF OneAttempt
<1>12. CASE SetNoDelay \/ _final \/ Write \/ OnSendResult \/ Ack
  <2>1. /\ UNCHANGED <<origin, connects, waiting, timers, emitter, emit, tcp>>
        /\ \/ UNCHANGED mailbox
           \/ \E op \in Op \ {"connect"} : \E which : Call(op, which)
    BY <1>12, Zenon DEF SetNoDelay, _final, Write, OnSendResult, Ack, Op
  <2>. QED
    BY <1>1, <1>5, <2>1, AttemptKept
<1>13. CASE End \/ Destroy \/ ReadEnd \/ AutoDestroy
  BY <1>1, <1>13, AttemptKept DEF End, Destroy, ReadEnd, AutoDestroy
<1>14. ASSUME NEW err \in ConnectErrors, OnConnectError(err) PROVE OneAttempt'
  <2>1. emitter # <<>> /\ Head(emitter) = err /\ emitter' = Tail(emitter)
    BY <1>14 DEF OnConnectError, NextEvent
  <2>2. err \in Range(emitter) /\ Len(emitter) \in Nat \ {0}
        /\ Len(emitter') = Len(emitter) - 1 /\ emitter' \in Seq(Event)
    BY <1>1, <2>1, Taken
  <2>3. /\ Connects(mailbox) = {} /\ timers = <<>> /\ tcp \in {"none", "closed"}
        /\ Len(emitter) <= 1 /\ Len(waiting) <= 1 /\ connects <= 1
        /\ emit = "set" /\ origin = "client"
    BY <1>1, <2>1, <2>2 DEF OneAttempt
  <2>4. emitter' = <<>>
    BY <2>2, <2>3, EmptySeq
  <2>5. /\ timers' = timers \o Retrying(err) /\ waiting' = <<>>
        /\ UNCHANGED <<origin, connects, mailbox, emit, tcp>>
    BY <1>14 DEF OnConnectError
  <2>6. /\ Retrying(err) \in Seq(1..Attempts) /\ Len(Retrying(err)) \in Nat
        /\ Len(Retrying(err)) <= Len(waiting)
    BY <1>1, RetryingIs
  <2>7. timers' = Retrying(err)
    BY <2>3, <2>5, <2>6, ConcatEmptySeq
  <2>8. timers' = <<>> \/ Len(timers') = 1
    <3>1. Len(waiting) \in Nat /\ timers' \in Seq(1..Attempts)
      BY <1>1, <2>6, <2>7, LenProperties
    <3>2. timers' # <<>> => Len(timers') \in Nat \ {0}
      BY <3>1, EmptySeq
    <3>3. Len(timers') \in Nat /\ Len(timers') <= 1
      BY <2>3, <2>6, <2>7, <3>1
    <3>4. \A n \in Nat \ {0} : n <= 1 => n = 1
      OBVIOUS
    <3>. QED
      BY <3>2, <3>3, <3>4, Zenon
  <2>9. connects = 0 => timers' = <<>>
    <3>1. connects = 0 => Len(waiting) = 0
      BY <1>1, Short DEF OneAttempt
    <3>. QED
      BY <2>6, <2>7, <3>1, EmptySeq
  <2>10. connects = 0 => tcp = "none"
    BY <1>1, <2>3 DEF OneAttempt
  <2>. QED
    BY <2>3, <2>4, <2>5, <2>8, <2>9, <2>10, Short DEF OneAttempt
<1>15. CASE OnConnect \/ OnSent \/ OnFin \/ OnData \/ OnClose \/ OnError
  <2>1. /\ UNCHANGED <<origin, connects, waiting, timers, tcp, emit>>
        /\ \/ UNCHANGED mailbox
           \/ \E op \in Op \ {"connect"} : \E which : Call(op, which)
    BY <1>15, Zenon DEF OnConnect, OnSent, OnFin, OnData, OnClose, OnError, Op
  <2>2. \E event : NextEvent(event)
    BY <1>15 DEF OnConnect, OnSent, OnFin, OnData, OnClose, OnError
  <2>. QED
    BY <1>3, <1>5, <2>1, <2>2
<1>16. CASE OnAccepted
  <2>1. origin # "client" /\ tcp \notin {"none", "closed"}
    BY <1>1, <1>16, PostedIs DEF OneAttempt
  <2>2. UNCHANGED <<origin, connects, waiting, timers, mailbox, emitter, tcp>>
    BY <1>16 DEF OnAccepted
  <2>. QED
    BY <1>1, <2>1, <2>2 DEF OneAttempt
<1>26. CASE Initialised
  <2>1. UNCHANGED <<origin, connects, waiting, timers, emitter, emit, tcp>>
    BY <1>26 DEF Initialised
  <2>2. Connects(mailbox') = Connects(mailbox)
    BY <1>4, <1>26 DEF Initialised, Op
  <2>. QED
    BY <1>1, <2>1, <2>2, AttemptKept
<1>17. CASE RunConnect
  <2>1. UNCHANGED <<origin, connects, waiting, timers>>
    BY <1>17 DEF RunConnect
  <2>2. Len(<<>>) = 0 /\ Range(<<>>) = {}
    BY Short
  <2>3. /\ emit' = "set" /\ origin = "client"
        /\ connects = 1 /\ timers = <<>> /\ Connects(mailbox') = {}
        /\ \/ tcp' = "synSent" /\ emitter' = <<>>
           \/ tcp' = "closed" /\ Len(emitter') = 1
    BY <1>17, RunConnectIs
  <2>4. Len(waiting) <= 1
    BY <1>1 DEF OneAttempt
  <2>5. CASE tcp' = "synSent" /\ emitter' = <<>>
    BY <2>1, <2>2, <2>3, <2>4, <2>5 DEF OneAttempt
  <2>6. CASE tcp' = "closed" /\ Len(emitter') = 1
    BY <2>1, <2>3, <2>4, <2>6 DEF OneAttempt
  <2>. QED
    BY <2>3, <2>5, <2>6
<1>18. CASE RunShutdown \/ RunNagle \/ RunAck \/ RunAccepted \/ RunSend
  <2>1. /\ UNCHANGED <<origin, connects, waiting, timers, emitter, emit>>
        /\ tcp' = tcp \/ {tcp, tcp'} \cap {"none", "closed"} = {}
    BY <1>18 DEF RunShutdown, RunNagle, RunAck, RunAccepted, RunSend, AfterShutdown
  <2>2. mailbox # <<>> /\ mailbox' = Tail(mailbox)
    BY <1>18 DEF RunShutdown, RunNagle, RunAck, RunAccepted, RunSend, Take
  <2>3. /\ \A i, j \in Connects(mailbox') : i = j
        /\ Connects(mailbox') # {} => Connects(mailbox) # {}
    BY <1>1, <2>2, Mailbox DEF OneAttempt
  <2>. QED
    BY <1>1, <2>1, <2>3 DEF OneAttempt
<1>19. ASSUME UNCHANGED <<origin, connects, waiting, timers, mailbox>>,
              {tcp, tcp'} \cap {"none", "closed"} = {},
              Range(emitter') \cap ConnectErrors \subseteq Range(emitter)
       PROVE  OneAttempt'
  BY <1>1, <1>19 DEF OneAttempt
<1>20. CASE Handshake
  BY <1>19, <1>20, HandshakeIs DEF Handshake, ConnectErrors
<1>27. CASE PeerData \/ PeerAck
  <2>1. /\ UNCHANGED <<origin, connects, waiting, timers, mailbox>>
        /\ {tcp, tcp'} \cap {"none", "closed"} = {}
    BY <1>27 DEF PeerData, PeerAck
  <2>2. Range(emitter') \cap ConnectErrors \subseteq Range(emitter)
    BY <1>27, PeerSendsIs DEF ConnectErrors
  <2>. QED
    BY <1>19, <2>1, <2>2
<1>21. CASE PeerFin
  <2>1. /\ UNCHANGED <<origin, connects, waiting, timers, mailbox>>
        /\ {tcp, tcp'} \cap {"none", "closed"} = {}
    BY <1>21 DEF PeerFin
  <2>2. Range(emitter') \cap ConnectErrors \subseteq Range(emitter)
    BY <1>21, PeerFinIs DEF ConnectErrors
  <2>. QED
    BY <1>19, <2>1, <2>2
<1>22. ASSUME NEW e \in Final, PcbGone(e), tcp \in Busy PROVE OneAttempt'
  <2>1. /\ UNCHANGED <<origin, connects, waiting, timers, mailbox>>
        /\ {tcp, tcp'} \cap {"none", "closed"} = {}
    BY <1>22 DEF PcbGone, Busy
  <2>2. Range(emitter') \cap ConnectErrors \subseteq Range(emitter)
    BY <1>22, PcbGoneIs DEF ConnectErrors, Final
  <2>. QED
    BY <1>19, <2>1, <2>2
<1>23. CASE FinAcked
  <2>1. CASE tcp = "lastAck" /\ PcbGone("close")
    BY <1>22, <2>1 DEF Final, Busy
  <2>2. CASE /\ {tcp, tcp'} \cap {"none", "closed"} = {}
             /\ UNCHANGED <<setup, jsVars, emitter, mailbox, emit, connects>>
    BY <1>1, <2>2, AttemptKept
  <2>. QED
    BY <1>23, <2>1, <2>2 DEF FinAcked
<1>24. CASE Reset
  BY <1>22, <1>24 DEF Reset, Final, Busy
<1>25. CASE TimeWaitOver
  BY <1>1, <1>25, AttemptKept DEF TimeWaitOver
<1>. QED
  BY <1>10, <1>11, <1>12, <1>13, <1>14, <1>15, <1>16, <1>17, <1>18, <1>20, <1>21,
     <1>23, <1>24, <1>25, <1>26, <1>27
     DEF Next, JavaScript, Application, Stream, Events, Accepting, Posted, Network,
         ConnectErrors

-----------------------------------------------------------------------------
(* The emitter and the pcb last *)

LEMMA EmitterStep == ASSUME CloseInv, Next, Sound' PROVE EmitterPart'
<1>. USE DEF setup, jsVars, nativeVars
<1>0. TypeOK /\ EmitterPart /\ emitter \in Seq(Event)
  BY While
<1>2. CASE Application \/ Retry \/ Stream
  <2>1. UNCHANGED <<origin, callbacks, tcp, emit, connected, emitter>>
    BY <1>2 DEF Application, Stream, Connect, Write, End, SetNoDelay, Destroy, Retry,
                OnSendResult, Ack, _final, ReadEnd, AutoDestroy
  <2>. QED
    BY <1>0, <2>1 DEF EmitterPart
<1>3. CASE Events
  <2>1. /\ UNCHANGED <<origin, callbacks, tcp, emit>>
        /\ connected => connected'
        /\ emitter # <<>>
    BY <1>3 DEF Events, OnConnect, OnConnectError, OnFin, OnData, OnSent, OnClose,
                OnError, NextEvent
  <2>. QED
    BY <1>0, <2>1 DEF EmitterPart
<1>4. CASE OnAccepted
  <2>1. origin = "accepted" /\ emit' = "set"
    BY <1>4, PostedIs
  <2>2. /\ callbacks' = "recv" /\ connected' = TRUE
        /\ UNCHANGED <<origin, tcp, emitter>>
    BY <1>4, <2>1 DEF OnAccepted
  <2>3. tcp # "none"
    BY <2>1, While DEF OneAttempt
  <2>. QED
    BY <1>0, <2>1, <2>2, <2>3 DEF EmitterPart
<1>14. CASE Initialised
  BY <1>0, <1>14 DEF Initialised, EmitterPart
<1>5. CASE RunConnect
  <2>1. /\ emit' = "set" /\ origin = "client" /\ tcp' \in {"synSent", "closed"}
    BY <1>5, RunConnectIs
  <2>2. callbacks' = "all" /\ UNCHANGED <<origin, connected>>
    BY <1>5 DEF RunConnect
  <2>. QED
    BY <2>1, <2>2 DEF EmitterPart
<1>6. CASE RunShutdown
  <2>1. /\ UNCHANGED <<origin, callbacks, emit, emitter, connected>>
        /\ tcp' = tcp \/ tcp \in {"established", "closeWait"}
        /\ tcp' # tcp => tcp' \in {"finWait1", "lastAck"}
    BY <1>6 DEF RunShutdown, AfterShutdown
  <2>. QED
    BY <1>0, <2>1 DEF EmitterPart
<1>7. CASE RunNagle \/ RunAck \/ RunAccepted \/ RunSend
  <2>1. UNCHANGED <<origin, callbacks, tcp, emit, connected, emitter>>
    BY <1>7 DEF RunNagle, RunAck, RunAccepted, RunSend
  <2>. QED
    BY <1>0, <2>1 DEF EmitterPart
<1>8. CASE Handshake
  <2>1. /\ UNCHANGED <<origin, callbacks, connected>> /\ tcp = "synSent"
        /\ tcp' = "established" /\ emit' = "set"
    BY <1>8, HandshakeIs DEF Handshake
  <2>. QED
    BY <1>0, <2>1 DEF EmitterPart
<1>15. CASE PeerData \/ PeerAck
  <2>1. /\ UNCHANGED <<origin, callbacks, connected, tcp>>
        /\ emit' = "set" /\ tcp # "none"
    BY <1>15, PeerSendsIs DEF PeerData, PeerAck, Busy
  <2>. QED
    BY <1>0, <2>1 DEF EmitterPart
<1>9. CASE PeerFin
  <2>1. /\ UNCHANGED <<origin, callbacks, connected>>
        /\ tcp \in {"established", "finWait1", "finWait2"}
        /\ tcp' \in {"closeWait", "closedByLwip", "closing", "timeWait"}
    BY <1>9 DEF PeerFin
  <2>2. emit' = IF callbacks = "none" THEN emit
                ELSE IF tcp' = "timeWait" THEN "null" ELSE "set"
    BY <1>9, PeerFinIs
  <2>. QED
    BY <1>0, <2>1, <2>2 DEF EmitterPart
<1>10. ASSUME NEW e \in Final, PcbGone(e), tcp \in Busy PROVE EmitterPart'
  <2>1. /\ UNCHANGED <<origin, callbacks, connected>> /\ tcp' = "freed"
    BY <1>10 DEF PcbGone
  <2>2. emit' = "null" /\ callbacks = "all"
    BY <1>10, PcbGoneIs
  <2>. QED
    BY <1>0, <1>10, <2>1, <2>2 DEF EmitterPart, Busy
<1>11. CASE FinAcked
  <2>1. CASE tcp = "lastAck" /\ PcbGone("close")
    BY <1>10, <2>1 DEF Final, Busy
  <2>2. CASE /\ \/ tcp = "finWait1" /\ tcp' = "finWait2"
                \/ tcp = "closing" /\ tcp' = "timeWait"
                \/ tcp = "closedByLwip" /\ tcp' = "freed"
             /\ UNCHANGED <<origin, callbacks, emit, emitter, connected>>
    BY <1>0, <2>2 DEF EmitterPart
  <2>. QED
    BY <1>11, <2>1, <2>2 DEF FinAcked
<1>12. CASE Reset
  BY <1>10, <1>12 DEF Reset, Final, Busy
<1>13. CASE TimeWaitOver
  BY <1>0, <1>13 DEF TimeWaitOver, EmitterPart
<1>. QED
  BY <1>2, <1>3, <1>4, <1>5, <1>6, <1>7, <1>8, <1>9, <1>11, <1>12, <1>13, <1>14,
     <1>15 DEF Next, JavaScript, Accepting, Posted, Network

LEMMA PcbStep == ASSUME CloseInv, Next, Sound' PROVE PcbPart'
<1>. USE DEF setup, jsVars, nativeVars
<1>0. /\ TypeOK /\ PcbPart /\ EmitterPart
  BY While
<1>1. CASE Application \/ Retry \/ Stream
  <2>1. UNCHANGED <<origin, callbacks, tcp, field, connected, wrote, emitter>>
    BY <1>1 DEF Application, Stream, Connect, Write, End, SetNoDelay, Destroy, Retry,
                OnSendResult, Ack, _final, ReadEnd, AutoDestroy
  <2>2. write' # write => connected \/ write' = "due" \/ write = "taken"
    BY <1>1 DEF Application, Stream, Connect, Write, End, SetNoDelay, Destroy, Retry,
                OnSendResult, Ack, _final, ReadEnd, AutoDestroy
  <2>. QED
    BY <1>0, <2>1, <2>2 DEF PcbPart
<1>2. CASE Events
  <2>1. UNCHANGED <<origin, callbacks, tcp, field>> /\ emitter # <<>>
    BY <1>2 DEF Events, OnConnect, OnConnectError, OnFin, OnData, OnSent, OnClose,
                OnError, NextEvent
  <2>. QED
    BY <1>0, <2>1 DEF PcbPart
<1>3. CASE OnAccepted
  <2>1. callbacks' = "recv" /\ field' = "set" /\ UNCHANGED tcp /\ callbacks = "none"
        /\ origin # "client" /\ UNCHANGED origin
    BY <1>3 DEF OnAccepted
  <2>. QED
    BY <1>0, <2>1 DEF PcbPart
<1>4. CASE Initialised
  <2>1. callbacks' = "all" /\ callbacks = "recv" /\ UNCHANGED <<origin, tcp, field>>
    BY <1>4 DEF Initialised
  <2>. QED
    BY <1>0, <2>1 DEF PcbPart
<1>5. CASE RunConnect
  <2>1. callbacks' = "all" /\ field' = "set"
    BY <1>5 DEF RunConnect
  <2>. QED
    BY <2>1 DEF PcbPart
<1>6. CASE RunShutdown \/ RunNagle \/ RunAck \/ RunAccepted
  <2>1. /\ UNCHANGED <<origin, callbacks, field, connected, write, wrote, emitter>>
        /\ tcp' = "freed" <=> tcp = "freed"
    BY <1>6 DEF RunShutdown, RunNagle, RunAck, RunAccepted, AfterShutdown
  <2>. QED
    BY <1>0, <2>1 DEF PcbPart
<1>7. CASE RunSend
  <2>1. field = "set" /\ UNCHANGED <<origin, callbacks, field, tcp>>
    BY <1>7, PostedIs DEF RunSend
  <2>. QED
    BY <1>0, <2>1 DEF PcbPart
<1>8. CASE Handshake \/ PeerData \/ PeerAck
  <2>1. /\ UNCHANGED <<origin, callbacks, field>>
        /\ tcp \in Busy /\ tcp' \in Busy
    BY <1>8, PeerSendsIs DEF Handshake, PeerData, PeerAck, Busy
  <2>2. callbacks # "none"
    <3>1. CASE Handshake
      BY <1>0, <3>1 DEF Handshake, EmitterPart
    <3>2. CASE PeerData \/ PeerAck
      BY <3>2, PeerSendsIs
    <3>. QED
      BY <1>8, <3>1, <3>2
  <2>. QED
    BY <1>0, <2>1, <2>2 DEF PcbPart, Busy
<1>9. CASE PeerFin
  <2>1. /\ UNCHANGED <<origin, callbacks, field, connected, write, wrote>>
        /\ tcp' # "freed" /\ tcp # "freed"
    BY <1>9 DEF PeerFin
  <2>2. callbacks = "none" => emitter' = emitter
    BY <1>9, PeerFinIs
  <2>. QED
    BY <1>0, <2>1, <2>2 DEF PcbPart
<1>10. ASSUME NEW e \in Final, PcbGone(e), tcp \in Busy PROVE PcbPart'
  <2>1. callbacks = "all" /\ tcp' = "freed" /\ UNCHANGED callbacks
    BY <1>10, PcbGoneIs DEF PcbGone
  <2>. QED
    BY <2>1 DEF PcbPart
<1>11. CASE FinAcked
  <2>1. CASE tcp = "lastAck" /\ PcbGone("close")
    BY <1>10, <2>1 DEF Final, Busy
  <2>2. CASE \/ tcp = "finWait1" /\ tcp' = "finWait2"
             \/ tcp = "closing" /\ tcp' = "timeWait"
    <3>1. UNCHANGED <<origin, callbacks, field, connected, write, wrote, emitter>>
      BY <1>11, <2>2 DEF FinAcked
    <3>. QED
      BY <1>0, <2>2, <3>1 DEF PcbPart
  <2>3. CASE tcp = "closedByLwip" /\ tcp' = "freed" /\ Meet(Overtaken)
    <3>1. UNCHANGED <<origin, callbacks, field, connected, write, wrote, emitter>>
      BY <1>11, <2>3 DEF FinAcked
    <3>2. origin = "client" \/ callbacks = "all"
      BY <2>3, FreedIs
    <3>. QED
      BY <1>0, <2>3, <3>1, <3>2 DEF PcbPart
  <2>. QED
    BY <1>11, <2>1, <2>2, <2>3 DEF FinAcked
<1>12. CASE Reset
  BY <1>10, <1>12 DEF Reset, Final, Busy
<1>13. CASE TimeWaitOver
  <2>1. /\ UNCHANGED <<origin, callbacks, field, connected, write, wrote, emitter>>
        /\ tcp = "timeWait" /\ tcp' = "freed" /\ Meet(Overtaken)
    BY <1>13 DEF TimeWaitOver
  <2>2. origin = "client" \/ callbacks = "all"
    BY <2>1, FreedIs
  <2>. QED
    BY <1>0, <2>1, <2>2 DEF PcbPart
<1>. QED
  BY <1>1, <1>2, <1>3, <1>4, <1>5, <1>6, <1>7, <1>8, <1>9, <1>11, <1>12, <1>13
     DEF Next, JavaScript, Accepting, Posted, Network

\* A function that is posted with a pcb that is there, or without one that it needs.
LEMMA PostedSound ==
  ASSUME CloseInv, Next, Sound', NEW op \in Op, Post(op), UNCHANGED <<tcp, field>>,
         op = "nagle" => field = "set",
         op = "send" => field = "set",
         tcp = "freed" => op = "connect" \/ (op # "send" /\ field # "set")
  PROVE  PostedPart'
<1>. DEFINE m == [op |-> op, pcb |-> field]
<1>1. /\ m \in Message /\ mailbox' = Append(mailbox, m) /\ mailbox \in Seq(Message)
      /\ PostedPart
  BY While DEF Post, TypeOK, Message
<1>2. /\ m \notin Nagles
      /\ tcp = "freed" => m \notin Users
      /\ field = "null" => m \notin Sends
  BY DEF Nagles, Users, Uses, Sends
<1>. HIDE DEF m
<1>3. \A M : Without(M, mailbox) /\ m \notin M => Without(M, mailbox')
  BY <1>1, Mailbox
<1>. QED
  BY <1>1, <1>2, <1>3 DEF PostedPart

LEMMA PostedStep == ASSUME CloseInv, Next, Sound' PROVE PostedPart'
<1>. USE DEF setup, jsVars, nativeVars
<1>1. /\ mailbox \in Seq(Message) /\ TypeOK
      /\ PostedPart /\ PcbPart /\ EmitterPart
  BY While
<1>2. ASSUME UNCHANGED <<mailbox, field>>, tcp' = "freed" => tcp = "freed"
      PROVE  PostedPart'
  BY <1>1, <1>2 DEF PostedPart
<1>3. ASSUME NEW op \in Op, NEW which, Call(op, which), UNCHANGED <<tcp, field>>,
             op = "nagle" => field = "set",
             op = "send" => callbacks # "none"
      PROVE  PostedPart'
  <2>1. Post(op) /\ (tcp = "freed" => op # "send" /\ field # "set")
    BY <1>3, CallIs
  <2>2. op = "send" => field = "set"
    BY <1>1, <1>3, <2>1 DEF PcbPart, TypeOK
  <2>. QED
    BY <1>3, <2>1, <2>2, PostedSound
<1>4. ASSUME NEW op, Take(op), tcp' = "freed" => tcp = "freed",
             field' = "null" => field = "null"
      PROVE  PostedPart'
  <2>1. \A M : Without(M, mailbox) => Without(M, mailbox')
    BY <1>1, <1>4, Mailbox DEF Take
  <2>. QED
    BY <1>1, <1>4, <2>1 DEF PostedPart
<1>5. CASE Connect \/ Retry
  <2>1. Post("connect") /\ UNCHANGED <<tcp, field>>
    BY <1>5 DEF Connect, Retry, PostConnect
  <2>. QED
    BY <2>1, PostedSound DEF Op
<1>6. CASE SetNoDelay
  <2>1. /\ Call("nagle", IF field = "null" THEN {"noDelay"} ELSE {})
        /\ UNCHANGED <<tcp, field>>
    BY <1>6 DEF SetNoDelay
  <2>2. (IF field = "null" THEN {"noDelay"} ELSE {}) \cap Fatal = {}
    BY <2>1, CallIs
  <2>3. field = "set"
    BY <1>1, <2>2 DEF Fatal, TypeOK
  <2>. QED
    BY <1>3, <2>1, <2>3 DEF Op
<1>7. CASE _final \/ Ack
  <2>1. /\ \E op \in {"shutdown", "ack"} : \E which : Call(op, which)
        /\ UNCHANGED <<tcp, field>>
    BY <1>7 DEF _final, Ack
  <2>. QED
    BY <1>3, <2>1 DEF Op
<1>8. CASE Write \/ OnSendResult \/ OnConnect \/ OnSent
  <2>1. /\ UNCHANGED <<tcp, field>>
        /\ Call("send", {}) \/ UNCHANGED mailbox
    BY <1>8 DEF Write, OnSendResult, OnConnect, OnSent
  <2>2. CASE UNCHANGED mailbox
    BY <1>2, <2>1, <2>2
  <2>3. CASE Call("send", {})
    <3>1. UNCHANGED mailbox \/ callbacks # "none"
      BY <1>1, <1>8 DEF Write, OnSendResult, OnConnect, OnSent, NextEvent, PcbPart
    <3>. QED
      BY <1>3, <2>1, <2>2, <2>3, <3>1 DEF Op
  <2>. QED
    BY <2>1, <2>2, <2>3
<1>9. CASE \/ End \/ Destroy \/ ReadEnd \/ AutoDestroy
           \/ (\E err : OnConnectError(err)) \/ OnFin \/ OnData \/ OnClose \/ OnError
  BY <1>2, <1>9 DEF End, Destroy, ReadEnd, AutoDestroy, OnConnectError, OnFin, OnData,
                    OnClose, OnError
<1>10. CASE OnAccepted
  <2>1. UNCHANGED <<mailbox, tcp>> /\ field' = "set"
    BY <1>10 DEF OnAccepted
  <2>. QED
    BY <1>1, <2>1 DEF PostedPart
<1>11. CASE Initialised
  <2>1. Post("accepted") /\ UNCHANGED <<tcp, field>> /\ tcp # "freed"
    BY <1>11, PostedIs DEF Initialised
  <2>. QED
    BY <2>1, PostedSound DEF Op
<1>12. CASE RunConnect
  <2>1. Take("connect") /\ field' = "set" /\ tcp' # "freed"
    BY <1>12, RunConnectIs DEF RunConnect
  <2>. QED
    BY <1>4, <2>1
<1>13. CASE RunShutdown \/ RunNagle \/ RunAck \/ RunAccepted \/ RunSend
  <2>1. /\ \E op : Take(op)
        /\ UNCHANGED field /\ (tcp' = "freed" => tcp = "freed")
    BY <1>13 DEF RunShutdown, RunNagle, RunAck, RunAccepted, RunSend, AfterShutdown
  <2>. QED
    BY <1>4, <2>1
<1>14. CASE Handshake \/ PeerData \/ PeerAck \/ PeerFin
  BY <1>2, <1>14 DEF Handshake, PeerData, PeerAck, PeerFin
<1>15. ASSUME UNCHANGED mailbox, Without(Users, mailbox) PROVE PostedPart'
  <2>1. Sends \subseteq Users
    BY DEF Sends, Users, Uses
  <2>2. Without(Sends, mailbox)
    BY <1>15, <2>1 DEF Without
  <2>. QED
    BY <1>1, <1>15, <2>2 DEF PostedPart
<1>16. ASSUME NEW e \in Final, PcbGone(e), tcp \in Busy PROVE PostedPart'
  BY <1>15, <1>16, PcbGoneIs DEF PcbGone
<1>17. CASE FinAcked
  <2>1. CASE tcp = "lastAck" /\ PcbGone("close")
    BY <1>16, <2>1 DEF Final, Busy
  <2>2. CASE \/ tcp = "finWait1" /\ tcp' = "finWait2"
             \/ tcp = "closing" /\ tcp' = "timeWait"
    <3>1. UNCHANGED <<mailbox, field>>
      BY <1>17, <2>2 DEF FinAcked
    <3>. QED
      BY <1>2, <2>2, <3>1
  <2>3. CASE tcp = "closedByLwip" /\ tcp' = "freed" /\ Meet(Overtaken)
    <3>1. UNCHANGED mailbox
      BY <1>17, <2>3 DEF FinAcked
    <3>. QED
      BY <1>15, <2>3, <3>1, FreedIs
  <2>. QED
    BY <1>17, <2>1, <2>2, <2>3 DEF FinAcked
<1>18. CASE Reset
  BY <1>16, <1>18 DEF Reset, Final, Busy
<1>19. CASE TimeWaitOver
  BY <1>15, <1>19, FreedIs DEF TimeWaitOver
<1>. QED
  BY <1>5, <1>6, <1>7, <1>8, <1>9, <1>10, <1>11, <1>12, <1>13, <1>14, <1>17, <1>18,
     <1>19 DEF Next, JavaScript, Application, Stream, Events, Accepting, Posted, Network

-----------------------------------------------------------------------------
(* The FINs *)

\* Nothing that concerns the FINs changes.
LEMMA FinsKept ==
  ASSUME Fins, UNCHANGED <<tcp, gotFin, sentFin>>,
         Range(emitter') \subseteq Range(emitter),
         wr' = "finished" => wr = "finished" \/ HandshakeOver \/ "endFirst" \in met',
         met \subseteq met'
  PROVE  Fins'
BY DEF Fins, HandshakeOver

LEMMA FinsStep == ASSUME CloseInv, Next, Sound' PROVE Fins'
<1>. USE DEF setup, jsVars, nativeVars
<1>0. TypeOK /\ Fins /\ emitter \in Seq(Event)
  BY While
<1>1. ASSUME NEW which, Meet(which) PROVE met \subseteq met' /\ which \subseteq met'
  BY <1>1, Met
<1>18. ASSUME NEW op, NEW which, Call(op, which)
       PROVE  met \subseteq met' /\ which \subseteq met'
  BY <1>18, CallIs
<1>2. ASSUME NEW event, NextEvent(event)
      PROVE  Range(emitter') \subseteq Range(emitter) /\ event \in Range(emitter)
  BY <1>0, <1>2, Taken DEF NextEvent
<1>3. CASE Application \/ Retry
  <2>1. UNCHANGED <<tcp, gotFin, sentFin, emitter>> /\ (wr' = wr \/ wr' = "ending")
    BY <1>3 DEF Application, Connect, Write, End, SetNoDelay, Destroy, Retry
  <2>2. met' = met \/ (\E which : Meet(which)) \/ (\E op, which : Call(op, which))
    BY <1>3, Zenon
       DEF Application, Connect, Write, End, SetNoDelay, Destroy, Retry
  <2>3. met \subseteq met'
    BY <1>1, <1>18, <2>2
  <2>. QED
    BY <1>0, <2>1, <2>3, FinsKept
<1>4. CASE _final
  <2>1. /\ UNCHANGED <<tcp, gotFin, sentFin, emitter>>
        /\ wr' = IF connected THEN "finishing" ELSE "finished"
        /\ Call("shutdown", IF connected THEN {} ELSE {"endFirst"})
    BY <1>4 DEF _final, AfterFinal
  <2>2. met \subseteq met' /\ (~connected => "endFirst" \in met')
    BY <1>18, <2>1
  <2>. QED
    BY <1>0, <2>1, <2>2, FinsKept
<1>19. CASE OnSendResult \/ Ack
  <2>1. UNCHANGED <<tcp, gotFin, sentFin, emitter, wr>>
    BY <1>19 DEF OnSendResult, Ack
  <2>2. met' = met \/ \E op, which : Call(op, which)
    BY <1>19 DEF OnSendResult, Ack
  <2>3. met \subseteq met'
    BY <1>18, <2>2
  <2>. QED
    BY <1>0, <2>1, <2>3, FinsKept
<1>5. CASE ReadEnd \/ AutoDestroy
  <2>1. UNCHANGED <<tcp, gotFin, sentFin, emitter, met>> /\ (wr' = wr \/ wr' = "ending")
    BY <1>5 DEF ReadEnd, AutoEnd, AutoDestroy
  <2>. QED
    BY <1>0, <2>1, FinsKept
<1>6. CASE \/ OnConnect \/ (\E err : OnConnectError(err)) \/ OnFin \/ OnData \/ OnSent
           \/ OnError
  <2>1. UNCHANGED <<tcp, gotFin, sentFin, wr>> /\ \E event : NextEvent(event)
    BY <1>6 DEF OnConnect, OnConnectError, OnFin, OnData, OnSent, OnError
  <2>2. met' = met \/ \E op, which : Call(op, which)
    BY <1>6 DEF OnConnect, OnConnectError, OnFin, OnData, OnSent, OnError
  <2>3. met \subseteq met'
    BY <1>18, <2>2
  <2>. QED
    BY <1>0, <1>2, <2>1, <2>3, FinsKept
<1>7. CASE OnClose
  <2>1. UNCHANGED <<tcp, gotFin, sentFin, met>> /\ NextEvent("close")
    BY <1>7 DEF OnClose
  <2>2. HandshakeOver
    BY <1>0, <1>2, <2>1 DEF Fins
  <2>. QED
    BY <1>0, <1>2, <2>1, <2>2, FinsKept
<1>8. CASE Accepting
  <2>1. UNCHANGED <<tcp, gotFin, sentFin, wr, met, emitter>>
    BY <1>8, PostedIs DEF Accepting, OnAccepted, Initialised
  <2>. QED
    BY <1>0, <2>1, FinsKept
<1>9. CASE RunConnect
  <2>1. /\ tcp' \in {"synSent", "closed"} /\ met' = met
        /\ "close" \notin Range(emitter')
    BY <1>9, RunConnectIs, Short DEF ConnectErrors
  <2>2. UNCHANGED <<gotFin, sentFin, wr>> /\ tcp \in {"none", "closed"}
    <3>1. mailbox # <<>> /\ Head(mailbox).op = "connect"
      BY <1>9 DEF RunConnect, Take
    <3>2. Connects(mailbox) # {}
      BY <3>1, While, Mailbox
    <3>. QED
      BY <1>9, <3>2, While DEF RunConnect, OneAttempt
  <2>. QED
    BY <1>0, <2>1, <2>2 DEF Fins, HandshakeOver
<1>10. CASE RunShutdown
  <2>1. /\ UNCHANGED <<gotFin, emitter, wr, met>>
    BY <1>10, PostedIs DEF RunShutdown
  <2>2. CASE tcp' = tcp /\ sentFin' = (sentFin \/ tcp' # tcp)
    BY <1>0, <2>1, <2>2 DEF Fins, HandshakeOver
  <2>3. CASE tcp' # tcp /\ tcp' = AfterShutdown /\ sentFin'
    BY <1>0, <2>1, <2>3 DEF Fins, HandshakeOver, AfterShutdown
  <2>4. CASE UNCHANGED <<tcp, sentFin>>
    BY <1>0, <2>1, <2>4, FinsKept
  <2>. QED
    BY <1>10, <2>2, <2>3, <2>4 DEF RunShutdown
<1>11. CASE RunNagle \/ RunAck \/ RunAccepted \/ RunSend
  <2>1. UNCHANGED <<tcp, gotFin, sentFin, wr, met, emitter>>
    BY <1>11 DEF RunNagle, RunAck, RunAccepted, RunSend
  <2>. QED
    BY <1>0, <2>1, FinsKept
<1>12. CASE Handshake
  <2>1. /\ UNCHANGED <<gotFin, sentFin, wr, met>> /\ tcp = "synSent"
        /\ tcp' = "established"
        /\ Range(emitter') = Range(emitter) \cup {"connect"}
    BY <1>12, HandshakeIs DEF Handshake
  <2>. QED
    BY <1>0, <2>1 DEF Fins, HandshakeOver
<1>20. CASE PeerData \/ PeerAck
  <2>1. UNCHANGED <<tcp, gotFin, sentFin, wr, met>>
    BY <1>20 DEF PeerData, PeerAck
  <2>2. Range(emitter') \subseteq Range(emitter) \cup {"data", "sent"}
    BY <1>20, PeerSendsIs
  <2>. QED
    BY <1>0, <2>1, <2>2 DEF Fins, HandshakeOver
<1>13. CASE PeerFin
  <2>1. /\ UNCHANGED wr /\ gotFin' = TRUE /\ (sentFin => sentFin')
        /\ \/ tcp = "established" /\ tcp' \in {"closeWait", "closedByLwip"}
           \/ tcp = "finWait1" /\ tcp' \in {"closing", "timeWait"}
           \/ tcp = "finWait2" /\ tcp' = "timeWait"
    BY <1>13 DEF PeerFin
  <2>2. Range(emitter') \subseteq Range(emitter) \cup
           {"data", "fin"} \cup {e \in {"close"} : tcp' = "timeWait"}
    BY <1>13, PeerFinIs
  <2>3. met \subseteq met'
    BY <1>1, <1>13 DEF PeerFin
  <2>. QED
    BY <1>0, <2>1, <2>2, <2>3 DEF Fins, HandshakeOver
<1>14. ASSUME NEW e \in Final, PcbGone(e), tcp \in Busy,
              e = "close" => tcp = "lastAck"
       PROVE  Fins'
  <2>1. UNCHANGED <<gotFin, sentFin, wr>> /\ tcp' = "freed"
    BY <1>14 DEF PcbGone
  <2>2. Range(emitter') = Range(emitter) \cup {e}
    BY <1>14, PcbGoneIs
  <2>3. met \subseteq met'
    BY <1>14, PcbGoneIs
  <2>. QED
    BY <1>0, <1>14, <2>1, <2>2, <2>3 DEF Fins, HandshakeOver, Busy
<1>15. CASE FinAcked
  <2>1. CASE tcp = "lastAck" /\ PcbGone("close")
    BY <1>14, <2>1 DEF Final, Busy
  <2>2. CASE /\ \/ tcp = "finWait1" /\ tcp' = "finWait2"
                \/ tcp = "closing" /\ tcp' = "timeWait"
                \/ tcp = "closedByLwip" /\ tcp' = "freed"
             /\ UNCHANGED <<gotFin, sentFin, wr, emitter>>
             /\ UNCHANGED met \/ Meet(Overtaken)
    <3>1. met \subseteq met'
      BY <1>1, <2>2
    <3>. QED
      BY <1>0, <2>2, <3>1 DEF Fins, HandshakeOver
  <2>. QED
    BY <1>15, <2>1, <2>2 DEF FinAcked
<1>16. CASE Reset
  BY <1>14, <1>16 DEF Reset, Final, Busy
<1>17. CASE TimeWaitOver
  <2>1. met \subseteq met'
    BY <1>1, <1>17 DEF TimeWaitOver
  <2>. QED
    BY <1>0, <1>17, <2>1 DEF TimeWaitOver, Fins, HandshakeOver
<1>. QED
  BY <1>3, <1>4, <1>5, <1>6, <1>7, <1>8, <1>9, <1>10, <1>11, <1>12, <1>13, <1>15,
     <1>16, <1>17, <1>19, <1>20 DEF Next, JavaScript, Stream, Events, Posted, Network

-----------------------------------------------------------------------------
(* Theorems *)

\* The invariant holds at first.
LEMMA CloseInit == ASSUME Init PROVE CloseInv
<1>1. Attempts \in Nat /\ MaxConnects \in Nat
      /\ Origins \subseteq {"client", "accepted", "dropped"}
  BY CloseAssumption DEF CloseAssumption
<1>2. TypeOK
  <2>1. /\ waiting \in Seq(0..Attempts) /\ timers \in Seq(1..Attempts)
        /\ emitter \in Seq(Event) /\ mailbox \in Seq(Message)
    BY DEF Init
  <2>2. /\ emit \in {"unset", "set", "null"} /\ tcp \in {"none", "established"}
        /\ connects \in 0..MaxConnects
    <3>1. connects = 0
      BY DEF Init
    <3>2. emit \in {"unset", "set", "null"} /\ tcp \in {"none", "established"}
      BY DEF Init
    <3>. QED
      BY <1>1, <3>1, <3>2
  <2>3. allowHalfOpen \in BOOLEAN
    BY DEF Init
  <2>4. /\ origin \in Origins /\ connected = FALSE /\ destroyed = FALSE /\ alive = TRUE
        /\ gotFin = FALSE /\ sentFin = FALSE /\ wrote = FALSE /\ met = {}
        /\ wr = "open" /\ rd = "open" /\ field = "null" /\ callbacks = "none"
        /\ write = "none" /\ unread = FALSE
    BY DEF Init
  <2>. QED
    BY <2>1, <2>2, <2>3, <2>4 DEF TypeOK, Event, Message, Op
<1>3. Connects(mailbox) = {} /\ Range(emitter) = {} /\ Len(emitter) = 0
      /\ Len(waiting) = 0 /\ Len(mailbox) = 0
  BY Short DEF Init, Connects
<1>4. OneAttempt
  BY <1>3 DEF Init, OneAttempt
<1>5. MemoryLasts
  <2>1. EmitterPart
    BY <1>1, <1>3 DEF Init, EmitterPart
  <2>2. PcbPart
    BY <1>3 DEF Init, PcbPart
  <2>3. PostedPart
    BY <1>3 DEF PostedPart, Without
  <2>. QED
    BY <2>1, <2>2, <2>3 DEF MemoryLasts
<1>6. Fins
  BY <1>3 DEF Init, Fins
<1>. QED
  BY <1>2, <1>4, <1>5, <1>6 DEF Init, CloseInv

\* Every step keeps it.
LEMMA CloseStep == ASSUME CloseInv, Next PROVE CloseInv'
<1>1. TypeOK'
  BY TypeStep DEF CloseInv
<1>2. ASSUME Sound' PROVE (alive /\ OneAttempt /\ MemoryLasts /\ Fins)'
  <2>1. OneAttempt'
    BY <1>2, AttemptStep
  <2>3. MemoryLasts'
    BY <1>2, EmitterStep, PcbStep, PostedStep DEF MemoryLasts
  <2>4. Fins'
    BY <1>2, FinsStep
  <2>5. alive'
    <3>. USE DEF setup, jsVars, nativeVars
    <3>1. alive
      BY <1>2, While
    <3>2. CASE Application \/ Retry \/ Stream \/ Events \/ TimeWaitOver
      <4>1. alive' = alive
        BY <3>2 DEF Application, Connect, Write, End, SetNoDelay, Destroy, Retry, Stream,
                    OnSendResult, Ack, _final, ReadEnd, AutoDestroy, Events, OnConnect,
                    OnConnectError, OnFin, OnData, OnSent, OnClose, OnError,
                    TimeWaitOver
      <4>. QED
        BY <3>1, <4>1
    <3>3. CASE Accepting \/ Posted
      BY <1>2, <3>1, <3>3, PostedIs, RunConnectIs DEF Accepting, Posted
    <3>4. CASE Handshake \/ PeerData \/ PeerAck \/ PeerFin
      BY <1>2, <3>4, HandshakeIs, PeerSendsIs, PeerFinIs
    <3>5. CASE FinAcked \/ Reset
      <4>1. UNCHANGED alive \/ \E e \in Final : PcbGone(e) /\ tcp \in Busy
        BY <3>5 DEF FinAcked, Reset, Final, Busy
      <4>. QED
        BY <1>2, <3>1, <4>1, PcbGoneIs
    <3>. QED
      BY <3>2, <3>3, <3>4, <3>5 DEF Next, JavaScript, Network
  <2>. QED
    BY <2>1, <2>3, <2>4, <2>5
<1>. QED
  BY <1>1, <1>2 DEF CloseInv, Sound

\* The inductive invariant: one attempt to connect at a time, an emitter that
\* lasts as long as lwIP may report, a pcb that is there for all that is posted,
\* and FINs that agree with the pcb.
THEOREM CloseInvariant == Spec => []CloseInv
<1>1. Init => CloseInv
  BY CloseInit
<1>2. CloseInv /\ [Next]_vars => CloseInv'
  <2>1. ASSUME CloseInv, UNCHANGED vars PROVE CloseInv'
    <3>1. UNCHANGED <<origin, allowHalfOpen, connected, waiting, timers, wr, write, rd,
                      unread, destroyed, emitter, mailbox, field, emit, callbacks, tcp,
                      wrote, gotFin, sentFin, alive, connects, met>>
      BY <2>1 DEF vars, setup, jsVars, nativeVars
    <3>2. TypeOK'
      BY <2>1, <3>1 DEF CloseInv, TypeOK
    <3>3. ASSUME Sound' PROVE (alive /\ OneAttempt /\ MemoryLasts /\ Fins)'
      <4>1. /\ alive /\ OneAttempt /\ Fins
            /\ EmitterPart /\ PcbPart /\ PostedPart
        BY <2>1, <3>1, <3>3 DEF CloseInv, MemoryLasts, Sound
      <4>4. OneAttempt' /\ EmitterPart'
        BY <3>1, <4>1 DEF OneAttempt, EmitterPart
      <4>5. PcbPart' /\ PostedPart'
        BY <3>1, <4>1 DEF PcbPart, PostedPart
      <4>2. OneAttempt' /\ MemoryLasts'
        BY <4>4, <4>5 DEF MemoryLasts
      <4>3. Fins' /\ alive'
        BY <3>1, <4>1 DEF Fins, HandshakeOver
      <4>. QED
        BY <4>2, <4>3
    <3>. QED
      BY <3>2, <3>3 DEF CloseInv, Sound
  <2>. QED
    BY <2>1, CloseStep
<1>. QED
  BY <1>1, <1>2, PTL DEF Spec

\* The variables keep their types, whatever is met: a retry never has fewer
\* than none left (net.ts:343).
THEOREM TypeCorrect == Spec => []TypeOK
<1>1. CloseInv => TypeOK
  BY DEF CloseInv
<1>. QED
  BY <1>1, CloseInvariant, PTL

\* Unless one of the circumstances that are listed came before, no callback uses
\* an emitter that was released or never made (tcp.cc:96, 104, 126, 139, 181,
\* 188), and neither a posted function nor Socket::init a pcb that is null or freed
\* (tcp.cc:64, 156, 162, 206, 233, 242, 326).
THEOREM CrashesNever == Spec => []NeverCrashes
<1>1. CloseInv => NeverCrashes
  BY DEF CloseInv, Sound, NeverCrashes
<1>. QED
  BY <1>1, CloseInvariant, PTL

\* A socket that was connected when _final ran (net.ts:321) is finished only when
\* FINs went both ways and lwIP is done with the connection.
THEOREM FinishIsOver == Spec => []FinishMeansOver
<1>1. CloseInv => FinishMeansOver
  <2>. SUFFICES ASSUME CloseInv, wr = "finished",
                       met \cap (Fatal \cup {"endFirst"}) = {}
                PROVE  HandshakeOver
    BY DEF FinishMeansOver, HandshakeOver
  <2>1. Sound /\ "endFirst" \notin met
    BY DEF Sound
  <2>. QED
    BY <2>1 DEF CloseInv, Fins
<1>. QED
  BY <1>1, CloseInvariant, PTL
=============================================================================
