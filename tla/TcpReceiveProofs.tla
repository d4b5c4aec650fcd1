-------------------------- MODULE TcpReceiveProofs --------------------------
(***************************************************************************)
(* Theorems about the receive path, alone and in the pipe, for every size  *)
(* of segments, window and marks and every number of bytes.                *)
(***************************************************************************)
EXTENDS TcpPipe, SumTheorems

\* The queues that a chunk goes through, from the tcpip thread to the listener.
ChunksOK ==
  /\ emitter \in Chunks /\ writes \in Chunks /\ buffer \in Chunks
  /\ readable \in Chunks /\ out \in Chunks /\ arrived \in Chunks

\* Nothing more arrives once JavaScript is told, and is about to be told, that
\* the connection is over; and it is told so after all that arrived.
FinIsLast ==
  /\ notices # <<>> => pcb # "open"
  /\ finished => pcb # "open" /\ emitter = <<>>

\* The Duplex ends when the receiver is empty for good.
EofIsLast ==
  /\ eof => finished /\ writes = <<>> /\ buffer = <<>>
  /\ ended => eof /\ readable = <<>>

ReceiveInv == ChunksOK /\ FinIsLast /\ EofIsLast /\ NothingLost

-----------------------------------------------------------------------------
(* Chunks on the move *)

\* What a chunk is.
Length == Nat \ {0}

\* A queue is empty at first.
LEMMA NoChunks == <<>> \in Chunks
BY DEF Chunks

\* Two queues, one behind the other.
LEMMA ConcatChunks ==
  ASSUME NEW s \in Chunks, NEW t \in Chunks
  PROVE  s \o t \in Chunks /\ s \o <<>> = s /\ <<>> \o s = s
<1>1. s \in Seq(Nat \ {0}) /\ t \in Seq(Nat \ {0})
  BY DEF Chunks
<1>2. s \o t \in Seq(Nat \ {0}) /\ s \o <<>> = s /\ <<>> \o s = s
  BY <1>1, ConcatProperties, ConcatEmptySeq
<1>. QED
  BY <1>2 DEF Chunks

\* Queues behind each other, in whatever grouping.
LEMMA AssocChunks ==
  ASSUME NEW s \in Chunks, NEW t \in Chunks, NEW u \in Chunks
  PROVE  (s \o t) \o u = s \o (t \o u)
<1>1. s \in Seq(Nat \ {0}) /\ t \in Seq(Nat \ {0}) /\ u \in Seq(Nat \ {0})
  BY DEF Chunks
<1>. QED
  BY <1>1, ConcatAssociative, SMTT(30)

\* A chunk appended to the last queue is appended to what all of them hold.
LEMMA AppendMoves ==
  ASSUME NEW s \in Chunks, NEW t \in Chunks, NEW e \in Length
  PROVE  /\ Append(t, e) \in Chunks
         /\ Append(s \o t, e) = s \o Append(t, e)
<1>1. /\ <<e>> \in Seq(Nat \ {0}) /\ Append(t, e) = t \o <<e>>
      /\ s \in Seq(Nat \ {0}) /\ t \in Seq(Nat \ {0})
  BY DEF Chunks, Length
<1>2. s \o t \in Seq(Nat \ {0}) /\ Append(t, e) \in Seq(Nat \ {0})
  BY <1>1, ConcatProperties
<1>3. Append(s \o t, e) = (s \o t) \o <<e>>
  BY <1>2, AppendIsConcat DEF Length
<1>4. (s \o t) \o <<e>> = s \o (t \o <<e>>)
  BY <1>1, ConcatAssociative, SMTT(30)
<1>. QED
  BY <1>1, <1>2, <1>3, <1>4 DEF Chunks

\* The head of a queue moves to the end of the one before it.
LEMMA HeadMoves ==
  ASSUME NEW s \in Chunks, NEW t \in Chunks, t # <<>>
  PROVE  /\ Append(s, Head(t)) \in Chunks /\ Tail(t) \in Chunks
         /\ Append(s, Head(t)) \o Tail(t) = s \o t
<1>1. /\ s \in Seq(Nat \ {0}) /\ t \in Seq(Nat \ {0})
      /\ Head(t) \in Nat \ {0} /\ Tail(t) \in Seq(Nat \ {0})
  BY HeadTailProperties DEF Chunks
<1>2. /\ <<Head(t)>> \in Seq(Nat \ {0}) /\ Append(s, Head(t)) = s \o <<Head(t)>>
      /\ Append(s, Head(t)) \in Seq(Nat \ {0})
  BY <1>1
<1>3. t = <<Head(t)>> \o Tail(t)
  BY <1>1, SubSeqRecursiveFirst, SubSeqFull, TailIsSubSeq, EmptySeq
<1>4. (s \o <<Head(t)>>) \o Tail(t) = s \o (<<Head(t)>> \o Tail(t))
  BY <1>1, <1>2, ConcatAssociative, SMTT(30)
<1>5. Append(s, Head(t)) \in Chunks /\ Tail(t) \in Chunks
  BY <1>1, <1>2 DEF Chunks
<1>6. Append(s, Head(t)) \o Tail(t) = s \o t
  BY <1>2, <1>3, <1>4, Zenon
<1>. QED
  BY <1>5, <1>6, Zenon

\* The same, with more queues behind.
LEMMA HeadMovesBefore ==
  ASSUME NEW s \in Chunks, NEW t \in Chunks, t # <<>>, NEW u \in Chunks
  PROVE  Append(s, Head(t)) \o (Tail(t) \o u) = s \o (t \o u)
<1>1. Append(s, Head(t)) \in Chunks /\ Tail(t) \in Chunks
  BY HeadMoves, Zenon
<1>2. Append(s, Head(t)) \o Tail(t) = s \o t
  BY HeadMoves, Zenon
<1>3. (Append(s, Head(t)) \o Tail(t)) \o u = Append(s, Head(t)) \o (Tail(t) \o u)
  BY <1>1, AssocChunks, ZenonT(40)
<1>4. (s \o t) \o u = s \o (t \o u)
  BY AssocChunks, Zenon
<1>. QED
  BY <1>2, <1>3, <1>4, Zenon

\* Chunks in the order in which they arrived.
OnWay(a, b, c, d, e) == a \o (b \o (c \o (d \o e)))

\* A chunk that arrives is behind all that are on the way.
LEMMA ArrivesLast ==
  ASSUME ChunksOK, NEW n \in Length
  PROVE  Append(OnWay(out, readable, buffer, writes, emitter), n)
           = OnWay(out, readable, buffer, writes, Append(emitter, n))
<1>. DEFINE we == writes \o emitter  bwe == buffer \o we  rbwe == readable \o bwe
<1>1. /\ out \in Chunks /\ readable \in Chunks /\ buffer \in Chunks
      /\ writes \in Chunks /\ emitter \in Chunks
  BY DEF ChunksOK
<1>2. we \in Chunks /\ bwe \in Chunks /\ rbwe \in Chunks
  BY <1>1, ConcatChunks, Zenon
<1>. HIDE DEF we, bwe, rbwe
<1>3. Append(writes \o emitter, n) = writes \o Append(emitter, n)
  BY <1>1, AppendMoves, Zenon
<1>4. Append(buffer \o we, n) = buffer \o Append(we, n)
  BY <1>1, <1>2, AppendMoves, ZenonT(40)
<1>5. Append(readable \o bwe, n) = readable \o Append(bwe, n)
  BY <1>1, <1>2, AppendMoves, ZenonT(40)
<1>6. Append(out \o rbwe, n) = out \o Append(rbwe, n)
  BY <1>1, <1>2, AppendMoves, ZenonT(40)
<1>. QED
  BY <1>3, <1>4, <1>5, <1>6, Zenon DEF OnWay, we, bwe, rbwe

\* A chunk that goes from one queue to the next keeps its place.
LEMMA MovesOn ==
  ASSUME NEW a \in Chunks, NEW b \in Chunks, NEW c \in Chunks, NEW d \in Chunks,
         NEW e \in Chunks
  PROVE  /\ b # <<>> => OnWay(Append(a, Head(b)), Tail(b), c, d, e) = OnWay(a, b, c, d, e)
         /\ c # <<>> => OnWay(a, Append(b, Head(c)), Tail(c), d, e) = OnWay(a, b, c, d, e)
         /\ d # <<>> => OnWay(a, b, Append(c, Head(d)), Tail(d), e) = OnWay(a, b, c, d, e)
         /\ e # <<>> => OnWay(a, b, c, Append(d, Head(e)), Tail(e)) = OnWay(a, b, c, d, e)
<1>. DEFINE de == d \o e  cde == c \o de
<1>1. de \in Chunks /\ cde \in Chunks
  BY ConcatChunks, Zenon
<1>. HIDE DEF de, cde
<1>2. ASSUME b # <<>>
      PROVE  Append(a, Head(b)) \o (Tail(b) \o cde) = a \o (b \o cde)
  <2>1. b # <<>> /\ cde \in Chunks
    BY <1>1, <1>2
  <2>. QED
    BY <2>1, HeadMovesBefore, ZenonT(40)
<1>3. ASSUME c # <<>>
      PROVE  Append(b, Head(c)) \o (Tail(c) \o de) = b \o (c \o de)
  BY <1>1, <1>3, HeadMovesBefore, ZenonT(40)
<1>4. ASSUME d # <<>>
      PROVE  Append(c, Head(d)) \o (Tail(d) \o e) = c \o (d \o e)
  BY <1>4, HeadMovesBefore, Zenon
<1>5. ASSUME e # <<>>
      PROVE  Append(d, Head(e)) \o Tail(e) = d \o e
  BY <1>5, HeadMoves, Zenon
<1>. QED
  BY <1>2, <1>3, <1>4, <1>5, Zenon DEF OnWay, de, cde

-----------------------------------------------------------------------------
(* ReceiveInv is inductive *)

\* Nothing has arrived at first.
LEMMA ReceiveInit == ASSUME Init PROVE ReceiveInv
<1>1. <<>> \in Chunks
  BY NoChunks
<1>2. ChunksOK /\ FinIsLast /\ EofIsLast
  BY <1>1 DEF Init, ChunksOK, FinIsLast, EofIsLast
<1>3. NothingLost
  BY DEF Init, NothingLost, InOrder, EndAfterAll
<1>. QED
  BY <1>2, <1>3 DEF ReceiveInv

\* The chunks and flags that ReceiveInv is about.
order == <<emitter, writes, buffer, readable, out, arrived, notices, pcb,
           finished, eof, ended, destroyed>>

\* What leaves them alone leaves ReceiveInv alone.
LEMMA OrderKept == ASSUME ReceiveInv, UNCHANGED order PROVE ReceiveInv'
BY DEF ReceiveInv, order, ChunksOK, FinIsLast, EofIsLast, NothingLost, InOrder,
       EndAfterAll

\* A step that moves chunks along their way.
LEMMA InOrderKept ==
  ASSUME InOrder,
         ~destroyed' => /\ ~destroyed
                        /\ arrived = OnWay(out, readable, buffer, writes, emitter)
                             => arrived' = OnWay(out', readable', buffer', writes', emitter')
  PROVE  InOrder'
BY Zenon DEF InOrder, OnWay

\* The steps of the streams.
LEMMA TickKeeps == ASSUME ReceiveInv, Tick PROVE ReceiveInv'
<1>. USE DEF ReceiveInv
<1>1. CASE Transform
  <2>1. /\ writes # <<>>
        /\ buffer' = Append(buffer, Head(writes)) /\ writes' = Tail(writes)
        /\ UNCHANGED <<emitter, readable, out, arrived, notices, pcb, finished,
                       eof, ended, destroyed>>
    BY <1>1 DEF Transform, lwipVars, duplexVars
  <2>2. buffer' \in Chunks /\ writes' \in Chunks
    BY <2>1, HeadMoves DEF ChunksOK
  <2>3. OnWay(out', readable', buffer', writes', emitter')
          = OnWay(out, readable, buffer, writes, emitter)
    BY <2>1, MovesOn DEF ChunksOK
  <2>4. ChunksOK' /\ FinIsLast' /\ EofIsLast'
    BY <2>1, <2>2 DEF ChunksOK, FinIsLast, EofIsLast
  <2>5. NothingLost'
    BY <2>1, <2>3, InOrderKept DEF NothingLost, EndAfterAll
  <2>. QED
    BY <2>4, <2>5
<1>2. CASE OnReceiverData
  <2>1. /\ buffer # <<>> /\ buffer' = Tail(buffer)
        /\ readable' = Pushed(Head(buffer))
        /\ UNCHANGED <<emitter, writes, out, arrived, notices, pcb, finished,
                       eof, ended, destroyed>>
    BY <1>2 DEF OnReceiverData, lwipVars
  <2>2. buffer' \in Chunks /\ readable' \in Chunks
    BY <2>1, HeadMoves DEF ChunksOK, Pushed
  <2>3. ~destroyed => OnWay(out', readable', buffer', writes', emitter')
                        = OnWay(out, readable, buffer, writes, emitter)
    BY <2>1, MovesOn DEF ChunksOK, Pushed
  <2>4. ChunksOK' /\ FinIsLast' /\ EofIsLast'
    BY <2>1, <2>2 DEF ChunksOK, FinIsLast, EofIsLast
  <2>5. NothingLost'
    BY <2>1, <2>3, InOrderKept DEF NothingLost, EndAfterAll
  <2>. QED
    BY <2>4, <2>5
<1>3. CASE OnReceiverEnd
  <2>1. /\ finished /\ writes = <<>> /\ buffer = <<>> /\ eof'
        /\ UNCHANGED <<emitter, writes, buffer, readable, out, arrived, notices,
                       pcb, finished, ended, destroyed>>
    BY <1>3 DEF OnReceiverEnd, ReceiverDrained, lwipVars, queueVars, receiverVars
  <2>. QED
    BY <2>1 DEF ChunksOK, FinIsLast, EofIsLast, NothingLost, InOrder, EndAfterAll
<1>4. CASE EmitData
  <2>1. /\ readable # <<>> /\ ~destroyed
        /\ out' = Append(out, Head(readable)) /\ readable' = Tail(readable)
        /\ UNCHANGED <<emitter, writes, buffer, arrived, notices, pcb, finished,
                       eof, ended, destroyed>>
    BY <1>4 DEF EmitData, lwipVars, queueVars
  <2>2. out' \in Chunks /\ readable' \in Chunks
    BY <2>1, HeadMoves DEF ChunksOK
  <2>3. OnWay(out', readable', buffer', writes', emitter')
          = OnWay(out, readable, buffer, writes, emitter)
    BY <2>1, MovesOn DEF ChunksOK
  <2>4. ChunksOK' /\ FinIsLast' /\ EofIsLast'
    BY <2>1, <2>2 DEF ChunksOK, FinIsLast, EofIsLast
  <2>5. ~ended
    BY <2>1 DEF EofIsLast
  <2>6. NothingLost'
    BY <2>1, <2>3, <2>5, InOrderKept DEF NothingLost, EndAfterAll
  <2>. QED
    BY <2>4, <2>6
<1>5. CASE EmitEnd
  <2>1. /\ eof /\ readable = <<>> /\ ~destroyed /\ ended'
        /\ UNCHANGED <<emitter, writes, buffer, readable, out, arrived, notices,
                       pcb, finished, eof, destroyed>>
    BY <1>5 DEF EmitEnd, lwipVars, queueVars, receiverVars
  <2>2. arrived = out \o (<<>> \o (<<>> \o (<<>> \o <<>>)))
    BY <2>1 DEF FinIsLast, EofIsLast, NothingLost, InOrder
  <2>3. out = arrived
    <3>1. out \in Chunks
      BY DEF ChunksOK
    <3>2. <<>> \o <<>> = <<>> /\ out \o <<>> = out
      BY <3>1, ConcatChunks, NoChunks, Zenon
    <3>. QED
      BY <2>2, <3>2, Zenon
  <2>. QED
    BY <2>1, <2>3 DEF ChunksOK, FinIsLast, EofIsLast, NothingLost, InOrder,
       EndAfterAll
<1>. QED
  BY <1>1, <1>2, <1>3, <1>4, <1>5 DEF Tick

\* The events from the tcpip thread.
LEMMA EventsKeep == ASSUME ReceiveInv, Events PROVE ReceiveInv'
<1>. USE DEF ReceiveInv
<1>1. CASE OnData
  <2>1. /\ emitter # <<>>
        /\ writes' = Append(writes, Head(emitter)) /\ emitter' = Tail(emitter)
        /\ UNCHANGED <<buffer, readable, out, arrived, notices, pcb, finished,
                       eof, ended, destroyed>>
    BY <1>1 DEF OnData, lwipVars, duplexVars
  <2>2. writes' \in Chunks /\ emitter' \in Chunks
    BY <2>1, HeadMoves DEF ChunksOK
  <2>3. ChunksOK' /\ FinIsLast' /\ EofIsLast'
    BY <2>1, <2>2 DEF ChunksOK, FinIsLast, EofIsLast
  <2>4. OnWay(out', readable', buffer', writes', emitter')
          = OnWay(out, readable, buffer, writes, emitter)
    BY <2>1, MovesOn DEF ChunksOK
  <2>5. NothingLost'
    BY <2>1, <2>4, InOrderKept DEF NothingLost, EndAfterAll
  <2>. QED
    BY <2>3, <2>5
<1>2. CASE OnFin
  <2>1. /\ emitter = <<>> /\ notices # <<>> /\ finished'
        /\ notices' = Tail(notices)
        /\ UNCHANGED <<emitter, writes, buffer, readable, out, arrived, pcb, eof,
                       ended, destroyed>>
    BY <1>2 DEF OnFin, lwipVars
  <2>. QED
    BY <2>1 DEF ChunksOK, FinIsLast, EofIsLast, NothingLost, InOrder, EndAfterAll
<1>3. CASE OnError
  <2>1. /\ notices # <<>> /\ destroyed'
        /\ UNCHANGED <<emitter, writes, buffer, readable, out, arrived, pcb,
                       finished, eof, ended>>
    BY <1>3 DEF OnError, lwipVars, receiverVars
  <2>. QED
    BY <2>1 DEF ChunksOK, FinIsLast, EofIsLast, NothingLost, InOrder, EndAfterAll
<1>. QED
  BY <1>1, <1>2, <1>3 DEF Events

\* The application, the functions that run on the tcpip thread.
LEMMA LocalKeeps == ASSUME ReceiveInv, Local PROVE ReceiveInv'
<1>1. CASE Tick
  BY <1>1, TickKeeps
<1>2. CASE Events
  BY <1>2, EventsKeep
<1>3. CASE Destroy
  <2>1. /\ destroyed'
        /\ UNCHANGED <<emitter, writes, buffer, readable, out, arrived, notices,
                       pcb, finished, eof, ended>>
    BY <1>3 DEF Destroy, lwipVars, queueVars, receiverVars
  <2>. QED
    BY <2>1 DEF ReceiveInv, ChunksOK, FinIsLast, EofIsLast, NothingLost, InOrder,
                EndAfterAll
<1>4. CASE Listen \/ Pause \/ Resume \/ Install \/ Initialised \/ RunAck
  <2>1. UNCHANGED order
    BY <1>4 DEF Listen, Pause, Resume, Install, Initialised, RunAck, order, lwipVars,
                queueVars, receiverVars, duplexVars
  <2>. QED
    BY <2>1, OrderKept
<1>. QED
  BY <1>1, <1>2, <1>3, <1>4 DEF Local, JavaScript, Application

\* Data from the peer.
LEMMA SegmentKeeps ==
  ASSUME ReceiveInv, NEW n \in SegLens, Segment(n)
  PROVE  ReceiveInv'
<1>1. CASE callbacks # "none"
  <2>1. /\ pcb = "open"
        /\ emitter' = Append(emitter, n) /\ arrived' = Append(arrived, n)
        /\ UNCHANGED <<writes, buffer, readable, out, notices, pcb, finished,
                       eof, ended, destroyed>>
    BY <1>1 DEF Segment, receiverVars, duplexVars
  <2>2. n \in Length
    BY ReceiveAssumption DEF ReceiveAssumption, Length
  <2>3. ~finished /\ ~eof /\ ~ended
    BY <2>1 DEF ReceiveInv, FinIsLast, EofIsLast
  <2>4. emitter' \in Chunks /\ arrived' \in Chunks
    BY <2>1, <2>2, AppendMoves, Zenon DEF ReceiveInv, ChunksOK
  <2>5. Append(OnWay(out, readable, buffer, writes, emitter), n)
          = OnWay(out, readable, buffer, writes, emitter')
    <3>1. Append(OnWay(out, readable, buffer, writes, emitter), n)
            = OnWay(out, readable, buffer, writes, Append(emitter, n))
      BY <2>2, ArrivesLast, Zenon DEF ReceiveInv
    <3>. QED
      BY <2>1, <3>1, Zenon
  <2>6. ChunksOK' /\ FinIsLast' /\ EofIsLast'
    BY <2>1, <2>3, <2>4 DEF ReceiveInv, ChunksOK, FinIsLast, EofIsLast
  <2>7. NothingLost'
    BY <2>1, <2>3, <2>5, InOrderKept DEF ReceiveInv, NothingLost, EndAfterAll
  <2>. QED
    BY <2>6, <2>7 DEF ReceiveInv
<1>2. CASE callbacks = "none"
  <2>1. UNCHANGED order
    BY <1>2 DEF Segment, order, receiverVars, duplexVars
  <2>. QED
    BY <2>1, OrderKept
<1>. QED
  BY <1>1, <1>2

\* The end of the connection.
LEMMA OverKeeps == ASSUME ReceiveInv, PeerFin \/ PeerReset PROVE ReceiveInv'
<1>1. /\ pcb' # "open"
      /\ UNCHANGED <<emitter, writes, buffer, readable, out, arrived, finished,
                     eof, ended, destroyed>>
  BY DEF PeerFin, PeerReset, Notice, receiverVars, duplexVars
<1>. QED
  BY <1>1 DEF ReceiveInv, ChunksOK, FinIsLast, EofIsLast, NothingLost, InOrder,
              EndAfterAll

\* Stuttering.
LEMMA StutterKeeps == ASSUME ReceiveInv, UNCHANGED vars PROVE ReceiveInv'
<1>1. UNCHANGED order
  BY DEF vars, order, lwipVars, queueVars, receiverVars, duplexVars
<1>. QED
  BY <1>1, OrderKept

\* A step of the receiver, whoever sends to it.
ReceiverStep ==
  \/ Local \/ PeerFin \/ PeerReset \/ (\E n \in SegLens : Segment(n))
  \/ UNCHANGED vars

\* Both specifications make only such steps.
LEMMA StepsOfReceiver ==
  /\ [Next]_vars => ReceiverStep
  /\ [PipeNext]_pipeVars => ReceiverStep
<1>1. [Next]_vars => ReceiverStep
  BY DEF Next, ReceiverStep
<1>2. [PipeNext]_pipeVars => ReceiverStep
  BY DEF PipeNext, pipeVars, Transfer, Finish, ReceiverStep
<1>. QED
  BY <1>1, <1>2

\* Every step of the receiver keeps ReceiveInv.
LEMMA ReceiveStep == ASSUME ReceiveInv, ReceiverStep PROVE ReceiveInv'
BY LocalKeeps, SegmentKeeps, OverKeeps, StutterKeeps DEF ReceiverStep

-----------------------------------------------------------------------------
(* Bytes *)

\* Bytes of a queue, as chunks come and go.
LEMMA ChunkBytes ==
  ASSUME NEW s \in Chunks
  PROVE  /\ Bytes(s) \in Nat
         /\ \A n \in Length : Append(s, n) \in Chunks /\ Bytes(Append(s, n)) = Bytes(s) + n
         /\ s # <<>> => /\ Head(s) \in Length /\ Tail(s) \in Chunks
                        /\ Bytes(s) = Head(s) + Bytes(Tail(s))
<1>1. s \in Seq(Nat) /\ s \in Seq(Nat \ {0})
  BY DEF Chunks
<1>2. Bytes(s) \in Nat
  BY <1>1, SumOfSeq DEF Bytes
<1>3. ASSUME NEW n \in Length
      PROVE  Append(s, n) \in Chunks /\ Bytes(Append(s, n)) = Bytes(s) + n
  <2>1. n \in Nat /\ Append(s, n) \in Chunks
    BY <1>1 DEF Length, Chunks
  <2>. QED
    BY <1>1, <2>1, SumOfAppend DEF Bytes
<1>4. ASSUME s # <<>>
      PROVE  /\ Head(s) \in Length /\ Tail(s) \in Chunks
             /\ Bytes(s) = Head(s) + Bytes(Tail(s))
  <2>1. Head(s) \in Length /\ Tail(s) \in Chunks
    BY <1>1, <1>4, HeadTailProperties DEF Length, Chunks
  <2>. QED
    BY <1>1, <1>4, <2>1, SumOfTail DEF Bytes
<1>. QED
  BY <1>2, <1>3, <1>4

\* An empty queue holds nothing.
LEMMA NoBytes == Bytes(<<>>) = 0
BY SumOfEmpty DEF Bytes

\* The loop of Socket::ack gives tcp_recved all that it was given, whatever a
\* single call takes (tcp.cc:221-239).
LEMMA AcksAll == \A n \in Nat : Recved(n) = n
<1>. DEFINE next(f, r) == LET recved == IF r > AckMax THEN AckMax ELSE r
                          IN IF r = recved THEN recved ELSE recved + f[r - recved]
            id == [r \in Nat |-> r]
            Q == {n \in Nat : Loop[n] = n}
<1>0. AckMax \in Nat \ {0}
  BY ReceiveAssumption DEF ReceiveAssumption
<1>1. id = [r \in Nat |-> next(id, r)]
  BY <1>0
<1>2. Loop = CHOOSE f : f = [r \in Nat |-> next(f, r)]
  BY DEF Loop
<1>3. Loop = [r \in Nat |-> next(Loop, r)]
  <2>. HIDE DEF next, id
  <2>. QED
    BY <1>1, <1>2
<1>4. \A r \in Nat : Loop[r] = next(Loop, r)
  <2>. HIDE DEF next
  <2>. QED
    BY <1>3
<1>5. ASSUME (Nat \ Q) # {} PROVE FALSE
  <2>. DEFINE T == Nat \ Q
  <2>1. T \in SUBSET Nat /\ T # {}
    BY <1>5
  <2>. HIDE DEF T
  <2>2. PICK n \in T : \A m \in T : n <= m
    BY <2>1, LeastNumber
  <2>3. n \in Nat /\ n \notin Q
    BY DEF T
  <2>4. CASE n <= AckMax
    <3>1. Loop[n] = n
      BY <1>0, <1>4, <2>3, <2>4
    <3>. QED
      BY <2>3, <3>1
  <2>5. CASE n > AckMax
    <3>1. Loop[n] = AckMax + Loop[n - AckMax]
      BY <1>0, <1>4, <2>3, <2>5
    <3>2. n - AckMax \in Nat /\ ~(n <= n - AckMax)
      BY <1>0, <2>3, <2>5
    <3>3. n - AckMax \in Q
      BY <2>2, <3>2 DEF T
    <3>. QED
      BY <1>0, <2>3, <3>1, <3>2, <3>3
  <2>. QED
    BY <1>0, <2>3, <2>4, <2>5
<1>. QED
  BY <1>5 DEF Recved

-----------------------------------------------------------------------------
(* TypeOK and WindowConserved *)

\* What is queued for the tcpip thread: lengths, and the pcb they were posted
\* with.
Acks == [len : Length, set : BOOLEAN]
Lens(m) == [i \in DOMAIN m |-> m[i].len]

\* While there is a pcb, the socket has it and every ack was posted with it.
AcksSet ==
  pcb # "freed" => ~cleared /\ \A i \in DOMAIN mailbox : mailbox[i].set

WindowInv == TypeOK /\ AcksSet /\ WindowConserved

\* The bytes of the acks in the mailbox, as they come and go.
LEMMA AckBytes ==
  ASSUME NEW m \in Seq(Acks)
  PROVE  /\ Lens(m) \in Chunks /\ Bytes(Lens(m)) \in Nat
         /\ \A n \in Length, b \in BOOLEAN :
              LET a == [len |-> n, set |-> b] IN
              /\ Append(m, a) \in Seq(Acks)
              /\ Bytes(Lens(Append(m, a))) = Bytes(Lens(m)) + n
              /\ b /\ (\A i \in DOMAIN m : m[i].set)
                   => \A i \in DOMAIN Append(m, a) : Append(m, a)[i].set
         /\ m # <<>> => /\ Head(m) \in Acks /\ Tail(m) \in Seq(Acks)
                        /\ Bytes(Lens(m)) = Head(m).len + Bytes(Lens(Tail(m)))
                        /\ (\A i \in DOMAIN m : m[i].set)
                             => Head(m).set /\ \A i \in DOMAIN Tail(m) : Tail(m)[i].set
<1>1. ASSUME NEW q \in Seq(Acks) PROVE Lens(q) \in Chunks
  <2>0. /\ Len(q) \in Nat /\ DOMAIN q = 1..Len(q)
        /\ \A i \in 1..Len(q) : q[i] \in Acks
    OBVIOUS
  <2>1. \A i \in 1..Len(q) : q[i].len \in Nat \ {0}
    BY <2>0 DEF Acks, Length
  <2>2. Lens(q) \in [1..Len(q) -> Nat \ {0}]
    BY <2>0, <2>1 DEF Lens
  <2>. QED
    BY <2>0, <2>2 DEF Chunks
<1>2. ASSUME NEW n \in Length, NEW b \in BOOLEAN, NEW a, a = [len |-> n, set |-> b]
      PROVE  /\ Append(m, a) \in Seq(Acks)
             /\ Bytes(Lens(Append(m, a))) = Bytes(Lens(m)) + n
             /\ b /\ (\A i \in DOMAIN m : m[i].set)
                  => \A i \in DOMAIN Append(m, a) : Append(m, a)[i].set
  <2>1. a \in Acks /\ a.len = n /\ a.set = b
    BY <1>2 DEF Acks
  <2>2. /\ Append(m, a) \in Seq(Acks) /\ Len(Append(m, a)) = Len(m) + 1
        /\ \A i \in 1..Len(m) : Append(m, a)[i] = m[i]
        /\ Append(m, a)[Len(m) + 1] = a
    BY <2>1
  <2>3. Lens(Append(m, a)) = Append(Lens(m), n)
    BY <1>1, <2>1, <2>2 DEF Lens, Chunks
  <2>4. Bytes(Lens(Append(m, a))) = Bytes(Lens(m)) + n
    BY <1>1, <2>3, ChunkBytes
  <2>. QED
    BY <2>1, <2>2, <2>4
<1>3. ASSUME m # <<>>
      PROVE  /\ Head(m) \in Acks /\ Tail(m) \in Seq(Acks)
             /\ Bytes(Lens(m)) = Head(m).len + Bytes(Lens(Tail(m)))
             /\ (\A i \in DOMAIN m : m[i].set)
                  => Head(m).set /\ \A i \in DOMAIN Tail(m) : Tail(m)[i].set
  <2>1. /\ Head(m) \in Acks /\ Tail(m) \in Seq(Acks)
        /\ Len(m) \in Nat \ {0} /\ Head(m) = m[1] /\ Len(Tail(m)) = Len(m) - 1
        /\ \A i \in 1..Len(Tail(m)) : Tail(m)[i] = m[i + 1]
    BY <1>3, HeadTailProperties, EmptySeq
  <2>2. Lens(m) # <<>> /\ Head(Lens(m)) = Head(m).len
    BY <1>1, <2>1 DEF Lens
  <2>3. Tail(Lens(m)) = Lens(Tail(m))
    BY <1>1, <1>3, <2>1 DEF Lens
  <2>4. Bytes(Lens(m)) = Head(m).len + Bytes(Lens(Tail(m)))
    BY <1>1, <2>2, <2>3, ChunkBytes
  <2>. QED
    BY <2>1, <2>4
<1>. QED
  BY <1>1, <1>2, <1>3, ChunkBytes

\* The window in transit, in these terms.
LEMMA TransitIs ==
  /\ InTransit = Bytes(emitter) + Bytes(writes) + held + Bytes(Lens(mailbox))
  /\ InTransit' = Bytes(emitter') + Bytes(writes') + held' + Bytes(Lens(mailbox'))
BY DEF InTransit, Lens

\* The types, with the names used here.
LEMMA Types ==
  ASSUME TypeOK
  PROVE  /\ emitter \in Chunks /\ writes \in Chunks /\ buffer \in Chunks
         /\ readable \in Chunks /\ out \in Chunks /\ arrived \in Chunks
         /\ mailbox \in Seq(Acks) /\ notices \in Seq({"fin", "error"})
         /\ rcvWnd \in 0..Wnd /\ held \in Nat /\ receiving \in BOOLEAN
         /\ Wnd \in Nat
BY ReceiveAssumption DEF TypeOK, ReceiveAssumption, Acks, Length

\* The bytes in a queue are a number.
LEMMA Amounts ==
  ASSUME TypeOK
  PROVE  /\ Bytes(emitter) \in Nat /\ Bytes(writes) \in Nat /\ Bytes(buffer) \in Nat
         /\ Bytes(readable) \in Nat /\ Bytes(out) \in Nat /\ Bytes(arrived) \in Nat
         /\ Bytes(Lens(mailbox)) \in Nat
BY Types, ChunkBytes, AckBytes

\* An ack is posted, with the pcb that the socket has.
LEMMA PostAck ==
  ASSUME WindowInv, NEW n \in Length, mailbox' = Ack(n),
         UNCHANGED <<pcb, cleared>>
  PROVE  /\ mailbox' \in Seq(Acks) /\ AcksSet'
         /\ Bytes(Lens(mailbox')) = Bytes(Lens(mailbox)) + n
<1>. DEFINE b == ~cleared
            a == [len |-> n, set |-> b]
<1>1. mailbox \in Seq(Acks) /\ b \in BOOLEAN /\ mailbox' = Append(mailbox, a)
  BY Types DEF WindowInv, TypeOK, Ack
<1>2. /\ Append(mailbox, a) \in Seq(Acks)
      /\ Bytes(Lens(Append(mailbox, a))) = Bytes(Lens(mailbox)) + n
      /\ b /\ (\A i \in DOMAIN mailbox : mailbox[i].set)
           => \A i \in DOMAIN Append(mailbox, a) : Append(mailbox, a)[i].set
  BY <1>1, AckBytes
<1>3. mailbox' \in Seq(Acks) /\ Bytes(Lens(mailbox')) = Bytes(Lens(mailbox)) + n
  BY <1>1, <1>2
<1>4. AcksSet'
  <2>. SUFFICES ASSUME pcb # "freed"
                PROVE  ~cleared /\ \A i \in DOMAIN mailbox' : mailbox'[i].set
    BY Zenon DEF AcksSet
  <2>. HIDE DEF a
  <2>1. ~cleared /\ \A i \in DOMAIN mailbox : mailbox[i].set
    BY DEF WindowInv, AcksSet
  <2>. QED
    BY <1>1, <1>2, <2>1
<1>. QED
  BY <1>3, <1>4

\* A step that moves the bytes of the window from one place to another.
LEMMA WindowMoves ==
  ASSUME WindowInv,
         pcb' # "freed" =>
           /\ pcb # "freed"
           /\ rcvWnd' + (Bytes(emitter') + Bytes(writes') + held' + Bytes(Lens(mailbox')))
                = rcvWnd + (Bytes(emitter) + Bytes(writes) + held + Bytes(Lens(mailbox)))
  PROVE  WindowConserved'
BY TransitIs DEF WindowInv, WindowConserved

\* What WindowInv is about, but for the types.
window == <<pcb, cleared, rcvWnd, emitter, writes, held, mailbox>>

\* A step that leaves all of it alone.
LEMMA WindowKept ==
  ASSUME WindowInv, UNCHANGED window
  PROVE  AcksSet' /\ WindowConserved'
<1>1. AcksSet'
  BY DEF WindowInv, AcksSet, window
<1>2. WindowConserved'
  BY WindowMoves DEF window
<1>. QED
  BY <1>1, <1>2

\* The streams.
LEMMA TickKeepsWindow == ASSUME WindowInv, Tick PROVE WindowInv'
<1>. USE DEF lwipVars, queueVars, receiverVars, duplexVars
<1>0. TypeOK /\ AcksSet
  BY DEF WindowInv
<1>a. /\ Bytes(emitter) \in Nat /\ Bytes(writes) \in Nat /\ Bytes(Lens(mailbox)) \in Nat
      /\ rcvWnd \in Nat /\ held \in Nat
  BY <1>0, Amounts, Types
<1>1. CASE Transform
  <2>. DEFINE n == Head(writes)
  <2>1. /\ held = 0 /\ writes # <<>>
        /\ buffer' = Append(buffer, n) /\ writes' = Tail(writes)
        /\ UNCHANGED <<lwipVars, emitter, notices, finished, receiving, duplexVars,
                       alive, pauses>>
    BY <1>1 DEF Transform
  <2>2. \/ mailbox' = Ack(n) /\ UNCHANGED held
        \/ held' = n /\ UNCHANGED mailbox
    BY <1>1 DEF Transform
  <2>3. n \in Length /\ writes' \in Chunks /\ Bytes(writes) = n + Bytes(writes')
    BY <1>0, <2>1, Types, ChunkBytes
  <2>4. buffer' \in Chunks
    BY <1>0, <2>1, <2>3, Types, ChunkBytes
  <2>5. /\ mailbox' \in Seq(Acks) /\ AcksSet' /\ held' \in Nat
        /\ held' + Bytes(Lens(mailbox')) = Bytes(Lens(mailbox)) + n
    <3>. HIDE DEF n
    <3>1. CASE mailbox' = Ack(n) /\ UNCHANGED held
      <4>1. /\ mailbox' \in Seq(Acks) /\ AcksSet'
            /\ Bytes(Lens(mailbox')) = Bytes(Lens(mailbox)) + n
        BY <2>1, <2>3, <3>1, PostAck
      <4>2. n \in Nat
        BY <2>3 DEF Length
      <4>3. held' \in Nat /\ held' + Bytes(Lens(mailbox')) = Bytes(Lens(mailbox)) + n
        BY <1>a, <2>1, <3>1, <4>1, <4>2
      <4>. QED
        BY <4>1, <4>3
    <3>2. CASE held' = n /\ UNCHANGED mailbox
      BY <1>0, <2>1, <2>3, <3>2, Types, Amounts DEF AcksSet, Length
    <3>. QED
      BY <2>2, <3>1, <3>2
  <2>6. TypeOK'
    BY <1>0, <2>1, <2>3, <2>4, <2>5 DEF TypeOK, Acks, Length
  <2>7. WindowConserved'
    <3>1. Bytes(writes') \in Nat /\ n \in Nat /\ Bytes(Lens(mailbox')) \in Nat
      BY <2>3, <2>5, ChunkBytes, AckBytes DEF Length
    <3>2. pcb' = pcb /\ rcvWnd' = rcvWnd /\ emitter' = emitter
      BY <2>1
    <3>. HIDE DEF n
    <3>3. /\ held = 0 /\ held' \in Nat /\ Bytes(emitter') = Bytes(emitter)
          /\ Bytes(writes) = n + Bytes(writes')
          /\ held' + Bytes(Lens(mailbox')) = Bytes(Lens(mailbox)) + n
      BY <2>1, <2>3, <2>5, <3>2
    <3>4. rcvWnd' + (Bytes(emitter') + Bytes(writes') + held' + Bytes(Lens(mailbox')))
            = rcvWnd + (Bytes(emitter) + Bytes(writes) + held + Bytes(Lens(mailbox)))
      BY <1>a, <3>1, <3>2, <3>3
    <3>. QED
      BY <3>2, <3>4, WindowMoves
  <2>. QED
    BY <2>5, <2>6, <2>7 DEF WindowInv
<1>2. CASE OnReceiverData
  <2>. DEFINE n == Head(buffer)
  <2>1. /\ buffer # <<>> /\ buffer' = Tail(buffer)
        /\ readable' = Pushed(n) /\ receiving' = Accepts(n)
        /\ UNCHANGED <<lwipVars, emitter, notices, writes, finished, eof, flowing,
                       listener, ended, destroyed, out, alive, pauses>>
    BY <1>2 DEF OnReceiverData
  <2>2. \/ held > 0 /\ held' = 0 /\ mailbox' = Ack(held)
        \/ UNCHANGED <<held, mailbox>>
    BY <1>2 DEF OnReceiverData
  <2>3. n \in Length /\ buffer' \in Chunks
    BY <1>0, <2>1, Types, ChunkBytes
  <2>4. readable' \in Chunks /\ receiving' \in BOOLEAN
    BY <1>0, <2>1, <2>3, Types, ChunkBytes DEF Pushed, Accepts
  <2>5. /\ mailbox' \in Seq(Acks) /\ AcksSet' /\ held' \in Nat
        /\ held' + Bytes(Lens(mailbox')) = Bytes(Lens(mailbox)) + held
    <3>1. CASE held > 0 /\ held' = 0 /\ mailbox' = Ack(held)
      <4>1. held \in Length
        BY <1>0, <3>1, Types DEF Length
      <4>2. /\ mailbox' \in Seq(Acks) /\ AcksSet'
            /\ Bytes(Lens(mailbox')) = Bytes(Lens(mailbox)) + held
        BY <2>1, <3>1, <4>1, PostAck
      <4>. QED
        BY <1>a, <3>1, <4>2
    <3>2. CASE UNCHANGED <<held, mailbox>>
      BY <1>0, <2>1, <3>2, Types, Amounts DEF AcksSet
    <3>. QED
      BY <2>2, <3>1, <3>2
  <2>6. TypeOK'
    BY <1>0, <2>1, <2>3, <2>4, <2>5 DEF TypeOK, Acks, Length
  <2>7. WindowConserved'
    <3>1. Bytes(Lens(mailbox')) \in Nat
      BY <2>5, AckBytes
    <3>2. pcb' = pcb /\ rcvWnd' = rcvWnd /\ emitter' = emitter /\ writes' = writes
      BY <2>1
    <3>3. /\ held' \in Nat /\ Bytes(emitter') = Bytes(emitter)
          /\ Bytes(writes') = Bytes(writes)
          /\ held' + Bytes(Lens(mailbox')) = Bytes(Lens(mailbox)) + held
      BY <2>5, <3>2
    <3>4. rcvWnd' + (Bytes(emitter') + Bytes(writes') + held' + Bytes(Lens(mailbox')))
            = rcvWnd + (Bytes(emitter) + Bytes(writes) + held + Bytes(Lens(mailbox)))
      BY <1>a, <3>1, <3>2, <3>3
    <3>. QED
      BY <3>2, <3>4, WindowMoves
  <2>. QED
    BY <2>5, <2>6, <2>7 DEF WindowInv
<1>3. CASE OnReceiverEnd
  <2>1. TypeOK' /\ UNCHANGED window
    BY <1>0, <1>3 DEF OnReceiverEnd, TypeOK, window
  <2>. QED
    BY <2>1, WindowKept DEF WindowInv
<1>4. CASE EmitData
  <2>1. /\ readable # <<>> /\ readable' = Tail(readable)
        /\ out' = Append(out, Head(readable))
        /\ receiving' = Read(Bytes(readable) - Head(readable))
        /\ UNCHANGED <<lwipVars, queueVars, writes, held, buffer, finished, eof,
                       flowing, listener, ended, destroyed, alive, pauses>>
    BY <1>4 DEF EmitData
  <2>2. readable' \in Chunks /\ out' \in Chunks
    BY <1>0, <2>1, Types, HeadMoves
  <2>3. receiving' \in BOOLEAN
    BY <1>0, <2>1, Types DEF Read
  <2>4. TypeOK' /\ UNCHANGED window
    BY <1>0, <2>1, <2>2, <2>3 DEF TypeOK, window
  <2>. QED
    BY <2>4, WindowKept DEF WindowInv
<1>5. CASE EmitEnd
  <2>1. TypeOK' /\ UNCHANGED window
    BY <1>0, <1>5 DEF EmitEnd, TypeOK, window
  <2>. QED
    BY <2>1, WindowKept DEF WindowInv
<1>. QED
  BY <1>1, <1>2, <1>3, <1>4, <1>5 DEF Tick

\* The application, the events, and Socket::init.
LEMMA CallsKeepWindow ==
  ASSUME WindowInv, Application \/ Events \/ Install \/ Initialised
  PROVE  WindowInv'
<1>. USE DEF lwipVars, queueVars, receiverVars, duplexVars
<1>0. TypeOK /\ AcksSet
  BY DEF WindowInv
<1>1. ASSUME NEW k PROVE Read(k) \in BOOLEAN
  BY <1>0, Types DEF Read
<1>2. CASE Listen
  <2>1. TypeOK' /\ UNCHANGED window
    BY <1>0, <1>1, <1>2 DEF Listen, TypeOK, window
  <2>. QED
    BY <2>1, WindowKept DEF WindowInv
<1>3. CASE Pause
  <2>1. TypeOK' /\ UNCHANGED window
    BY <1>0, <1>3, ReceiveAssumption DEF Pause, TypeOK, window, ReceiveAssumption
  <2>. QED
    BY <2>1, WindowKept DEF WindowInv
<1>4. CASE Resume
  <2>1. TypeOK' /\ UNCHANGED window
    BY <1>0, <1>1, <1>4 DEF Resume, TypeOK, window
  <2>. QED
    BY <2>1, WindowKept DEF WindowInv
<1>5. CASE Destroy \/ Install \/ Initialised
  <2>1. CASE Destroy
    <3>1. TypeOK' /\ UNCHANGED window
      BY <1>0, <2>1 DEF Destroy, TypeOK, window
    <3>. QED
      BY <3>1, WindowKept DEF WindowInv
  <2>2. CASE Install \/ Initialised
    <3>1. alive' \in BOOLEAN /\ callbacks' \in {"none", "recv", "all"}
      BY <2>2 DEF Install, Initialised
    <3>2. UNCHANGED <<pcb, cleared, rcvWnd, arrived, received, early, queueVars,
                      receiverVars, duplexVars, pauses>>
      BY <2>2 DEF Install, Initialised
    <3>3. TypeOK' /\ UNCHANGED window
      BY <1>0, <3>1, <3>2 DEF TypeOK, window
    <3>. QED
      BY <3>3, WindowKept DEF WindowInv
  <2>. QED
    BY <1>5, <2>1, <2>2
<1>6. CASE OnData
  <2>1. /\ emitter # <<>> /\ emitter' = Tail(emitter)
        /\ writes' = Append(writes, Head(emitter))
        /\ UNCHANGED <<lwipVars, notices, mailbox, held, buffer, finished, receiving,
                       duplexVars, alive, pauses>>
    BY <1>6 DEF OnData
  <2>2. /\ Head(emitter) \in Length /\ emitter' \in Chunks
        /\ Bytes(emitter) = Head(emitter) + Bytes(emitter')
    BY <1>0, <2>1, Types, ChunkBytes
  <2>3. writes' \in Chunks /\ Bytes(writes') = Bytes(writes) + Head(emitter)
    BY <1>0, <2>1, <2>2, Types, ChunkBytes
  <2>4. TypeOK' /\ AcksSet'
    BY <1>0, <2>1, <2>2, <2>3 DEF TypeOK, AcksSet
  <2>5. WindowConserved'
    <3>1. /\ Bytes(emitter') \in Nat /\ Head(emitter) \in Nat
          /\ Bytes(writes) \in Nat /\ Bytes(Lens(mailbox)) \in Nat
          /\ held \in Nat /\ rcvWnd \in Nat
      <4>1. /\ Bytes(writes) \in Nat /\ Bytes(Lens(mailbox)) \in Nat
            /\ held \in Nat /\ rcvWnd \in Nat
        BY <1>0, Types, Amounts
      <4>2. Bytes(emitter') \in Nat /\ Head(emitter) \in Nat
        BY <2>2, ChunkBytes DEF Length
      <4>. QED
        BY <4>1, <4>2
    <3>2. /\ pcb' = pcb /\ rcvWnd' = rcvWnd /\ mailbox' = mailbox /\ held' = held
          /\ Bytes(emitter) = Head(emitter) + Bytes(emitter')
          /\ Bytes(writes') = Bytes(writes) + Head(emitter)
      BY <2>1, <2>2, <2>3
    <3>3. rcvWnd' + (Bytes(emitter') + Bytes(writes') + held' + Bytes(Lens(mailbox')))
            = rcvWnd + (Bytes(emitter) + Bytes(writes) + held + Bytes(Lens(mailbox)))
      BY <3>1, <3>2
    <3>. QED
      BY <3>2, <3>3, WindowMoves
  <2>. QED
    BY <2>4, <2>5 DEF WindowInv
<1>7. CASE OnFin \/ OnError
  <2>1. /\ notices # <<>> /\ notices' = Tail(notices)
        /\ UNCHANGED <<lwipVars, emitter, mailbox, writes, held, buffer, readable,
                       eof, listener, ended, out, alive, pauses>>
        /\ finished' \in {TRUE, finished} /\ destroyed' \in {TRUE, destroyed}
        /\ flowing' \in {"on", flowing} /\ receiving' \in {Read(0), receiving}
    BY <1>7 DEF OnFin, OnError
  <2>2. notices' \in Seq({"fin", "error"})
    BY <1>0, <2>1, Types, HeadTailProperties
  <2>3. /\ finished' \in BOOLEAN /\ destroyed' \in BOOLEAN /\ receiving' \in BOOLEAN
        /\ flowing' \in {"unset", "on", "off"}
    BY <1>0, <1>1, <2>1 DEF TypeOK
  <2>4. UNCHANGED <<pcb, callbacks, cleared, rcvWnd, arrived, received, early>>
    BY <2>1
  <2>5. TypeOK' /\ UNCHANGED window
    BY <1>0, <2>1, <2>2, <2>3, <2>4 DEF TypeOK, window
  <2>. QED
    BY <2>5, WindowKept DEF WindowInv
<1>. QED
  BY <1>2, <1>3, <1>4, <1>5, <1>6, <1>7 DEF Application, Events

\* The function of ack: the window grows by all that was acknowledged, and
\* never beyond its size, because of what is in transit.
LEMMA AckKeepsWindow == ASSUME WindowInv, RunAck PROVE WindowInv'
<1>. DEFINE ack == Head(mailbox)
<1>0. TypeOK /\ AcksSet
  BY DEF WindowInv
<1>1. /\ mailbox # <<>> /\ mailbox' = Tail(mailbox)
      /\ rcvWnd' = IF ack.set /\ pcb # "freed" THEN AfterRecved(Recved(ack.len))
                                               ELSE rcvWnd
      /\ alive' \in BOOLEAN
      /\ UNCHANGED <<pcb, callbacks, cleared, arrived, received, early, emitter,
                     notices, receiverVars, duplexVars, pauses>>
  BY DEF RunAck
<1>2. /\ ack \in Acks /\ mailbox' \in Seq(Acks)
      /\ Bytes(Lens(mailbox)) = ack.len + Bytes(Lens(mailbox'))
      /\ (\A i \in DOMAIN mailbox : mailbox[i].set)
           => ack.set /\ \A i \in DOMAIN mailbox' : mailbox'[i].set
  BY <1>0, <1>1, Types, AckBytes
<1>3. ack.len \in Nat /\ ack.set \in BOOLEAN
  BY <1>2 DEF Acks, Length
<1>4. Bytes(Lens(mailbox')) \in Nat
  BY <1>2, AckBytes
<1>. HIDE DEF ack
<1>5. AcksSet' /\ (pcb # "freed" => ack.set)
  BY <1>0, <1>1, <1>2 DEF AcksSet
<1>6. Recved(ack.len) = ack.len
  BY <1>3, AcksAll
<1>7. rcvWnd' \in 0..Wnd
  BY <1>0, <1>1, <1>3, <1>6, Types DEF AfterRecved
<1>8. TypeOK'
  BY <1>0, <1>1, <1>2, <1>7 DEF TypeOK, Acks, Length, receiverVars, duplexVars
<1>9. WindowConserved'
  <2>. SUFFICES ASSUME pcb' # "freed" PROVE WindowConserved'
    BY DEF WindowConserved
  <2>1. rcvWnd + (Bytes(emitter) + Bytes(writes) + held + Bytes(Lens(mailbox))) = Wnd
    BY <1>1, TransitIs DEF WindowInv, WindowConserved
  <2>a. /\ Bytes(emitter) \in Nat /\ Bytes(writes) \in Nat /\ rcvWnd \in 0..Wnd
        /\ held \in Nat /\ Wnd \in Nat
    BY <1>0, Amounts, Types
  <2>b. Bytes(Lens(mailbox)) = ack.len + Bytes(Lens(mailbox'))
    BY <1>2
  <2>2. rcvWnd + ack.len <= Wnd
    BY <1>3, <1>4, <2>1, <2>a, <2>b
  <2>3. rcvWnd' = rcvWnd + ack.len
    BY <1>0, <1>1, <1>3, <1>5, <1>6, <2>2, Types DEF AfterRecved
  <2>4. pcb' = pcb /\ emitter' = emitter /\ writes' = writes /\ held' = held
    BY <1>1 DEF receiverVars
  <2>5. rcvWnd' + (Bytes(emitter') + Bytes(writes') + held' + Bytes(Lens(mailbox')))
          = rcvWnd + (Bytes(emitter) + Bytes(writes) + held + Bytes(Lens(mailbox)))
    BY <1>3, <1>4, <2>3, <2>4, <2>a, <2>b
  <2>. QED
    BY <2>4, <2>5, WindowMoves
<1>. QED
  BY <1>5, <1>8, <1>9 DEF WindowInv

\* What the peer sends.
LEMMA PeerKeepsWindow ==
  ASSUME WindowInv, PeerFin \/ PeerReset \/ \E n \in SegLens : Segment(n)
  PROVE  WindowInv'
<1>. USE DEF receiverVars, duplexVars
<1>0. TypeOK /\ AcksSet
  BY DEF WindowInv
<1>1. ASSUME NEW n \in SegLens, Segment(n) PROVE WindowInv'
  <2>1. n \in Length /\ n \in Nat
    BY ReceiveAssumption DEF ReceiveAssumption, Length
  <2>2. /\ n <= rcvWnd /\ received' = received + n
        /\ UNCHANGED <<pcb, callbacks, cleared, notices, mailbox, receiverVars,
                       duplexVars, alive, pauses>>
    BY <1>1 DEF Segment
  <2>3. CASE callbacks # "none"
    <3>1. /\ rcvWnd' = rcvWnd - n /\ emitter' = Append(emitter, n)
          /\ arrived' = Append(arrived, n) /\ UNCHANGED early
      BY <1>1, <2>3 DEF Segment
    <3>2. /\ emitter' \in Chunks /\ arrived' \in Chunks
          /\ Bytes(emitter') = Bytes(emitter) + n
      BY <1>0, <2>1, <3>1, Types, ChunkBytes
    <3>3. /\ rcvWnd \in 0..Wnd /\ received \in Nat /\ held \in Nat /\ Wnd \in Nat
          /\ Bytes(emitter) \in Nat /\ Bytes(writes) \in Nat /\ Bytes(Lens(mailbox)) \in Nat
      BY <1>0, Types, Amounts DEF TypeOK
    <3>4. rcvWnd' \in 0..Wnd /\ received' \in Nat
      BY <2>1, <2>2, <3>1, <3>3
    <3>5. TypeOK' /\ AcksSet'
      BY <1>0, <2>2, <3>1, <3>2, <3>4 DEF TypeOK, AcksSet
    <3>6. pcb' = pcb /\ mailbox' = mailbox /\ writes' = writes /\ held' = held
      BY <2>2
    <3>7. rcvWnd' + (Bytes(emitter') + Bytes(writes') + held' + Bytes(Lens(mailbox')))
            = rcvWnd + (Bytes(emitter) + Bytes(writes) + held + Bytes(Lens(mailbox)))
      BY <2>1, <3>1, <3>2, <3>3, <3>6
    <3>8. WindowConserved'
      BY <3>6, <3>7, WindowMoves
    <3>. QED
      BY <3>5, <3>8 DEF WindowInv
  <2>4. CASE callbacks = "none"
    <3>1. /\ early' = TRUE /\ UNCHANGED <<rcvWnd, emitter, arrived>>
          /\ received' \in Nat
      BY <1>0, <1>1, <2>1, <2>2, <2>4 DEF Segment, TypeOK
    <3>2. TypeOK' /\ UNCHANGED window
      BY <1>0, <2>2, <3>1 DEF TypeOK, window
    <3>. QED
      BY <3>2, WindowKept DEF WindowInv
  <2>. QED
    BY <2>3, <2>4
<1>2. CASE PeerFin \/ PeerReset
  <2>1. /\ \/ pcb' = "freed" /\ cleared' \in BOOLEAN
           \/ pcb' = "fin" /\ pcb # "freed" /\ UNCHANGED cleared
        /\ notices' = Append(notices, "fin") \/ notices' = Append(notices, "error")
             \/ notices' = notices
        /\ early' \in BOOLEAN
        /\ UNCHANGED <<callbacks, rcvWnd, arrived, received, emitter, mailbox,
                       receiverVars, duplexVars, alive, pauses>>
    <3>1. /\ \/ pcb' = "freed" /\ cleared' = (callbacks = "all")
             \/ pcb' = "fin" /\ pcb # "freed" /\ UNCHANGED cleared
          /\ \E told \in BOOLEAN : early' = (early \/ ~told)
      BY <1>2 DEF PeerFin, PeerReset, Notice
    <3>2. early \in BOOLEAN
      BY <1>0 DEF TypeOK
    <3>3. early' \in BOOLEAN
      BY <3>1, <3>2, Zenon
    <3>4. \/ pcb' = "freed" /\ cleared' \in BOOLEAN
          \/ pcb' = "fin" /\ pcb # "freed" /\ UNCHANGED cleared
      BY <3>1, Zenon
    <3>. QED
      BY <1>2, <3>3, <3>4 DEF PeerFin, PeerReset, Notice
  <2>2. notices' \in Seq({"fin", "error"})
    <3>1. /\ notices \in Seq({"fin", "error"})
          /\ "fin" \in {"fin", "error"} /\ "error" \in {"fin", "error"}
      BY <1>0, Types
    <3>2. /\ Append(notices, "fin") \in Seq({"fin", "error"})
          /\ Append(notices, "error") \in Seq({"fin", "error"})
      BY <3>1, AppendProperties
    <3>. QED
      BY <2>1, <3>1, <3>2
  <2>3. TypeOK' /\ AcksSet'
    BY <1>0, <2>1, <2>2 DEF TypeOK, AcksSet
  <2>4. WindowConserved'
    BY <2>1, WindowMoves
  <2>. QED
    BY <2>3, <2>4 DEF WindowInv
<1>. QED
  BY <1>1, <1>2

\* At first the whole window is free.
LEMMA WindowInit == ASSUME Init PROVE WindowInv
<1>1. <<>> \in Chunks /\ <<>> \in Seq(Acks) /\ <<>> \in Seq({"fin", "error"})
  BY NoChunks, EmptySeq
<1>2. TypeOK
  <2>1. rcvWnd \in 0..Wnd /\ pauses \in 0..MaxPauses
    BY ReceiveAssumption DEF Init, ReceiveAssumption
  <2>2. /\ emitter \in Chunks /\ writes \in Chunks /\ buffer \in Chunks
        /\ readable \in Chunks /\ arrived \in Chunks /\ out \in Chunks
        /\ mailbox \in Seq(Acks) /\ notices \in Seq({"fin", "error"})
    BY <1>1 DEF Init
  <2>. QED
    BY <2>1, <2>2 DEF Init, TypeOK, Acks, Length
<1>3. AcksSet
  BY EmptySeq DEF Init, AcksSet
<1>4. Bytes(<<>>) = 0 /\ Lens(<<>>) = <<>>
  <2>1. Lens(<<>>) = <<>>
    BY DEF Lens
  <2>. QED
    BY <2>1, NoBytes
<1>5. WindowConserved
  BY <1>4, TransitIs, ReceiveAssumption DEF Init, WindowConserved, ReceiveAssumption
<1>. QED
  BY <1>2, <1>3, <1>5 DEF WindowInv

\* Every step of the receiver keeps WindowInv.
LEMMA WindowStep == ASSUME WindowInv, ReceiverStep PROVE WindowInv'
<1>1. CASE UNCHANGED vars
  <2>1. TypeOK' /\ UNCHANGED window
    BY <1>1 DEF WindowInv, TypeOK, window, vars, lwipVars, queueVars, receiverVars,
                duplexVars
  <2>. QED
    BY <2>1, WindowKept DEF WindowInv
<1>2. CASE Local
  BY <1>2, TickKeepsWindow, CallsKeepWindow, AckKeepsWindow DEF Local,
     JavaScript
<1>. QED
  BY <1>1, <1>2, PeerKeepsWindow DEF ReceiverStep

-----------------------------------------------------------------------------
(* ImplementsByteSource *)

\* What is on its way to the Duplex is made of segments.
SegmentsOnly ==
  emitter \in Seq(SegLens) /\ writes \in Seq(SegLens) /\ buffer \in Seq(SegLens)

\* The receiver holds less than its mark, not counting the chunk whose write
\* waits for it.
ReceiverBounded == ~finished => Bytes(buffer) < PassMark + held

\* What has left the receiver and was not emitted: in the Duplex, or, once that
\* is destroyed, lost.  One chunk may exceed the mark, because the receiver is
\* paused only after it.
Unread == Bytes(arrived) - (Bytes(out) + Bytes(buffer) + Bytes(writes) + Bytes(emitter))
DuplexBounded ==
  /\ Unread <= (ReadMark - 1) + LargestSeg
  /\ receiving => Unread < ReadMark
  /\ ~destroyed => Unread = Bytes(readable)

Bounded == SegmentsOnly /\ ReceiverBounded /\ DuplexBounded

SourceInv == ReceiveInv /\ WindowInv /\ Bounded

\* The longest segment.
LEMMA Largest == LargestSeg \in Nat /\ \A n \in SegLens : n \in Length /\ n <= LargestSeg
<1>1. SegLens \subseteq Nat \ {0} /\ \E n \in SegLens : \A m \in SegLens : m <= n
  BY ReceiveAssumption, PipeAssumption DEF ReceiveAssumption, PipeAssumption
<1>2. LargestSeg \in SegLens /\ \A m \in SegLens : m <= LargestSeg
  BY <1>1 DEF LargestSeg
<1>. QED
  BY <1>1, <1>2 DEF Length

\* A queue of segments, as they come and go.
LEMMA SegmentMoves ==
  ASSUME NEW s \in Seq(SegLens)
  PROVE  /\ \A n \in SegLens : Append(s, n) \in Seq(SegLens)
         /\ s # <<>> => Head(s) \in SegLens /\ Tail(s) \in Seq(SegLens)
BY HeadTailProperties, AppendProperties

\* Numbers that the lemmas below calculate with.
LEMMA Sizes ==
  ASSUME TypeOK
  PROVE  /\ Bytes(emitter) \in Nat /\ Bytes(writes) \in Nat /\ Bytes(buffer) \in Nat
         /\ Bytes(readable) \in Nat /\ Bytes(out) \in Nat /\ Bytes(arrived) \in Nat
         /\ held \in Nat /\ Unread \in Int /\ LargestSeg \in Nat
         /\ PassMark \in Nat \ {0} /\ ReadMark \in Nat \ {0}
<1>1. /\ Bytes(emitter) \in Nat /\ Bytes(writes) \in Nat /\ Bytes(buffer) \in Nat
      /\ Bytes(readable) \in Nat /\ Bytes(out) \in Nat /\ Bytes(arrived) \in Nat
  BY Amounts
<1>2. held \in Nat /\ LargestSeg \in Nat /\ PassMark \in Nat \ {0} /\ ReadMark \in Nat \ {0}
  BY Types, Largest, ReceiveAssumption DEF ReceiveAssumption
<1>. QED
  BY <1>1, <1>2 DEF Unread

\* What Bounded is about.
sizes == <<emitter, writes, buffer, held, finished, readable, receiving, destroyed,
           out, arrived>>

\* A step that leaves it alone.
LEMMA BoundedKept == ASSUME Bounded, UNCHANGED sizes PROVE Bounded'
BY DEF Bounded, SegmentsOnly, ReceiverBounded, DuplexBounded, Unread, sizes

\* A step of the streams or an event that moves a chunk between queues outside
\* the Duplex, none of which the receiver holds more of.
LEMMA DuplexKept ==
  ASSUME DuplexBounded, TypeOK, Unread' = Unread,
         UNCHANGED readable, destroyed \in BOOLEAN,
         receiving' => receiving \/ (~destroyed /\ Bytes(readable) < ReadMark),
         ~destroyed' => ~destroyed
  PROVE  DuplexBounded'
BY Sizes DEF DuplexBounded

\* The streams.
LEMMA TickKeepsBounds == ASSUME SourceInv, Tick PROVE Bounded'
<1>. USE DEF lwipVars, queueVars, receiverVars, duplexVars
<1>0. TypeOK /\ SegmentsOnly /\ ReceiverBounded /\ DuplexBounded
  BY DEF SourceInv, WindowInv, Bounded
<1>a. /\ Bytes(emitter) \in Nat /\ Bytes(writes) \in Nat /\ Bytes(buffer) \in Nat
      /\ Bytes(readable) \in Nat /\ Bytes(out) \in Nat /\ Bytes(arrived) \in Nat
      /\ held \in Nat /\ Unread \in Int /\ LargestSeg \in Nat
      /\ PassMark \in Nat \ {0} /\ ReadMark \in Nat \ {0}
  BY <1>0, Sizes
<1>1. CASE Transform
  <2>. DEFINE n == Head(writes)
  <2>1. /\ held = 0 /\ writes # <<>>
        /\ buffer' = Append(buffer, n) /\ writes' = Tail(writes)
        /\ UNCHANGED <<emitter, finished, receiving, readable, destroyed, out, arrived>>
        /\ held' = IF DoneAtOnce(n) THEN 0 ELSE n
    BY <1>1 DEF Transform
  <2>2. n \in SegLens /\ writes' \in Seq(SegLens)
    BY <1>0, <2>1, SegmentMoves DEF SegmentsOnly
  <2>3. n \in Nat
    BY <2>2, Largest DEF Length
  <2>4. /\ Bytes(writes) = n + Bytes(writes') /\ Bytes(writes') \in Nat
        /\ Bytes(buffer') = Bytes(buffer) + n
    BY <1>0, <2>1, <2>2, Types, ChunkBytes, Largest
  <2>5. SegmentsOnly'
    BY <1>0, <2>1, <2>2, SegmentMoves DEF SegmentsOnly
  <2>. HIDE DEF n
  <2>6. ReceiverBounded'
    BY <1>0, <1>a, <2>1, <2>3, <2>4 DEF ReceiverBounded, DoneAtOnce
  <2>7. Unread' = Unread
    BY <1>a, <2>1, <2>3, <2>4 DEF Unread
  <2>8. DuplexBounded'
    BY <1>0, <2>1, <2>7, DuplexKept DEF TypeOK
  <2>. QED
    BY <2>5, <2>6, <2>8 DEF Bounded
<1>2. CASE OnReceiverData
  <2>. DEFINE n == Head(buffer)
  <2>1. /\ receiving /\ buffer # <<>> /\ buffer' = Tail(buffer)
        /\ readable' = Pushed(n) /\ receiving' = Accepts(n)
        /\ UNCHANGED <<emitter, writes, finished, destroyed, out, arrived>>
        /\ held' = IF held > 0 /\ Bytes(buffer) - n < PassMark THEN 0 ELSE held
    BY <1>2 DEF OnReceiverData
  <2>2. n \in SegLens /\ buffer' \in Seq(SegLens)
    BY <1>0, <2>1, SegmentMoves DEF SegmentsOnly
  <2>3. n \in Length /\ n \in Nat /\ n <= LargestSeg
    BY <2>2, Largest DEF Length
  <2>4. /\ Bytes(buffer) = n + Bytes(buffer') /\ Bytes(buffer') \in Nat
        /\ Bytes(Append(readable, n)) = Bytes(readable) + n
    BY <1>0, <2>1, <2>3, Types, ChunkBytes
  <2>5. SegmentsOnly'
    BY <1>0, <2>1, <2>2 DEF SegmentsOnly
  <2>. HIDE DEF n
  <2>6. ReceiverBounded'
    BY <1>0, <1>a, <2>1, <2>3, <2>4 DEF ReceiverBounded
  <2>7. Unread' = Unread + n
    <3>1. /\ Bytes(buffer) = n + Bytes(buffer') /\ Bytes(buffer') \in Nat
          /\ UNCHANGED <<emitter, writes, out, arrived>>
      BY <2>1, <2>4
    <3>. QED
      BY <1>a, <2>3, <3>1 DEF Unread
  <2>8. DuplexBounded'
    <3>1. Unread < ReadMark /\ (~destroyed => Unread = Bytes(readable))
      BY <1>0, <2>1 DEF DuplexBounded
    <3>2. Unread' <= (ReadMark - 1) + LargestSeg
      BY <1>a, <2>3, <2>7, <3>1
    <3>3. receiving' => Unread' < ReadMark
      BY <1>a, <2>1, <2>3, <2>7, <3>1 DEF Accepts
    <3>4. ~destroyed' => Unread' = Bytes(readable')
      BY <1>a, <2>1, <2>4, <2>7, <3>1 DEF Pushed
    <3>. QED
      BY <3>2, <3>3, <3>4 DEF DuplexBounded
  <2>. QED
    BY <2>5, <2>6, <2>8 DEF Bounded
<1>3. CASE OnReceiverEnd \/ EmitEnd
  <2>1. UNCHANGED sizes
    BY <1>3 DEF OnReceiverEnd, EmitEnd, sizes
  <2>. QED
    BY <2>1, BoundedKept DEF SourceInv
<1>4. CASE EmitData
  <2>. DEFINE n == Head(readable)
  <2>1. /\ readable # <<>> /\ ~destroyed /\ readable' = Tail(readable)
        /\ out' = Append(out, n) /\ receiving' = Read(Bytes(readable) - n)
        /\ UNCHANGED <<emitter, writes, buffer, held, finished, destroyed, arrived>>
    BY <1>4 DEF EmitData
  <2>2. /\ n \in Length /\ Bytes(readable) = n + Bytes(readable')
        /\ Bytes(readable') \in Nat
    BY <1>0, <2>1, Types, ChunkBytes
  <2>3. n \in Nat /\ Bytes(out') = Bytes(out) + n
    BY <1>0, <2>1, <2>2, Types, ChunkBytes DEF Length
  <2>4. SegmentsOnly' /\ ReceiverBounded'
    BY <1>0, <2>1 DEF SegmentsOnly, ReceiverBounded
  <2>. HIDE DEF n
  <2>5. Unread' = Unread - n
    <3>1. /\ Bytes(out') = Bytes(out) + n /\ n \in Nat
          /\ UNCHANGED <<emitter, writes, buffer, arrived>>
      BY <2>1, <2>3
    <3>. QED
      BY <1>a, <3>1 DEF Unread
  <2>6. DuplexBounded'
    <3>1. Unread = Bytes(readable) /\ Unread <= (ReadMark - 1) + LargestSeg
          /\ (receiving => Unread < ReadMark)
      BY <1>0, <2>1 DEF DuplexBounded
    <3>2. Unread' = Bytes(readable') /\ Unread' <= (ReadMark - 1) + LargestSeg
      BY <1>a, <2>2, <2>3, <2>5, <3>1
    <3>3. receiving' => Unread' < ReadMark
      <4>1. receiving' => receiving \/ Bytes(readable) - n < ReadMark
        BY <2>1 DEF Read
      <4>. QED
        BY <1>a, <2>3, <2>5, <3>1, <4>1
    <3>. QED
      BY <3>2, <3>3 DEF DuplexBounded
  <2>. QED
    BY <2>4, <2>6 DEF Bounded
<1>. QED
  BY <1>1, <1>2, <1>3, <1>4 DEF Tick

\* Everything else that happens on the reading side.
LEMMA LocalKeepsBounds == ASSUME SourceInv, Local PROVE Bounded'
<1>. USE DEF lwipVars, queueVars, receiverVars, duplexVars
<1>0. TypeOK /\ SegmentsOnly /\ ReceiverBounded /\ DuplexBounded
  BY DEF SourceInv, WindowInv, Bounded
<1>1. CASE Tick
  BY <1>1, TickKeepsBounds
<1>2. CASE Listen \/ Resume
  <2>1. /\ ~destroyed /\ receiving' \in {receiving, Read(Bytes(readable))}
        /\ UNCHANGED <<emitter, writes, buffer, held, finished, readable, destroyed,
                       out, arrived>>
    BY <1>2 DEF Listen, Resume
  <2>2. SegmentsOnly' /\ ReceiverBounded' /\ Unread' = Unread
    BY <1>0, <2>1 DEF SegmentsOnly, ReceiverBounded, Unread
  <2>3. DuplexBounded'
    BY <1>0, <2>1, <2>2, DuplexKept DEF Read, TypeOK
  <2>. QED
    BY <2>2, <2>3 DEF Bounded
<1>3. CASE Destroy \/ OnError
  <2>1. /\ destroyed'
        /\ UNCHANGED <<emitter, writes, buffer, held, finished, readable, receiving,
                       out, arrived>>
    BY <1>3 DEF Destroy, OnError
  <2>2. SegmentsOnly' /\ ReceiverBounded' /\ Unread' = Unread
    BY <1>0, <2>1 DEF SegmentsOnly, ReceiverBounded, Unread
  <2>3. DuplexBounded'
    BY <1>0, <2>1, <2>2, DuplexKept DEF TypeOK
  <2>. QED
    BY <2>2, <2>3 DEF Bounded
<1>4. CASE OnData
  <2>. DEFINE n == Head(emitter)
  <2>1. /\ emitter # <<>> /\ emitter' = Tail(emitter) /\ writes' = Append(writes, n)
        /\ UNCHANGED <<buffer, held, finished, readable, receiving, destroyed, out,
                       arrived>>
    BY <1>4 DEF OnData
  <2>2. n \in SegLens /\ emitter' \in Seq(SegLens) /\ writes' \in Seq(SegLens)
    BY <1>0, <2>1, SegmentMoves DEF SegmentsOnly
  <2>3. n \in Length /\ n \in Nat
    BY <2>2, Largest DEF Length
  <2>4. /\ Bytes(emitter) = n + Bytes(emitter') /\ Bytes(emitter') \in Nat
        /\ Bytes(writes') = Bytes(writes) + n
    BY <1>0, <2>1, <2>3, Types, ChunkBytes
  <2>. HIDE DEF n
  <2>5. SegmentsOnly' /\ ReceiverBounded'
    BY <1>0, <2>1, <2>2 DEF SegmentsOnly, ReceiverBounded
  <2>6. Unread' = Unread
    <3>1. Bytes(writes) \in Nat /\ Bytes(out) \in Nat /\ Bytes(arrived) \in Nat
          /\ Bytes(buffer) \in Nat
      BY <1>0, Amounts
    <3>. QED
      BY <2>1, <2>3, <2>4, <3>1 DEF Unread
  <2>7. DuplexBounded'
    BY <1>0, <2>1, <2>6, DuplexKept DEF TypeOK
  <2>. QED
    BY <2>5, <2>7 DEF Bounded
<1>5. CASE OnFin
  <2>1. /\ finished'
        /\ \/ receiving' = receiving
           \/ readable = <<>> /\ receiving' = Read(0)
        /\ UNCHANGED <<emitter, writes, buffer, held, readable, destroyed, out, arrived>>
    BY <1>5 DEF OnFin, FlowsAtFin
  <2>2. SegmentsOnly' /\ ReceiverBounded' /\ Unread' = Unread
    BY <1>0, <2>1 DEF SegmentsOnly, ReceiverBounded, Unread
  <2>3. DuplexBounded'
    BY <1>0, <2>1, <2>2, DuplexKept, NoBytes DEF Read, TypeOK
  <2>. QED
    BY <2>2, <2>3 DEF Bounded
<1>6. CASE Pause \/ Install \/ Initialised \/ RunAck
  <2>1. UNCHANGED sizes
    BY <1>6 DEF Pause, Install, Initialised, RunAck, sizes
  <2>. QED
    BY <2>1, BoundedKept DEF SourceInv
<1>. QED
  BY <1>1, <1>2, <1>3, <1>4, <1>5, <1>6
     DEF Local, JavaScript, Application, Events

\* A segment is taken while the window lasts, so that the queues behind it hold
\* no more than the window, and nothing more than the capacity piles up.
LEMMA SegmentKeepsBounds ==
  ASSUME SourceInv, NEW n \in SegLens, Segment(n)
  PROVE  /\ Bounded'
         /\ arrived' # arrived =>
              /\ arrived' = Append(arrived, n) /\ ~finished
              /\ Bytes(arrived')
                   <= Bytes(out) + (Wnd + (PassMark - 1) + (ReadMark - 1) + LargestSeg)
<1>0. TypeOK /\ SegmentsOnly /\ ReceiverBounded /\ DuplexBounded /\ FinIsLast
  BY DEF SourceInv, WindowInv, Bounded, ReceiveInv
<1>1. CASE callbacks = "none"
  <2>1. UNCHANGED sizes
    BY <1>1 DEF Segment, sizes, receiverVars, duplexVars
  <2>. QED
    BY <2>1, BoundedKept DEF SourceInv, sizes
<1>2. CASE callbacks # "none"
  <2>1. /\ pcb = "open" /\ pcb' = pcb
        /\ emitter' = Append(emitter, n) /\ arrived' = Append(arrived, n)
        /\ UNCHANGED <<writes, buffer, held, finished, readable, receiving, destroyed,
                       out>>
    BY <1>2 DEF Segment, receiverVars, duplexVars
  <2>2. n \in Length /\ n \in Nat /\ ~finished
    BY <1>0, <2>1, Largest DEF FinIsLast, Length
  <2>3. Bytes(emitter') = Bytes(emitter) + n /\ Bytes(arrived') = Bytes(arrived) + n
    BY <1>0, <2>1, <2>2, Types, ChunkBytes
  <2>4. SegmentsOnly' /\ ReceiverBounded'
    BY <1>0, <2>1, SegmentMoves DEF SegmentsOnly, ReceiverBounded
  <2>5. Unread' = Unread
    <3>1. Bytes(emitter) \in Nat /\ Bytes(writes) \in Nat /\ Bytes(out) \in Nat
          /\ Bytes(arrived) \in Nat /\ Bytes(buffer) \in Nat
      BY <1>0, Amounts
    <3>. QED
      BY <2>1, <2>2, <2>3, <3>1 DEF Unread
  <2>6. DuplexBounded'
    BY <1>0, <2>1, <2>5, DuplexKept DEF TypeOK
  <2>7. WindowInv'
    BY PeerKeepsWindow DEF SourceInv
  <2>8. TypeOK' /\ rcvWnd' + InTransit' = Wnd
    BY <2>1, <2>7 DEF WindowInv, WindowConserved
  <2>9. /\ rcvWnd' \in Nat /\ Bytes(emitter') \in Nat /\ Bytes(writes') \in Nat
        /\ held' \in Nat /\ Bytes(Lens(mailbox')) \in Nat
    <3>1. mailbox' \in Seq(Acks) /\ emitter' \in Chunks /\ writes' \in Chunks
          /\ rcvWnd' \in 0..Wnd /\ held' \in Nat /\ Wnd \in Nat
      BY <2>8, ReceiveAssumption DEF TypeOK, Acks, Length, ReceiveAssumption
    <3>2. rcvWnd' \in Nat
      BY <3>1
    <3>. QED
      BY <3>1, <3>2, ChunkBytes, AckBytes
  <2>10. Wnd \in Nat /\ PassMark \in Nat \ {0} /\ ReadMark \in Nat \ {0} /\ LargestSeg \in Nat
    BY ReceiveAssumption, Largest DEF ReceiveAssumption
  <2>11. Bytes(emitter') + Bytes(writes') + held' <= Wnd
    BY <2>8, <2>9, <2>10, TransitIs
  <2>12. /\ Bytes(buffer) <= (PassMark - 1) + held'
         /\ Bytes(buffer) \in Nat /\ Bytes(out) \in Nat /\ Bytes(arrived') \in Nat
         /\ writes' = writes
    <3>1. /\ Bytes(buffer) \in Nat /\ Bytes(out) \in Nat /\ Bytes(arrived) \in Nat
          /\ held \in Nat /\ held' = held /\ Bytes(buffer) < PassMark + held
      BY <1>0, <2>1, <2>2, Sizes DEF ReceiverBounded
    <3>. QED
      BY <2>1, <2>2, <2>3, <2>10, <3>1
  <2>13. Bytes(arrived') - (Bytes(out) + Bytes(buffer) + Bytes(writes') + Bytes(emitter'))
           <= (ReadMark - 1) + LargestSeg
    BY <2>1, <2>6 DEF DuplexBounded, Unread
  <2>14. Bytes(arrived')
           <= Bytes(out) + (Wnd + (PassMark - 1) + (ReadMark - 1) + LargestSeg)
    BY <2>9, <2>10, <2>11, <2>12, <2>13
  <2>. QED
    BY <2>1, <2>2, <2>4, <2>6, <2>14 DEF Bounded
<1>. QED
  BY <1>1, <1>2

\* At first there is nothing anywhere.
LEMMA BoundedInit == ASSUME Init PROVE Bounded
<1>1. <<>> \in Seq(SegLens) /\ Bytes(<<>>) = 0
  BY EmptySeq, NoBytes
<1>2. PassMark \in Nat \ {0} /\ ReadMark \in Nat \ {0} /\ LargestSeg \in Nat
  BY ReceiveAssumption, Largest DEF ReceiveAssumption
<1>3. SegmentsOnly /\ ReceiverBounded
  BY <1>1, <1>2 DEF Init, SegmentsOnly, ReceiverBounded
<1>4. Unread = 0
  BY <1>1 DEF Init, Unread
<1>5. DuplexBounded
  BY <1>1, <1>2, <1>4 DEF Init, DuplexBounded
<1>. QED
  BY <1>3, <1>5 DEF Bounded

\* Every step of the receiver keeps SourceInv.
LEMMA SourceStep == ASSUME SourceInv, ReceiverStep PROVE SourceInv'
<1>1. ReceiveInv' /\ WindowInv'
  BY ReceiveStep, WindowStep DEF SourceInv
<1>2. Bounded'
  <2>1. CASE Local
    BY <2>1, LocalKeepsBounds
  <2>2. ASSUME NEW n \in SegLens, Segment(n) PROVE Bounded'
    BY <2>2, SegmentKeepsBounds
  <2>3. CASE PeerFin \/ PeerReset \/ UNCHANGED vars
    <3>1. UNCHANGED sizes
      BY <2>3 DEF PeerFin, PeerReset, Notice, vars, sizes, lwipVars, queueVars,
                  receiverVars, duplexVars
    <3>. QED
      BY <3>1, BoundedKept DEF SourceInv
  <2>. QED
    BY <2>1, <2>2, <2>3 DEF ReceiverStep
<1>. QED
  BY <1>1, <1>2 DEF SourceInv

\* The sums of the abstract specification are those of the receiver.
LEMMA SameSums ==
  ASSUME NEW s
  PROVE  Source!SumFunction(s) = SumFunction(s)
BY DEF Source!SumFunction, Source!SumFunctionOnSet, Source!FoldFunctionOnSet,
       Source!MapThenFoldSet, SumFunction, SumFunctionOnSet, FoldFunctionOnSet,
       MapThenFoldSet

\* What is emitted next is the first of what has not been emitted.
LEMMA FirstOfRest ==
  ASSUME NEW s \in Chunks, NEW t \in Chunks, t # <<>>
  PROVE  /\ Len(s) < Len(s \o t)
         /\ SubSeq(s \o t, 1, Len(s) + 1) = Append(s, Head(t))
<1>. DEFINE a == Append(s, Head(t))
            u == s \o t
<1>1. a \in Chunks /\ Tail(t) \in Chunks /\ a \o Tail(t) = u
  BY HeadMoves, Zenon
<1>2. Len(a) = Len(s) + 1 /\ Len(s) \in Nat
  BY DEF Chunks
<1>. HIDE DEF a, u
<1>3. a \in Seq(Nat \ {0}) /\ Tail(t) \in Seq(Nat \ {0})
  BY <1>1 DEF Chunks
<1>. DEFINE r == Tail(t)
<1>4. /\ Len(u) = Len(a) + Len(r) /\ Len(r) \in Nat
      /\ \A i \in 1..Len(a) : u[i] = a[i]
  <2>1. r \in Seq(Nat \ {0}) /\ u = a \o r
    BY <1>1, <1>3
  <2>. HIDE DEF r
  <2>2. Len(a) \in Nat /\ Len(r) \in Nat
    BY <1>3, <2>1
  <2>3. /\ Len(a \o r) = Len(a) + Len(r)
        /\ \A i \in 1..(Len(a) + Len(r)) :
             (a \o r)[i] = IF i <= Len(a) THEN a[i] ELSE r[i - Len(a)]
    BY <1>3, <2>1, ConcatProperties
  <2>. QED
    BY <2>1, <2>2, <2>3
<1>. HIDE DEF r
<1>6. SubSeq(u, 1, Len(a)) = SubSeq(a, 1, Len(a))
  BY <1>2, <1>4
<1>7. SubSeq(a, 1, Len(a)) = a
  BY <1>3, SubSeqFull
<1>8. SubSeq(u, 1, Len(s) + 1) = a
  BY <1>2, <1>6, <1>7
<1>9. Len(s) < Len(u)
  BY <1>2, <1>4
<1>. QED
  BY <1>8, <1>9 DEF a, u

\* Every step of the receiver is one of the byte source, or none.
LEMMA SourceImplementedStep ==
  ASSUME SourceInv, ReceiverStep
  PROVE  [Source!SourceNext]_(Source!sourceVars)
<1>. USE DEF lwipVars, queueVars, receiverVars, duplexVars
<1>0. ChunksOK /\ NothingLost /\ FinIsLast /\ EofIsLast
  BY DEF SourceInv, ReceiveInv
<1>1. CASE UNCHANGED <<arrived, out, ended, destroyed>>
  BY <1>1 DEF Source!sourceVars
<1>2. CASE EmitData
  <2>1. /\ readable # <<>> /\ ~destroyed /\ out' = Append(out, Head(readable))
        /\ UNCHANGED <<arrived, ended, destroyed>>
    BY <1>2 DEF EmitData
  <2>2. ~ended
    BY <1>0, <2>1 DEF EofIsLast
  <2>. DEFINE rest == buffer \o (writes \o emitter)
              more == readable \o rest
  <2>3. rest \in Chunks /\ out \in Chunks /\ readable \in Chunks
    BY <1>0, ConcatChunks DEF ChunksOK
  <2>4. more \in Chunks /\ arrived = out \o more
    BY <1>0, <2>1, <2>3, ConcatChunks DEF NothingLost, InOrder
  <2>. HIDE DEF rest
  <2>5. more # <<>> /\ Head(more) = Head(readable)
    BY <2>1, <2>3, <2>4, EmptySeq DEF Chunks
  <2>. HIDE DEF more
  <2>6. /\ Len(out) < Len(arrived)
        /\ SubSeq(arrived, 1, Len(out) + 1) = Append(out, Head(readable))
    BY <2>1, <2>3, <2>4, <2>5, FirstOfRest, Zenon
  <2>7. Source!Emit
    BY <2>1, <2>2, <2>6 DEF Source!Emit
  <2>. QED
    BY <2>7 DEF Source!SourceNext
<1>3. CASE EmitEnd
  <2>1. /\ ~ended /\ ~destroyed /\ ended' /\ UNCHANGED <<arrived, out, destroyed>>
    BY <1>3 DEF EmitEnd
  <2>2. NothingLost'
    BY SourceStep DEF SourceInv, ReceiveInv
  <2>3. Source!End
    BY <2>1, <2>2 DEF Source!End, NothingLost, EndAfterAll
  <2>. QED
    BY <2>3 DEF Source!SourceNext
<1>4. CASE Destroy \/ OnError
  <2>1. destroyed' /\ UNCHANGED <<arrived, out, ended>>
    BY <1>4 DEF Destroy, OnError
  <2>2. CASE ended \/ destroyed
    BY <2>1, <2>2 DEF Source!sourceVars
  <2>3. CASE ~ended /\ ~destroyed
    BY <2>1, <2>3 DEF Source!Break, Source!SourceNext
  <2>. QED
    BY <2>2, <2>3
<1>5. ASSUME NEW n \in SegLens, Segment(n)
      PROVE  [Source!SourceNext]_(Source!sourceVars)
  <2>1. UNCHANGED <<out, ended, destroyed>>
    BY <1>5 DEF Segment
  <2>2. CASE arrived' = arrived
    BY <2>1, <2>2 DEF Source!sourceVars
  <2>3. CASE arrived' # arrived
    <3>1. /\ arrived' = Append(arrived, n) /\ ~finished
          /\ Bytes(arrived')
               <= Bytes(out) + (Wnd + (PassMark - 1) + (ReadMark - 1) + LargestSeg)
      BY <1>5, <2>3, SegmentKeepsBounds
    <3>2. ~ended
      BY <1>0, <3>1 DEF EofIsLast
    <3>3. arrived \in Seq(Nat \ {0}) /\ n \in Nat \ {0}
      BY <1>0, Largest DEF ChunksOK, Chunks, Length
    <3>4. /\ Len(Append(arrived, n)) = Len(arrived) + 1
          /\ SubSeq(Append(arrived, n), 1, Len(arrived)) = arrived
      BY <3>3
    <3>5. /\ Len(arrived') = Len(arrived) + 1
          /\ SubSeq(arrived', 1, Len(arrived)) = arrived
      BY <3>1, <3>4
    <3>6. SumFunction(arrived')
            <= SumFunction(out) + (Wnd + (PassMark - 1) + (ReadMark - 1) + LargestSeg)
      BY <3>1 DEF Bytes
    <3>7. Source!Arrive
      BY <2>1, <3>2, <3>5, <3>6, SameSums DEF Source!Arrive
    <3>. QED
      BY <3>7 DEF Source!SourceNext
  <2>. QED
    BY <2>2, <2>3
<1>6. CASE Transform \/ OnReceiverData \/ OnReceiverEnd
  BY <1>1, <1>6 DEF Transform, OnReceiverData, OnReceiverEnd
<1>7. CASE \/ Listen \/ Pause \/ Resume \/ OnData \/ OnFin
           \/ Install \/ Initialised \/ RunAck
  BY <1>1, <1>7 DEF Listen, Pause, Resume, OnData, OnFin, Install, Initialised, RunAck
<1>8. CASE PeerFin \/ PeerReset \/ UNCHANGED vars
  BY <1>1, <1>8 DEF PeerFin, PeerReset, Notice, vars
<1>. QED
  BY <1>2, <1>3, <1>4, <1>5, <1>6, <1>7, <1>8
     DEF ReceiverStep, Local, JavaScript, Tick, Application, Events

-----------------------------------------------------------------------------

\* The inductive invariant of the theorems below, for a receiver alone, to which
\* anything may be sent, and for one that flow control couples to a sender.
THEOREM SourceInvariant == Spec \/ PipeSpec => []SourceInv
<1>1. Init => SourceInv
  BY ReceiveInit, WindowInit, BoundedInit DEF SourceInv
<1>2. PipeInit => SourceInv
  BY <1>1 DEF PipeInit
<1>3. SourceInv /\ [Next]_vars => SourceInv'
  BY SourceStep, StepsOfReceiver
<1>4. SourceInv /\ [PipeNext]_pipeVars => SourceInv'
  BY SourceStep, StepsOfReceiver
<1>. QED
  BY <1>1, <1>2, <1>3, <1>4, PTL DEF Spec, PipeSpec

\* The receive window never exceeds its size, no ack is of nothing, and the
\* queues hold chunks.
THEOREM TypeCorrect == Spec \/ PipeSpec => []TypeOK
<1>1. SourceInv => TypeOK
  BY DEF SourceInv, WindowInv
<1>. QED
  BY <1>1, SourceInvariant, PTL

\* A Socket that is not destroyed loses, repeats and reorders nothing, and ends
\* after everything (net.ts:228-268), whatever the peer sends.
THEOREM ReceivesInOrder == Spec \/ PipeSpec => []NothingLost
<1>1. SourceInv => NothingLost
  BY DEF SourceInv, ReceiveInv
<1>. QED
  BY <1>1, SourceInvariant, PTL

\* No byte of the window is lost or given back twice (net.ts:233-236), whatever
\* the marks of the streams and however long an ack is.
THEOREM WindowIsConserved == Spec \/ PipeSpec => []WindowConserved
<1>1. SourceInv => WindowConserved
  BY DEF SourceInv, WindowInv
<1>. QED
  BY <1>1, SourceInvariant, PTL

\* The read side of a Socket implements the byte source: in order, nothing lost,
\* and no more held for the application than the window, the two marks and one
\* segment.
THEOREM SourceImplemented == Spec \/ PipeSpec => ImplementsByteSource
<1>1. Init => Source!SourceInit
  BY DEF Init, Source!SourceInit
<1>2. PipeInit => Source!SourceInit
  BY <1>1 DEF PipeInit
<1>3. SourceInv /\ [Next]_vars => [Source!SourceNext]_(Source!sourceVars)
  BY SourceImplementedStep, StepsOfReceiver
<1>4. SourceInv /\ [PipeNext]_pipeVars => [Source!SourceNext]_(Source!sourceVars)
  BY SourceImplementedStep, StepsOfReceiver
<1>. QED
  BY <1>1, <1>2, <1>3, <1>4, SourceInvariant, PTL
     DEF Spec, PipeSpec, ImplementsByteSource, Source!SourceSpec
=============================================================================
