--------------------------- MODULE TcpSendProofs ---------------------------
(***************************************************************************)
(* Theorems about the write path, for every send buffer, chunk and number  *)
(* of bytes.                                                               *)
(***************************************************************************)
EXTENDS TcpSend, SumTheorems

\* Where the send of the pending promise is, and how much of it is done.
Posted   == Len(mailbox) = 1 /\ mailbox[1] = rest /\ Len(results) = 0 /\ ~sending
Running  == Len(mailbox) = 0 /\ Len(results) = 0 /\ sending
            /\ bufLength = rest /\ sent <= rest
Returned == Len(mailbox) = 0 /\ Len(results) = 1 /\ results[1] <= rest /\ ~sending
NoSend   == Len(mailbox) = 0 /\ Len(results) = 0 /\ ~sending

\* One send per waiting promise, in one place.
SendPlace ==
  /\ phase = "awaitSend" => Posted \/ Running \/ Returned
  /\ phase # "awaitSend" => NoSend

\* The pcb is out of its handshake before JavaScript hears of it, and no
\* send is made earlier.
HandshakeFirst ==
  /\ connected => pcb # "connecting"
  /\ emitter # <<>> => pcb # "connecting"
  /\ phase \in {"awaitSend", "awaitSent"} => connected

\* Why a decision to wait is right: whoever will find the counters equal
\* still has a wake-up to come.
WakeupDue ==
  /\ phase = "awaitSend" => currentAcked <= bytesAcked
  /\ phase = "awaitSent" /\ pcb = "open" => RoomOrWake
  /\ phase = "awaitSend" /\ pcb = "open" /\ results # <<>> =>
       results[1] = rest \/ currentAcked # bytesAcked \/ RoomOrWake

WakeInv == TypeOK /\ SendPlace /\ HandshakeFirst /\ WakeupDue

-----------------------------------------------------------------------------
(* Queues *)

\* Posting adds the message behind those that are queued.
LEMMA AppendKeeps ==
  ASSUME NEW S, NEW q \in Seq(S), NEW e \in S
  PROVE  /\ Append(q, e) \in Seq(S)
         /\ Len(Append(q, e)) = Len(q) + 1
         /\ \A i \in 1..Len(q) : Append(q, e)[i] = q[i]
         /\ Append(q, e)[Len(q) + 1] = e
  OBVIOUS

\* Taking removes the first message and moves the others up.
LEMMA TailKeeps ==
  ASSUME NEW S, NEW q \in Seq(S), q # <<>>
  PROVE  /\ Len(q) \in Nat \ {0}
         /\ Head(q) = q[1] /\ Head(q) \in S
         /\ Tail(q) \in Seq(S) /\ Len(Tail(q)) = Len(q) - 1
         /\ \A i \in 2..Len(q) : Tail(q)[i - 1] = q[i]
  BY HeadTailProperties, EmptySeq

\* realWrite posts its send to a mailbox that holds no other send of it.
LEMMA PostSend ==
  ASSUME mailbox \in Seq(Nat), NEW n \in Nat, NEW acked \in Nat,
         RealWrite(n, acked)
  PROVE  /\ phase' = "awaitSend" /\ rest' = n /\ rest' \in Nat
         /\ currentAcked' = acked /\ currentAcked' \in Nat
         /\ mailbox' \in Seq(Nat)
         /\ Len(mailbox) = 0 => Len(mailbox') = 1 /\ mailbox'[1] = n
<1>1. Append(mailbox, n) \in Seq(Nat) /\ Len(Append(mailbox, n)) = Len(mailbox) + 1
      /\ Append(mailbox, n)[Len(mailbox) + 1] = n
  BY AppendKeeps
<1>. QED
  BY <1>1 DEF RealWrite

-----------------------------------------------------------------------------
(* WakeInv is inductive *)

\* Nothing is queued or pending at first.
LEMMA WakeInit == ASSUME Init PROVE WakeInv
<1>1. TypeOK
  <2>1. <<>> \in Seq(Nat) /\ <<>> \in Seq(Event)
    BY EmptySeq
  <2>2. pcb \in {"connecting", "open", "null"} /\ sndbuf \in 0..SndBuf
    BY SendAssumption DEF Init
  <2>. QED
    BY <2>1, <2>2 DEF Init, TypeOK, Phases
<1>2. SendPlace /\ HandshakeFirst /\ WakeupDue
  BY EmptySeq DEF Init, SendPlace, NoSend, HandshakeFirst, WakeupDue
<1>. QED
  BY <1>1, <1>2 DEF WakeInv

\* The shape of an event, for the provers.
LEMMA Events ==
  /\ [type |-> "connect"] \in Event
  /\ [type |-> "error"] \in Event
  /\ \A k \in Nat \ {0} : [type |-> "sent", len |-> k] \in Event
  /\ \A e \in Event : e.type = "sent" => e.len \in Nat \ {0}
  BY DEF Event

\* Every step keeps the types: in particular a result never exceeds its chunk.
LEMMA TypeStep == ASSUME WakeInv, Next PROVE TypeOK'
<1> USE SendAssumption
<1> USE DEF TypeOK, Phases, jsVars, loopVars
<1>0. TypeOK
  BY DEF WakeInv
<1>1. ASSUME NEW n \in ChunkLens, _write(n) PROVE TypeOK'
  <2>1. n \in Nat
    OBVIOUS
  <2>2. CASE connected
    BY <1>0, <1>1, <2>1, <2>2, PostSend DEF _write
  <2>3. CASE ~connected
    BY <1>0, <1>1, <2>1, <2>3 DEF _write
  <2>. QED
    BY <2>2, <2>3
<1>2. CASE Destroy
  BY <1>0, <1>2 DEF Destroy
<1>3. CASE OnConnect
  <2>1. emitter' \in Seq(Event)
    BY <1>0, <1>3, TailKeeps DEF OnConnect
  <2>. QED
    BY <1>0, <1>3, <2>1, PostSend DEF OnConnect
<1>4. CASE OnSent
  <2>1. AckedLength \in Nat /\ emitter' \in Seq(Event)
    BY <1>0, <1>4, Events, TailKeeps DEF OnSent, AckedLength
  <2>2. bytesAcked' \in Nat
    BY <1>0, <1>4, <2>1 DEF OnSent
  <2>. QED
    BY <1>0, <1>4, <2>1, <2>2, PostSend DEF OnSent
<1>5. CASE OnError
  BY <1>0, <1>5, TailKeeps DEF OnError
<1>6. CASE OnSendResolved
  <2>1. Returned
    BY <1>0, <1>6, TailKeeps
       DEF OnSendResolved, WakeInv, SendPlace, Posted, Running, NoSend
  <2>2. Head(results) \in Nat /\ Head(results) <= rest /\ Tail(results) \in Seq(Nat)
    <3>1. results # <<>> /\ results[1] <= rest /\ results \in Seq(Nat)
      BY <1>0, <1>6, <2>1 DEF Returned, OnSendResolved
    <3>. QED
      BY <3>1, TailKeeps
  <2>3. rest - Head(results) \in Nat /\ bytesWritten + Head(results) \in Nat
    BY <1>0, <2>2, SMTT(30)
  <2>4. bytesWritten' \in Nat /\ results' \in Seq(Nat)
    BY <1>6, <2>2, <2>3 DEF OnSendResolved
  <2>5. CASE RealWrite(rest - Head(results), bytesAcked)
    BY <1>0, <1>6, <2>3, <2>4, <2>5, PostSend DEF OnSendResolved
  <2>6. CASE ~RealWrite(rest - Head(results), bytesAcked)
    <3>1. /\ phase' \in {"idle", "awaitSent"} /\ rest' \in {0, rest - Head(results)}
          /\ UNCHANGED <<currentAcked, mailbox>>
      BY <1>6, <2>6 DEF OnSendResolved
    <3>. QED
      BY <1>0, <1>6, <2>3, <2>4, <3>1, SMTT(30) DEF OnSendResolved
  <2>. QED
    BY <2>5, <2>6
<1>7. CASE Connected
  BY <1>0, <1>7, Events, AppendKeeps DEF Connected
<1>8. CASE SendStart
  BY <1>0, <1>8, TailKeeps DEF SendStart
<1>9. CASE SendIterate
  <2>1. NextLen \in Nat /\ NextLen <= sndbuf
    <3>1. Running
      BY <1>9 DEF SendIterate, WakeInv, SendPlace, Posted, Returned, NoSend
    <3>. QED
      BY <1>0, <3>1 DEF NextLen, Least, Running
  <2>. QED
    BY <1>0, <1>9, <2>1 DEF SendIterate
<1>10. CASE SendFinish
  <2>1. results' \in Seq(Nat)
    BY <1>0, <1>10, AppendKeeps DEF SendFinish
  <2>. QED
    BY <1>0, <1>10, <2>1 DEF SendFinish
<1>11. CASE SendOnNullPcb
  BY <1>0, <1>11 DEF SendOnNullPcb
<1>12. CASE PeerAck
  <2>1. PICK k \in 1..(SndBuf - sndbuf) :
          /\ sndbuf' = sndbuf + k
          /\ emitter' = Append(emitter, [type |-> "sent", len |-> k])
    BY <1>12 DEF PeerAck
  <2>2. emitter' \in Seq(Event)
    BY <1>0, <2>1, Events, AppendKeeps
  <2>. QED
    BY <1>0, <1>12, <2>1, <2>2 DEF PeerAck
<1>13. CASE PeerReset
  BY <1>0, <1>13, Events, AppendKeeps DEF PeerReset
<1>14. CASE Quiescent
  BY <1>0, <1>14 DEF Quiescent, vars
<1>. QED
  BY <1>1, <1>2, <1>3, <1>4, <1>5, <1>6, <1>7, <1>8, <1>9, <1>10, <1>11,
     <1>12, <1>13, <1>14 DEF Next, JavaScript, Tcpip

\* A step moves the pending send on to its next place, or leaves it there.
LEMMA PlaceStep == ASSUME WakeInv, Next PROVE SendPlace'
<1> USE DEF jsVars, loopVars, SendPlace, NoSend, Posted, Running, Returned
<1>0. TypeOK /\ SendPlace
  BY DEF WakeInv
<1>1. ASSUME NEW n \in ChunkLens, _write(n) PROVE SendPlace'
  BY <1>0, <1>1, SendAssumption, PostSend DEF _write, TypeOK
<1>2. CASE Destroy
  BY <1>0, <1>2 DEF Destroy
<1>3. CASE OnConnect
  BY <1>0, <1>3, PostSend DEF OnConnect, TypeOK
<1>4. CASE OnSent
  <2>1. CASE WaitsForSent
    <3>1. bytesAcked' \in Nat
      BY <1>0, <1>4, TypeStep DEF TypeOK, Next, JavaScript
    <3>. QED
      BY <1>0, <1>4, <2>1, <3>1, PostSend DEF OnSent, WaitsForSent, TypeOK
  <2>2. CASE ~WaitsForSent
    BY <1>0, <1>4, <2>2 DEF OnSent
  <2>. QED
    BY <2>1, <2>2
<1>5. CASE OnError
  BY <1>0, <1>5 DEF OnError
<1>6. CASE OnSendResolved
  <2>1. /\ phase = "awaitSend" /\ Len(mailbox) = 0 /\ ~sending
        /\ Len(results') = 0 /\ Head(results) \in Nat /\ Head(results) <= rest
    BY <1>0, <1>6, TailKeeps DEF OnSendResolved, TypeOK
  <2>2. ASSUME RealWrite(rest - Head(results), bytesAcked) PROVE Posted'
    BY <1>0, <1>6, <2>1, <2>2, PostSend, SMTT(30) DEF OnSendResolved, TypeOK
  <2>. QED
    BY <1>0, <1>6, <2>1, <2>2 DEF OnSendResolved, RealWrite
<1>7. CASE Connected
  BY <1>0, <1>7 DEF Connected
<1>8. CASE SendStart
  BY <1>0, <1>8, TailKeeps DEF SendStart, TypeOK
<1>9. CASE SendIterate
  <2>1. Running /\ phase = "awaitSend"
    BY <1>0, <1>9 DEF SendIterate
  <2>2. sent + NextLen <= rest
    BY <1>0, <2>1, SendAssumption DEF NextLen, Least, TypeOK
  <2>. QED
    BY <1>0, <1>9, <2>1, <2>2 DEF SendIterate
<1>10. CASE SendFinish
  BY <1>0, <1>10, AppendKeeps DEF SendFinish, TypeOK
<1>11. CASE SendOnNullPcb
  BY <1>0, <1>11 DEF SendOnNullPcb
<1>12. CASE PeerAck
  BY <1>0, <1>12 DEF PeerAck
<1>13. CASE PeerReset
  BY <1>0, <1>13 DEF PeerReset
<1>14. CASE Quiescent
  BY <1>0, <1>14 DEF Quiescent, vars
<1>. QED
  BY <1>1, <1>2, <1>3, <1>4, <1>5, <1>6, <1>7, <1>8, <1>9, <1>10, <1>11,
     <1>12, <1>13, <1>14 DEF Next, JavaScript, Tcpip

\* Only "connect" tells JavaScript of the connection, and it follows the handshake.
LEMMA HandshakeStep == ASSUME WakeInv, Next PROVE HandshakeFirst'
<1> USE DEF jsVars, loopVars, HandshakeFirst
<1>0. TypeOK /\ HandshakeFirst
  BY DEF WakeInv
<1>1. ASSUME NEW n \in ChunkLens, _write(n) PROVE HandshakeFirst'
  BY <1>0, <1>1 DEF _write, RealWrite, TypeOK
<1>2. CASE Destroy
  BY <1>0, <1>2 DEF Destroy
<1>3. CASE OnConnect
  BY <1>0, <1>3 DEF OnConnect, RealWrite
<1>4. CASE OnSent
  BY <1>0, <1>4 DEF OnSent, RealWrite, WaitsForSent
<1>5. CASE OnError
  BY <1>0, <1>5 DEF OnError
<1>6. CASE OnSendResolved
  <2>1. phase = "awaitSend"
    BY <1>6 DEF OnSendResolved, WakeInv, SendPlace, NoSend
  <2>. QED
    BY <1>0, <1>6, <2>1 DEF OnSendResolved, RealWrite
<1>7. CASE Connected
  BY <1>0, <1>7 DEF Connected
<1>8. CASE SendStart
  BY <1>0, <1>8 DEF SendStart
<1>9. CASE SendIterate
  BY <1>0, <1>9 DEF SendIterate
<1>10. CASE SendFinish
  BY <1>0, <1>10 DEF SendFinish
<1>11. CASE SendOnNullPcb
  BY <1>0, <1>11 DEF SendOnNullPcb
<1>12. CASE PeerAck
  BY <1>0, <1>12 DEF PeerAck
<1>13. CASE PeerReset
  BY <1>0, <1>13 DEF PeerReset
<1>14. CASE Quiescent
  BY <1>0, <1>14 DEF Quiescent, vars
<1>. QED
  BY <1>1, <1>2, <1>3, <1>4, <1>5, <1>6, <1>7, <1>8, <1>9, <1>10, <1>11,
     <1>12, <1>13, <1>14 DEF Next, JavaScript, Tcpip
\* A wake-up in the queue stays there until it is delivered.
LEMMA WakeupStays ==
  ASSUME emitter \in Seq(Event), RoomOrWake, NEW e \in Event,
         sndbuf' = sndbuf,
         \/ emitter' = emitter
         \/ emitter' = Append(emitter, e)
         \/ emitter # <<>> /\ Head(emitter).type # "sent" /\ emitter' = Tail(emitter)
  PROVE  RoomOrWake'
<1>1. CASE sndbuf < SndBuf
  BY <1>1 DEF RoomOrWake
<1>2. CASE ~(sndbuf < SndBuf)
  <2>1. PICK i \in 1..Len(emitter) : emitter[i].type = "sent"
    BY <1>2 DEF RoomOrWake
  <2>2. CASE emitter' = emitter
    BY <2>1, <2>2 DEF RoomOrWake
  <2>3. CASE emitter' = Append(emitter, e)
    BY <2>1, <2>3, AppendKeeps DEF RoomOrWake
  <2>4. CASE emitter # <<>> /\ Head(emitter).type # "sent" /\ emitter' = Tail(emitter)
    <3>1. i \in 2..Len(emitter)
      BY <2>1, <2>4, TailKeeps
    <3>2. i - 1 \in DOMAIN Tail(emitter) /\ Tail(emitter)[i - 1] = emitter[i]
      BY <2>4, <3>1, TailKeeps
    <3>. QED
      BY <2>1, <2>4, <3>2 DEF RoomOrWake
  <2>. QED
    BY <2>2, <2>3, <2>4
<1>. QED
  BY <1>1, <1>2

\* A decision to wait stays right: bytes leave the buffer only together with
\* a "sent" event, and delivering one wakes the chunk or changes the counter.
LEMMA WakeupStep == ASSUME WakeInv, Next PROVE WakeupDue'
<1> USE DEF jsVars, loopVars, WakeupDue
<1>0. /\ TypeOK /\ SendPlace /\ HandshakeFirst /\ WakeupDue
      /\ TypeOK' /\ SendPlace'
  BY TypeStep, PlaceStep DEF WakeInv
<1>1. ASSUME NEW n \in ChunkLens, _write(n) PROVE WakeupDue'
  BY <1>0, <1>1 DEF _write, RealWrite, TypeOK, SendPlace, NoSend, Posted
<1>2. CASE Destroy
  BY <1>0, <1>2 DEF Destroy, RoomOrWake
<1>3. CASE OnConnect
  <2>1. RoomOrWake => RoomOrWake'
    BY <1>0, <1>3, Events, WakeupStays DEF OnConnect, TypeOK
  <2>2. CASE phase = "awaitConnect"
    <3>1. Posted' /\ phase' = "awaitSend" /\ currentAcked' = bytesAcked'
      BY <1>0, <1>3, <2>2, PostSend DEF OnConnect, TypeOK, SendPlace, NoSend, Posted
    <3>. QED
      BY <1>0, <3>1, EmptySeq DEF Posted, TypeOK
  <2>3. CASE phase # "awaitConnect"
    BY <1>0, <1>3, <2>1, <2>3 DEF OnConnect
  <2>. QED
    BY <2>2, <2>3
<1>4. CASE OnSent
  <2>1. AckedLength \in Nat \ {0}
    BY <1>0, <1>4, Events, TailKeeps DEF OnSent, AckedLength, TypeOK
  <2>2. CASE WaitsForSent
    <3>1. Posted' /\ phase' = "awaitSend" /\ currentAcked' = bytesAcked'
      BY <1>0, <1>4, <2>2, PostSend
         DEF OnSent, WaitsForSent, TypeOK, SendPlace, NoSend, Posted
    <3>. QED
      BY <1>0, <3>1, EmptySeq DEF Posted, TypeOK
  <2>3. CASE ~WaitsForSent
    <3>1. phase' # "awaitSent" /\ UNCHANGED <<phase, currentAcked>>
      BY <1>4, <2>3 DEF OnSent, WaitsForSent
    <3>2. phase = "awaitSend" =>
            currentAcked' <= bytesAcked' /\ currentAcked' # bytesAcked'
      BY <1>0, <1>4, <2>1, <3>1 DEF OnSent, TypeOK
    <3>. QED
      BY <3>1, <3>2
  <2>. QED
    BY <2>2, <2>3
<1>5. CASE OnError
  <2>1. RoomOrWake => RoomOrWake'
    BY <1>0, <1>5, Events, WakeupStays DEF OnError, TypeOK
  <2>. QED
    BY <1>0, <1>5, <2>1 DEF OnError
<1>6. CASE OnSendResolved
  <2>1. phase = "awaitSend" /\ Head(results) = results[1]
    BY <1>0, <1>6, TailKeeps DEF OnSendResolved, TypeOK, SendPlace, NoSend
  <2>2. CASE phase' = "awaitSent"
    <3>1. Head(results) # rest /\ currentAcked = bytesAcked
      BY <1>6, <2>2 DEF OnSendResolved, AllWritten, RoomAppeared, RealWrite
    <3>. QED
      BY <1>0, <1>6, <2>1, <2>2, <3>1 DEF OnSendResolved, RoomOrWake
  <2>3. CASE phase' = "awaitSend"
    <3>1. RealWrite(rest - Head(results), bytesAcked) /\ bytesAcked' = bytesAcked
      BY <1>6, <2>1, <2>3 DEF OnSendResolved
    <3>2. currentAcked' = bytesAcked' /\ phase' = "awaitSend"
      BY <3>1 DEF RealWrite
    <3>3. Len(results') = 0
      BY <1>0, <1>6, <2>1, TailKeeps
         DEF OnSendResolved, TypeOK, SendPlace, Posted, Running, Returned
    <3>. QED
      BY <1>0, <3>2, <3>3, EmptySeq DEF TypeOK
  <2>4. CASE phase' = "idle"
    BY <2>4
  <2>. QED
    BY <1>6, <2>2, <2>3, <2>4 DEF OnSendResolved, RealWrite
<1>7. CASE Connected
  BY <1>0, <1>7 DEF Connected, HandshakeFirst
<1>8. CASE SendStart
  <2>1. Running'
    BY <1>0, <1>8, TailKeeps
       DEF SendStart, TypeOK, SendPlace, NoSend, Posted, Running, Returned
  <2>2. phase = "awaitSend"
    BY <1>0, <1>8, TailKeeps DEF SendStart, TypeOK, SendPlace, NoSend
  <2>3. results' = <<>>
    BY <1>0, <2>1, EmptySeq DEF Running, TypeOK
  <2>. QED
    BY <1>0, <1>8, <2>2, <2>3 DEF SendStart
<1>9. CASE SendIterate
  <2>1. Running /\ phase = "awaitSend"
    BY <1>0, <1>9 DEF SendIterate, SendPlace, NoSend, Posted, Returned
  <2>. QED
    BY <1>0, <1>9, <2>1, EmptySeq DEF SendIterate, Running, TypeOK
<1>10. CASE SendFinish
  <2>1. Running /\ phase = "awaitSend" /\ results' = Append(results, sent)
    BY <1>0, <1>10 DEF SendFinish, SendPlace, NoSend, Posted, Returned
  <2>2. results'[1] = sent
    BY <1>0, <2>1, AppendKeeps DEF Running, TypeOK
  <2>3. sent = rest \/ sndbuf < SndBuf
    BY <1>0, <1>10, <2>1, SendAssumption
       DEF SendFinish, NextLen, Least, Running, TypeOK
  <2>. QED
    BY <1>0, <1>10, <2>1, <2>2, <2>3 DEF SendFinish, RoomOrWake
<1>11. CASE SendOnNullPcb
  BY <1>0, <1>11 DEF SendOnNullPcb, RoomOrWake
<1>12. CASE PeerAck
  <2>1. PICK k \in 1..(SndBuf - sndbuf) :
          emitter' = Append(emitter, [type |-> "sent", len |-> k])
    BY <1>12 DEF PeerAck
  <2>. DEFINE e == [type |-> "sent", len |-> k]
  <2>2. Len(emitter) + 1 \in DOMAIN emitter' /\ emitter'[Len(emitter) + 1].type = "sent"
    <3>1. e \in Event /\ e.type = "sent" /\ emitter \in Seq(Event)
      BY <1>0, <2>1, Events, SendAssumption DEF TypeOK
    <3>2. /\ emitter' \in Seq(Event) /\ Len(emitter') = Len(emitter) + 1
          /\ emitter'[Len(emitter) + 1] = e
      BY <2>1, <3>1, AppendKeeps
    <3>. QED
      BY <3>1, <3>2
  <2>3. RoomOrWake'
    BY <2>2 DEF RoomOrWake
  <2>. QED
    BY <1>0, <1>12, <2>3 DEF PeerAck
<1>13. CASE PeerReset
  BY <1>0, <1>13 DEF PeerReset, TypeOK
<1>14. CASE Quiescent
  BY <1>0, <1>14 DEF Quiescent, vars, RoomOrWake
<1>. QED
  BY <1>1, <1>2, <1>3, <1>4, <1>5, <1>6, <1>7, <1>8, <1>9, <1>10, <1>11,
     <1>12, <1>13, <1>14 DEF Next, JavaScript, Tcpip

-----------------------------------------------------------------------------
(* Theorems *)

\* The inductive invariant, from which the theorems below follow.
THEOREM WakeInvariant == Spec => []WakeInv
<1>1. WakeInv /\ [Next]_vars => WakeInv'
  <2>1. ASSUME WakeInv, Next PROVE WakeInv'
    BY <2>1, TypeStep, PlaceStep, HandshakeStep, WakeupStep DEF WakeInv
  <2>2. ASSUME WakeInv, UNCHANGED vars PROVE WakeInv'
    BY <2>2 DEF vars, jsVars, loopVars, WakeInv, TypeOK, SendPlace, Posted, Running,
       Returned, NoSend, HandshakeFirst, WakeupDue, RoomOrWake
  <2>. QED
    BY <2>1, <2>2
<1>. QED
  BY <1>1, WakeInit, PTL DEF Spec

\* Type correctness.
THEOREM TypeCorrect == Spec => []TypeOK
  BY WakeInvariant, PTL DEF WakeInv

\* A chunk that waits for room on an open connection has a wake-up to come,
\* however the result of its send and the "sent" events overtake each other.
THEOREM NoWakeupLost == Spec => []NoLostWakeup
<1>1. WakeInv => NoLostWakeup
  BY DEF WakeInv, WakeupDue, NoLostWakeup
<1>. QED
  BY <1>1, WakeInvariant, PTL

\* A socket never has two sends in flight.
THEOREM SendsOneAtATime == Spec => []OneSendInFlight
<1>1. ASSUME WakeInv PROVE OneSendInFlight
  <2>1. TypeOK /\ SendPlace
    BY <1>1 DEF WakeInv
  <2>2. CASE phase = "awaitSend"
    BY <2>1, <2>2 DEF SendPlace, Posted, Running, Returned, OneSendInFlight
  <2>3. CASE phase # "awaitSend"
    BY <2>1, <2>3 DEF SendPlace, NoSend, OneSendInFlight
  <2>. QED
    BY <2>2, <2>3
<1>. QED
  BY <1>1, WakeInvariant, PTL
-----------------------------------------------------------------------------
(* The ledger of bytes, when tcp_write does not refuse any *)

\* Bytes that the result on its way to realWrite reports.
Reported == IF Len(results) = 0 THEN 0 ELSE results[1]

Ledger ==
  /\ issued = bytesWritten + rest
  /\ phase = "idle" => rest = 0
  /\ ~sending => sent = 0
  /\ taken = bytesWritten + sent + Reported
  /\ SndBuf - sndbuf <= taken

LedgerInv == WakeInv /\ Ledger

\* No byte has been issued at first.
LEMMA LedgerInit == ASSUME Init PROVE LedgerInv
<1>1. Len(results) = 0
  BY EmptySeq DEF Init
<1>2. /\ issued = 0 /\ bytesWritten = 0 /\ rest = 0 /\ sent = 0 /\ taken = 0
      /\ sndbuf = SndBuf
  BY DEF Init
<1>3. Reported = 0
  BY <1>1 DEF Reported
<1>4. Ledger
  BY <1>2, <1>3, SendAssumption DEF Ledger
<1>. QED
  BY <1>4, WakeInit DEF LedgerInv

\* The numbers of the ledger, and what room the send buffer has.
LEMMA Numbers ==
  ASSUME TypeOK
  PROVE  /\ issued \in Nat /\ taken \in Nat /\ bytesWritten \in Nat /\ rest \in Nat
         /\ sent \in Nat /\ sndbuf \in Nat /\ sndbuf <= SndBuf /\ SndBuf \in Nat
         /\ Reported \in Nat
<1>1. Reported \in Nat
  BY ElementOfSeq, LenProperties DEF Reported, TypeOK
<1>. QED
  BY <1>1, SendAssumption DEF TypeOK

\* What LedgerInv says of the send that is about to be resolved.
LEMMA Resolving ==
  ASSUME LedgerInv, OnSendResolved
  PROVE  /\ phase = "awaitSend" /\ sent = 0 /\ Len(results) = 1 /\ Len(results') = 0
         /\ Head(results) = results[1] /\ Head(results) \in Nat /\ Head(results) <= rest
         /\ Reported = Head(results) /\ Reported' = 0
         /\ bytesWritten' = bytesWritten + Head(results)
         /\ rest' = rest - Head(results)
         /\ phase' = "idle" <=> Head(results) = rest
<1>1. /\ TypeOK /\ SendPlace /\ Ledger /\ results # <<>>
      /\ results' = Tail(results)
  BY DEF LedgerInv, WakeInv, OnSendResolved
<1>2. Returned /\ phase = "awaitSend"
  BY <1>1, TailKeeps DEF SendPlace, TypeOK, Posted, Running, NoSend
<1>3. /\ Head(results) = results[1] /\ Head(results) \in Nat
      /\ Len(results) = 1 /\ Len(results') = 0
  BY <1>1, <1>2, TailKeeps DEF TypeOK, Returned
<1>. QED
  BY <1>1, <1>2, <1>3
     DEF OnSendResolved, AllWritten, RealWrite, Ledger, Returned, Reported, TypeOK

\* What LedgerInv says of the send whose loop runs.
LEMMA Looping ==
  ASSUME LedgerInv, sending
  PROVE  /\ phase = "awaitSend" /\ Len(results) = 0 /\ bufLength = rest
         /\ NextLen \in Nat /\ NextLen <= sndbuf /\ sent + NextLen <= rest
<1>1. Running /\ phase = "awaitSend" /\ TypeOK
  BY DEF LedgerInv, WakeInv, SendPlace, Posted, Returned, NoSend
<1>. QED
  BY <1>1, SendAssumption DEF Running, TypeOK, NextLen, Least

\* No step loses, repeats or invents a byte.
LEMMA LedgerStep ==
  ASSUME LedgerInv, Next, ~TcpWriteFails
  PROVE  Ledger'
<1> USE DEF jsVars, loopVars, Ledger
<1>0. TypeOK /\ SendPlace /\ Ledger /\ TypeOK'
  BY TypeStep DEF LedgerInv, WakeInv
<1>1. ASSUME NEW n \in ChunkLens, _write(n) PROVE Ledger'
  <2>1. rest = 0 /\ n \in Nat /\ rest' = n /\ issued' = issued + n /\ phase' # "idle"
    BY <1>0, <1>1, SendAssumption DEF _write, RealWrite
  <2>2. UNCHANGED <<bytesWritten, sent, sending, taken, sndbuf, Reported>>
    BY <1>1 DEF _write, Reported
  <2>. QED
    BY <1>0, <2>1, <2>2, Numbers
<1>2. CASE Destroy
  BY <1>0, <1>2 DEF Destroy, Reported
<1>3. CASE OnConnect
  BY <1>0, <1>3 DEF OnConnect, RealWrite, Reported
<1>4. CASE OnSent
  BY <1>0, <1>4 DEF OnSent, RealWrite, WaitsForSent, Reported
<1>5. CASE OnError
  BY <1>0, <1>5 DEF OnError, Reported
<1>6. CASE OnSendResolved
  <2>1. UNCHANGED <<issued, taken, sent, sending, sndbuf>>
    BY <1>6 DEF OnSendResolved
  <2>. QED
    BY <1>0, <1>6, <2>1, Resolving, Numbers
<1>7. CASE Connected
  BY <1>0, <1>7 DEF Connected, Reported
<1>8. CASE SendStart
  BY <1>0, <1>8 DEF SendStart, Reported
<1>9. CASE SendIterate
  <2>1. UNCHANGED <<issued, bytesWritten, rest, phase, sending, Reported>>
    BY <1>9 DEF SendIterate, Reported
  <2>2. /\ sending /\ NextLen \in Nat /\ sent' = sent + NextLen
        /\ sndbuf' = sndbuf - NextLen /\ taken' = taken + NextLen
    BY <1>9, Looping DEF SendIterate
  <2>. QED
    BY <1>0, <2>1, <2>2, Numbers
<1>10. CASE SendFinish
  <2>1. Len(results) = 0 /\ Len(results') = 1 /\ results'[1] = sent
    BY <1>0, <1>10, Looping, AppendKeeps DEF SendFinish, TypeOK
  <2>2. Reported = 0 /\ Reported' = sent
    BY <2>1 DEF Reported
  <2>. QED
    BY <1>0, <1>10, <2>2, Numbers DEF SendFinish
<1>11. CASE SendOnNullPcb
  BY <1>0, <1>11 DEF SendOnNullPcb, Reported
<1>12. CASE PeerAck
  <2>1. PICK k \in 1..(SndBuf - sndbuf) : sndbuf' = sndbuf + k
    BY <1>12 DEF PeerAck
  <2>2. UNCHANGED <<issued, taken, bytesWritten, rest, phase, sent, sending, Reported>>
    BY <1>12 DEF PeerAck, Reported
  <2>. QED
    BY <1>0, <2>1, <2>2, Numbers
<1>13. CASE PeerReset
  BY <1>0, <1>13 DEF PeerReset, Reported
<1>14. CASE Quiescent
  BY <1>0, <1>14 DEF Quiescent, vars, Reported
<1>. QED
  BY <1>1, <1>2, <1>3, <1>4, <1>5, <1>6, <1>7, <1>8, <1>9, <1>10, <1>11,
     <1>12, <1>13, <1>14 DEF Next, JavaScript, Tcpip

\* Every step is a step of the byte sink or none.
LEMMA SinkStep ==
  ASSUME LedgerInv, Next, ~TcpWriteFails
  PROVE  [Sink!SinkNext]_(Sink!sinkVars)
<1> USE DEF jsVars, loopVars, Sink!sinkVars, Sink!SinkNext
<1>0. TypeOK /\ Ledger /\ TypeOK' /\ Ledger'
  BY TypeStep, LedgerStep DEF LedgerInv, WakeInv
<1>1. ASSUME NEW n \in ChunkLens, _write(n) PROVE Sink!Write
  BY <1>0, <1>1, SendAssumption DEF _write, RealWrite, TypeOK, Sink!Write
<1>2. CASE Destroy
  BY <1>2 DEF Destroy
<1>3. CASE OnConnect
  BY <1>3 DEF OnConnect, RealWrite
<1>4. CASE OnSent
  BY <1>4 DEF OnSent, RealWrite, WaitsForSent
<1>5. CASE OnError
  BY <1>5 DEF OnError
<1>6. CASE OnSendResolved
  <2>1. UNCHANGED <<issued, taken, sndbuf>> /\ phase = "awaitSend"
    BY <1>6, Resolving DEF OnSendResolved
  <2>2. CASE phase' = "idle"
    <3>1. taken = issued
      BY <1>0, <1>6, <2>2, Resolving, Numbers DEF Ledger
    <3>. QED
      BY <2>1, <2>2, <3>1 DEF Sink!Confirm
  <2>3. CASE phase' # "idle"
    BY <2>1, <2>3
  <2>. QED
    BY <2>2, <2>3
<1>7. CASE Connected
  BY <1>7 DEF Connected
<1>8. CASE SendStart
  BY <1>8 DEF SendStart
<1>9. CASE SendIterate
  <2>1. /\ UNCHANGED <<issued, phase>> /\ phase = "awaitSend"
        /\ NextLen \in Nat \ {0} /\ sent + NextLen <= rest
        /\ sndbuf' = sndbuf - NextLen /\ taken' = taken + NextLen
    BY <1>9, Looping DEF SendIterate
  <2>2. Reported = 0 /\ NextLen <= sndbuf
    BY <1>9, Looping DEF SendIterate, Reported
  <2>. QED
    BY <1>0, <2>1, <2>2, Numbers DEF Ledger, Sink!Take
<1>10. CASE SendFinish
  BY <1>10 DEF SendFinish
<1>11. CASE SendOnNullPcb
  BY <1>11 DEF SendOnNullPcb
<1>12. CASE PeerAck
  <2>1. PICK k \in 1..(SndBuf - sndbuf) : sndbuf' = sndbuf + k
    BY <1>12 DEF PeerAck
  <2>. QED
    <3>1. UNCHANGED <<issued, taken, phase>>
      BY <1>12 DEF PeerAck
    <3>. QED
      BY <1>0, <2>1, <3>1, Numbers DEF Ledger, Sink!Acknowledge
<1>13. CASE PeerReset
  BY <1>13 DEF PeerReset
<1>14. CASE Quiescent
  BY <1>14 DEF Quiescent, vars
<1>. QED
  BY <1>1, <1>2, <1>3, <1>4, <1>5, <1>6, <1>7, <1>8, <1>9, <1>10, <1>11,
     <1>12, <1>13, <1>14 DEF Next, JavaScript, Tcpip

\* The inductive invariant of the two theorems below.
THEOREM LedgerInvariant == ASSUME ~TcpWriteFails PROVE Spec => []LedgerInv
<1>1. LedgerInv /\ [Next]_vars => LedgerInv'
  <2>1. ASSUME LedgerInv, Next PROVE LedgerInv'
    BY <2>1, LedgerStep, TypeStep, PlaceStep, HandshakeStep, WakeupStep
       DEF LedgerInv, WakeInv
  <2>2. ASSUME LedgerInv, UNCHANGED vars PROVE LedgerInv'
    BY <2>2 DEF vars, jsVars, loopVars, LedgerInv, WakeInv, Ledger, TypeOK, SendPlace,
       Posted, Running, Returned, NoSend, HandshakeFirst, WakeupDue, RoomOrWake,
       Reported
  <2>. QED
    BY <2>1, <2>2
<1>. QED
  BY <1>1, LedgerInit, PTL DEF Spec

\* If tcp_write refuses nothing, a chunk's callback means that lwIP has every
\* byte of it.
THEOREM CallbackAfterTaken == ASSUME ~TcpWriteFails PROVE Spec => []CallbackMeansTaken
<1>1. ASSUME LedgerInv PROVE CallbackMeansTaken
  BY <1>1, Numbers
     DEF LedgerInv, WakeInv, Ledger, Reported, SendPlace, NoSend, CallbackMeansTaken
<1>. QED
  BY <1>1, LedgerInvariant, PTL

\* If tcp_write refuses nothing, the write path implements the byte sink.
THEOREM SinkImplemented == ASSUME ~TcpWriteFails PROVE Spec => ImplementsByteSink
<1>1. Init => Sink!SinkInit
  BY SendAssumption DEF Init, Sink!SinkInit
<1>2. ASSUME LedgerInv, [Next]_vars PROVE [Sink!SinkNext]_(Sink!sinkVars)
  <2>1. CASE Next
    BY <1>2, <2>1, SinkStep
  <2>2. CASE UNCHANGED vars
    BY <2>2 DEF vars, jsVars, loopVars, Sink!sinkVars
  <2>. QED
    BY <1>2, <2>1, <2>2
<1>. QED
  BY <1>1, <1>2, LedgerInvariant, PTL DEF Spec, ImplementsByteSink, Sink!SinkSpec

-----------------------------------------------------------------------------
(* AcksConserved *)

\* The bytes that each event reports, and their sum.
Reports(q) == [i \in DOMAIN q |-> IF q[i].type = "sent" THEN q[i].len ELSE 0]
Report(e) == IF e.type = "sent" THEN e.len ELSE 0
InTransit(q) == SumFunction(Reports(q))

\* What is in transit, as events come and go.
LEMMA TransitMoves ==
  ASSUME NEW q \in Seq(Event)
  PROVE  /\ InTransit(q) \in Nat
         /\ \A e \in Event : InTransit(Append(q, e)) = InTransit(q) + Report(e)
         /\ q # <<>> => /\ Head(q) \in Event /\ Report(Head(q)) \in Nat
                        /\ InTransit(q) = Report(Head(q)) + InTransit(Tail(q))
                        /\ InTransit(Tail(q)) \in Nat
<1>1. ASSUME NEW e \in Event PROVE Report(e) \in Nat
  BY Events DEF Report
<1>2. ASSUME NEW p \in Seq(Event)
      PROVE  /\ Reports(p) \in Seq(Nat) /\ Len(Reports(p)) = Len(p)
             /\ \A i \in 1..Len(p) : Reports(p)[i] = Report(p[i])
  <2>1. /\ Len(p) \in Nat /\ DOMAIN p = 1..Len(p)
        /\ \A i \in 1..Len(p) : p[i] \in Event
    OBVIOUS
  <2>2. Reports(p) = [i \in 1..Len(p) |-> Report(p[i])]
    BY <2>1 DEF Reports, Report
  <2>3. \A i \in 1..Len(p) : Report(p[i]) \in Nat
    BY <1>1, <2>1
  <2>. QED
    BY <2>1, <2>2, <2>3
<1>3. InTransit(q) \in Nat
  BY <1>2, SumOfSeq DEF InTransit
<1>4. ASSUME NEW e \in Event
      PROVE  InTransit(Append(q, e)) = InTransit(q) + Report(e)
  <2>. DEFINE a == Append(q, e)
  <2>1. /\ a \in Seq(Event) /\ Len(a) = Len(q) + 1 /\ Len(q) \in Nat
        /\ \A i \in 1..Len(q) : a[i] = q[i]
        /\ a[Len(q) + 1] = e
    BY AppendKeeps
  <2>. HIDE DEF a
  <2>2. Reports(a) = Append(Reports(q), Report(e))
    <3>1. /\ Reports(a) \in Seq(Nat) /\ Len(Reports(a)) = Len(q) + 1
          /\ \A i \in 1..(Len(q) + 1) : Reports(a)[i] = Report(a[i])
      BY <1>2, <2>1
    <3>2. /\ Reports(q) \in Seq(Nat) /\ Len(Reports(q)) = Len(q)
          /\ \A i \in 1..Len(q) : Reports(q)[i] = Report(q[i])
      BY <1>2
    <3>3. /\ Append(Reports(q), Report(e)) \in Seq(Nat)
          /\ Len(Append(Reports(q), Report(e))) = Len(q) + 1
          /\ \A i \in 1..Len(q) : Append(Reports(q), Report(e))[i] = Reports(q)[i]
          /\ Append(Reports(q), Report(e))[Len(q) + 1] = Report(e)
      BY <1>1, <3>2, AppendKeeps
    <3>4. \A i \in 1..(Len(q) + 1) :
            Reports(a)[i] = Append(Reports(q), Report(e))[i]
      BY <2>1, <3>1, <3>2, <3>3
    <3>. QED
      BY <3>1, <3>3, <3>4, SeqEqual
  <2>3. Reports(q) \in Seq(Nat) /\ Report(e) \in Nat
    BY <1>1, <1>2
  <2>. QED
    BY <2>2, <2>3, SumOfAppend DEF InTransit, a
<1>5. ASSUME q # <<>>
      PROVE  /\ Head(q) \in Event /\ Report(Head(q)) \in Nat
             /\ InTransit(q) = Report(Head(q)) + InTransit(Tail(q))
             /\ InTransit(Tail(q)) \in Nat
  <2>. DEFINE r == Tail(q)
  <2>1. /\ Len(q) \in Nat \ {0} /\ Head(q) = q[1] /\ Head(q) \in Event
        /\ r \in Seq(Event) /\ Len(r) = Len(q) - 1
        /\ \A i \in 1..Len(r) : r[i] = q[i + 1]
    BY <1>5, HeadTailProperties, EmptySeq
  <2>. HIDE DEF r
  <2>2. /\ Reports(q) \in Seq(Nat) /\ Reports(q) # <<>>
        /\ Head(Reports(q)) = Report(Head(q))
    BY <1>2, <2>1, EmptySeq
  <2>3. Tail(Reports(q)) = Reports(r)
    <3>1. /\ Reports(r) \in Seq(Nat) /\ Len(Reports(r)) = Len(r)
          /\ \A i \in 1..Len(r) : Reports(r)[i] = Report(r[i])
      BY <1>2, <2>1
    <3>2. /\ Len(Reports(q)) = Len(q)
          /\ \A i \in 1..Len(q) : Reports(q)[i] = Report(q[i])
      BY <1>2
    <3>3. /\ Tail(Reports(q)) \in Seq(Nat) /\ Len(Tail(Reports(q))) = Len(r)
          /\ \A i \in 1..Len(r) : Tail(Reports(q))[i] = Reports(q)[i + 1]
      BY <2>1, <2>2, <3>2, HeadTailProperties
    <3>4. ASSUME NEW i \in 1..Len(r) PROVE Tail(Reports(q))[i] = Reports(r)[i]
      <4>1. i \in Nat /\ i + 1 \in 1..Len(q)
        BY <2>1
      <4>2. Reports(q)[i + 1] = Report(q[i + 1])
        BY <3>2, <4>1
      <4>3. q[i + 1] = r[i] /\ Reports(r)[i] = Report(r[i])
        BY <2>1, <3>1
      <4>. QED
        BY <3>3, <4>2, <4>3
    <3>. QED
      BY <3>1, <3>3, <3>4, SeqEqual
  <2>4. InTransit(q) = Report(Head(q)) + InTransit(r) /\ InTransit(r) \in Nat
    BY <2>2, <2>3, SumOfTail DEF InTransit
  <2>. QED
    BY <1>1, <2>1, <2>4 DEF r
<1>. QED
  BY <1>3, <1>4, <1>5

\* The sum, before and after a step.
LEMMA TransitIs ==
  AckedInTransit = InTransit(emitter) /\ AckedInTransit' = InTransit(emitter')
BY DEF AckedInTransit, InTransit, Reports

\* A step that takes nothing, frees nothing and reports nothing.
LEMMA AcksUntouched ==
  ASSUME AcksConserved, InTransit(emitter') = InTransit(emitter),
         UNCHANGED <<taken, bytesAcked, sndbuf>>
  PROVE  AcksConserved'
BY TransitIs DEF AcksConserved

\* Every step keeps AcksConserved.
LEMMA AcksStep == ASSUME WakeInv, AcksConserved, Next PROVE AcksConserved'
<1>. USE DEF jsVars, loopVars
<1>0. TypeOK /\ emitter \in Seq(Event)
  BY DEF WakeInv, TypeOK
<1>1. /\ taken \in Nat /\ bytesAcked \in Nat /\ sndbuf \in Int /\ SndBuf \in Int
      /\ InTransit(emitter) \in Nat
      /\ taken = bytesAcked + InTransit(emitter) + (SndBuf - sndbuf)
  BY <1>0, TransitMoves, TransitIs, SendAssumption
     DEF TypeOK, AcksConserved, SendAssumption
<1>2. ASSUME emitter' = emitter, UNCHANGED <<taken, bytesAcked, sndbuf>>
      PROVE  AcksConserved'
  BY <1>2, AcksUntouched
<1>3. ASSUME NEW e \in Event, e.type # "sent", emitter' = Append(emitter, e),
             UNCHANGED <<taken, bytesAcked, sndbuf>>
      PROVE  AcksConserved'
  <2>1. InTransit(emitter') = InTransit(emitter)
    BY <1>0, <1>1, <1>3, TransitMoves DEF Report
  <2>. QED
    BY <1>3, <2>1, AcksUntouched
<1>4. ASSUME emitter # <<>>, Head(emitter).type # "sent", emitter' = Tail(emitter),
             UNCHANGED <<taken, bytesAcked, sndbuf>>
      PROVE  AcksConserved'
  <2>1. InTransit(emitter') = InTransit(emitter)
    BY <1>0, <1>1, <1>4, TransitMoves DEF Report
  <2>. QED
    BY <1>4, <2>1, AcksUntouched
<1>5. ASSUME NEW n \in ChunkLens, _write(n) PROVE AcksConserved'
  BY <1>2, <1>5 DEF _write
<1>6. CASE Destroy
  BY <1>2, <1>6 DEF Destroy
<1>7. CASE OnConnect
  BY <1>4, <1>7 DEF OnConnect
<1>8. CASE OnSent
  <2>1. /\ emitter # <<>> /\ Report(Head(emitter)) = AckedLength
        /\ emitter' = Tail(emitter) /\ bytesAcked' = bytesAcked + AckedLength
        /\ UNCHANGED <<taken, sndbuf>>
    BY <1>8 DEF OnSent, Report, AckedLength
  <2>2. /\ AckedLength \in Nat /\ InTransit(emitter') \in Nat
        /\ InTransit(emitter) = AckedLength + InTransit(emitter')
    BY <1>0, <2>1, TransitMoves
  <2>3. taken' = bytesAcked' + InTransit(emitter') + (SndBuf - sndbuf')
    BY <1>1, <2>1, <2>2
  <2>. QED
    BY <2>3, TransitIs DEF AcksConserved
<1>9. CASE OnError
  BY <1>4, <1>9 DEF OnError
<1>10. CASE OnSendResolved
  BY <1>2, <1>10 DEF OnSendResolved
<1>11. CASE Connected
  BY <1>3, <1>11, Events DEF Connected
<1>12. CASE SendStart \/ SendFinish \/ SendOnNullPcb
  BY <1>2, <1>12 DEF SendStart, SendFinish, SendOnNullPcb
<1>13. CASE SendIterate
  <2>1. PICK len \in {0, NextLen} : sndbuf' = sndbuf - len /\ taken' = taken + len
    BY <1>13 DEF SendIterate
  <2>2. NextLen \in Nat
    <3>1. TypeOK /\ Running
      BY <1>13 DEF WakeInv, SendPlace, Posted, Returned, NoSend, SendIterate
    <3>. QED
      BY <3>1, SendAssumption DEF Running, TypeOK, NextLen, Least, SendAssumption
  <2>3. UNCHANGED <<bytesAcked, emitter>> /\ len \in Nat
    BY <1>13, <2>1, <2>2 DEF SendIterate
  <2>4. taken' = bytesAcked' + InTransit(emitter') + (SndBuf - sndbuf')
    BY <1>1, <2>1, <2>3
  <2>. QED
    BY <2>4, TransitIs DEF AcksConserved
<1>14. CASE PeerAck
  <2>1. PICK k \in 1..(SndBuf - sndbuf) :
          /\ sndbuf' = sndbuf + k
          /\ emitter' = Append(emitter, [type |-> "sent", len |-> k])
    BY <1>14 DEF PeerAck
  <2>2. k \in Nat \ {0} /\ UNCHANGED <<taken, bytesAcked>>
    BY <1>1, <1>14, <2>1 DEF PeerAck
  <2>3. InTransit(emitter') = InTransit(emitter) + k
    <3>. DEFINE e == [type |-> "sent", len |-> k]
    <3>1. e \in Event /\ Report(e) = k
      BY <2>2, Events DEF Report
    <3>. HIDE DEF e
    <3>2. InTransit(Append(emitter, e)) = InTransit(emitter) + Report(e)
      BY <1>0, <3>1, TransitMoves
    <3>. QED
      BY <2>1, <3>1, <3>2 DEF e
  <2>4. taken' = bytesAcked' + InTransit(emitter') + (SndBuf - sndbuf')
    BY <1>1, <2>1, <2>2, <2>3
  <2>. QED
    BY <2>4, TransitIs DEF AcksConserved
<1>15. CASE PeerReset
  BY <1>3, <1>15, Events DEF PeerReset
<1>16. CASE Quiescent
  BY <1>2, <1>16 DEF Quiescent, vars
<1>. QED
  BY <1>5, <1>6, <1>7, <1>8, <1>9, <1>10, <1>11, <1>12, <1>13, <1>14, <1>15, <1>16
     DEF Next, JavaScript, Tcpip

\* No acknowledgement is lost or counted twice between lwIP and bytesAcked
\* (net.ts:245), whether or not tcp_write refuses and the peer resets.
THEOREM AcksAreConserved == Spec => []AcksConserved
<1>1. Init => AcksConserved
  <2>. SUFFICES ASSUME Init PROVE AcksConserved
    OBVIOUS
  <2>1. Reports(<<>>) = <<>>
    BY DEF Reports
  <2>2. InTransit(emitter) = 0
    BY <2>1, SumOfEmpty DEF Init, InTransit
  <2>. QED
    BY <2>2, TransitIs, SendAssumption DEF Init, AcksConserved, SendAssumption
<1>2. WakeInv /\ AcksConserved /\ [Next]_vars => AcksConserved'
  <2>1. ASSUME AcksConserved, UNCHANGED vars PROVE AcksConserved'
    BY <2>1, AcksUntouched DEF vars, jsVars
  <2>. QED
    BY <2>1, AcksStep
<1>. QED
  BY <1>1, <1>2, WakeInvariant, PTL DEF Spec
=============================================================================
