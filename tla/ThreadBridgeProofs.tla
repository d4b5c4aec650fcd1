------------------------- MODULE ThreadBridgeProofs -------------------------
(***************************************************************************)
(* Theorems about the two threads, for every set of calls, number of       *)
(* buffers and size of the mailbox.                                        *)
(***************************************************************************)
EXTENDS ThreadBridge, SumTheorems

\* What the thread posts and the mailbox holds, and which of it are buffers to
\* be freed.
Posts == Calls \cup {Free}
One(x, y) == IF x = y THEN 1 ELSE 0
Ones(box) == [i \in DOMAIN box |-> One(box[i], Free)]
Frees(box) == SumFunction(Ones(box))

\* Every buffer that arrived is in one place, or was freed.
Accounted ==
  arrived = One(handing, Buffer) + received + One(posting, Free) + Frees(mailbox)
            + freed

\* The types, but for the range of what is counted.
Typed ==
  /\ mailbox \in Seq(Posts) /\ Len(mailbox) <= MailboxSize
  /\ posting \in Posts \cup {Nothing}
  /\ handing \in Calls \cup {Buffer, Nothing}
  /\ received \in Nat /\ freed \in Nat
  /\ results \subseteq Calls
  /\ promise \in [Calls -> {"none", "pending", "settled"}]
  /\ arrived \in 0..MaxBuffers

\* The inductive invariant.
BridgeInv == Typed /\ Accounted

-----------------------------------------------------------------------------
(* The mailbox *)

\* Each function counts for one or nothing.
LEMMA OnesAre ==
  ASSUME NEW box \in Seq(Posts)
  PROVE  /\ Ones(box) \in Seq(Nat) /\ Len(Ones(box)) = Len(box)
         /\ \A i \in 1..Len(box) : Ones(box)[i] = One(box[i], Free)
<1>1. Len(box) \in Nat /\ DOMAIN box = 1..Len(box)
  BY LenProperties
<1>2. Ones(box) = [i \in 1..Len(box) |-> One(box[i], Free)]
  BY <1>1 DEF Ones
<1>3. \A i \in 1..Len(box) : One(box[i], Free) \in Nat
  BY DEF One
<1>. QED
  BY <1>1, <1>2, <1>3

\* How many frees there are, as functions come and go.
LEMMA FreesMove ==
  ASSUME NEW box \in Seq(Posts)
  PROVE  /\ Frees(box) \in Nat
         /\ \A f \in Posts : Frees(Append(box, f)) = Frees(box) + One(f, Free)
         /\ box # <<>> => /\ Head(box) \in Posts
                          /\ Frees(box) = One(Head(box), Free) + Frees(Tail(box))
                          /\ Frees(Tail(box)) \in Nat
<1>0. \A f : One(f, Free) \in Nat
  BY DEF One
<1>1. Frees(box) \in Nat
  BY OnesAre, SumOfSeq DEF Frees
<1>2. ASSUME NEW f \in Posts
      PROVE  Frees(Append(box, f)) = Frees(box) + One(f, Free)
  <2>. DEFINE a == Append(box, f)
              o == Append(Ones(box), One(f, Free))
  <2>1. /\ a \in Seq(Posts) /\ Len(box) \in Nat /\ Len(a) = Len(box) + 1
        /\ \A i \in 1..Len(box) : a[i] = box[i]
        /\ a[Len(box) + 1] = f
    BY AppendProperties, LenProperties
  <2>2. /\ o \in Seq(Nat) /\ Len(o) = Len(box) + 1
        /\ \A i \in 1..Len(box) : o[i] = Ones(box)[i]
        /\ o[Len(box) + 1] = One(f, Free)
    BY <1>0, OnesAre, AppendProperties
  <2>. HIDE DEF a, o
  <2>3. /\ Ones(a) \in Seq(Nat) /\ Len(Ones(a)) = Len(a)
        /\ \A i \in 1..Len(a) : Ones(a)[i] = One(a[i], Free)
    BY <2>1, OnesAre
  <2>4. ASSUME NEW i \in 1..Len(a) PROVE Ones(a)[i] = o[i]
    <3>1. i \in 1..Len(box) \/ i = Len(box) + 1
      BY <2>1
    <3>2. CASE i \in 1..Len(box)
      <4>1. Ones(box)[i] = One(box[i], Free)
        BY <3>2, OnesAre
      <4>. QED
        BY <2>1, <2>2, <2>3, <3>2, <4>1
    <3>3. CASE i = Len(box) + 1
      BY <2>1, <2>2, <2>3, <3>3
    <3>. QED
      BY <3>1, <3>2, <3>3
  <2>5. Ones(a) = o
    BY <2>1, <2>2, <2>3, <2>4, SeqEqual
  <2>6. Ones(box) \in Seq(Nat) /\ One(f, Free) \in Nat
    BY <1>0, OnesAre
  <2>. QED
    BY <2>5, <2>6, SumOfAppend DEF Frees, a, o
<1>3. ASSUME box # <<>>
      PROVE  /\ Head(box) \in Posts
             /\ Frees(box) = One(Head(box), Free) + Frees(Tail(box))
             /\ Frees(Tail(box)) \in Nat
  <2>. DEFINE r == Tail(box)
  <2>1. /\ Len(box) \in Nat \ {0} /\ Head(box) = box[1] /\ Head(box) \in Posts
        /\ r \in Seq(Posts) /\ Len(r) = Len(box) - 1
        /\ \A i \in 1..Len(r) : r[i] = box[i + 1]
    BY <1>3, HeadTailProperties, EmptySeq
  <2>. HIDE DEF r
  <2>2. /\ Ones(box) \in Seq(Nat) /\ Len(Ones(box)) = Len(box)
        /\ \A i \in 1..Len(box) : Ones(box)[i] = One(box[i], Free)
    BY OnesAre
  <2>3. Ones(box) # <<>> /\ Head(Ones(box)) = One(Head(box), Free)
    BY <2>1, <2>2, EmptySeq
  <2>4. /\ Tail(Ones(box)) \in Seq(Nat) /\ Len(Tail(Ones(box))) = Len(r)
        /\ \A i \in 1..Len(r) : Tail(Ones(box))[i] = Ones(box)[i + 1]
    BY <2>1, <2>2, <2>3, HeadTailProperties
  <2>5. /\ Ones(r) \in Seq(Nat) /\ Len(Ones(r)) = Len(r)
        /\ \A i \in 1..Len(r) : Ones(r)[i] = One(r[i], Free)
    BY <2>1, OnesAre
  <2>6. ASSUME NEW i \in 1..Len(r) PROVE Tail(Ones(box))[i] = Ones(r)[i]
    <3>1. i + 1 \in 1..Len(box)
      BY <2>1
    <3>2. Ones(box)[i + 1] = One(box[i + 1], Free)
      BY <2>2, <3>1
    <3>. QED
      BY <2>1, <2>4, <2>5, <3>2
  <2>7. Tail(Ones(box)) = Ones(r)
    BY <2>4, <2>5, <2>6, SeqEqual
  <2>8. Frees(box) = One(Head(box), Free) + Frees(r) /\ Frees(r) \in Nat
    BY <2>2, <2>3, <2>7, SumOfTail DEF Frees
  <2>. QED
    BY <2>1, <2>8 DEF r
<1>. QED
  BY <1>1, <1>2, <1>3

-----------------------------------------------------------------------------
(* The invariant *)

LEMMA BridgeStep == ASSUME BridgeInv, Next PROVE BridgeInv'
<1>0. /\ Typed /\ Accounted /\ mailbox \in Seq(Posts) /\ Frees(mailbox) \in Nat
      /\ MaxBuffers \in Nat /\ MailboxSize \in Nat \ {0}
      /\ Free \notin Calls /\ Buffer \notin Calls /\ Nothing \notin Calls
      /\ Free # Nothing /\ Buffer # Nothing /\ Free # Buffer
  BY BridgeAssumption, FreesMove
     DEF BridgeInv, Typed, BridgeAssumption, Nothing, Free, Buffer
<1>1. ASSUME NEW c \in Calls, Call(c) PROVE BridgeInv'
  <2>1. One(posting, Free) = 0 /\ One(posting', Free) = 0
    BY <1>0, <1>1 DEF Call, JsRuns, One
  <2>2. Accounted'
    BY <1>0, <1>1, <2>1 DEF Call, Accounted
  <2>3. Typed'
    BY <1>0, <1>1 DEF Call, Typed, Posts
  <2>. QED
    BY <2>2, <2>3 DEF BridgeInv
<1>2. CASE Post
  <2>1. /\ posting \in Posts /\ mailbox' = Append(mailbox, posting) /\ posting' = Nothing
        /\ Len(mailbox) < MailboxSize
        /\ UNCHANGED <<handing, received, results, promise, arrived, freed>>
    BY <1>0, <1>2 DEF Post, Typed, HasPlace
  <2>2. /\ Frees(mailbox') = Frees(mailbox) + One(posting, Free)
        /\ One(posting', Free) = 0 /\ One(posting, Free) \in Nat
    BY <1>0, <2>1, FreesMove DEF One
  <2>3. /\ mailbox' \in Seq(Posts) /\ Len(mailbox') = Len(mailbox) + 1
        /\ Len(mailbox) \in Nat
    BY <1>0, <2>1, AppendProperties, LenProperties
  <2>4. One(handing, Buffer) \in Nat
    BY DEF One
  <2>5. Accounted'
    BY <1>0, <2>1, <2>2, <2>4 DEF Accounted, Typed
  <2>6. Typed'
    BY <1>0, <2>1, <2>3 DEF Typed
  <2>. QED
    BY <2>5, <2>6 DEF BridgeInv
<1>3. ASSUME NEW c \in Calls, Settle(c) PROVE BridgeInv'
  BY <1>0, <1>3 DEF Settle, BridgeInv, Typed, Accounted
<1>4. CASE Receive
  <2>1. /\ posting = Nothing /\ posting' = Free /\ received > 0
        /\ received' = received - 1
        /\ UNCHANGED <<mailbox, handing, results, promise, arrived, freed>>
    BY <1>4 DEF Receive, JsRuns, LeftAfterReceive, AfterReceive
  <2>2. /\ One(posting, Free) = 0 /\ One(posting', Free) = 1
        /\ One(handing, Buffer) \in Nat /\ received' \in Nat
    BY <1>0, <2>1 DEF One, Typed
  <2>3. Accounted'
    BY <1>0, <2>1, <2>2 DEF Accounted, Typed
  <2>4. Typed'
    BY <1>0, <2>1, <2>2 DEF Typed, Posts
  <2>. QED
    BY <2>3, <2>4 DEF BridgeInv
<1>5. CASE Take
  <2>1. /\ handing = Nothing /\ mailbox # <<>> /\ mailbox' = Tail(mailbox)
        /\ UNCHANGED <<posting, received, results, promise, arrived>>
    BY <1>5 DEF Take, TcpipRuns
  <2>2. /\ Head(mailbox) \in Posts /\ Frees(mailbox') \in Nat
        /\ Frees(mailbox) = One(Head(mailbox), Free) + Frees(mailbox')
    BY <1>0, <2>1, FreesMove
  <2>3. /\ mailbox' \in Seq(Posts) /\ Len(mailbox') = Len(mailbox) - 1
        /\ Len(mailbox) \in Nat
    BY <1>0, <2>1, HeadTailProperties, LenProperties
  <2>4. /\ One(handing, Buffer) = 0 /\ One(posting, Free) \in Nat
    BY <1>0, <2>1 DEF One
  <2>5. CASE Head(mailbox) = Free /\ freed' = freed + 1 /\ UNCHANGED handing
    <3>1. One(Head(mailbox), Free) = 1
      BY <2>5 DEF One
    <3>2. /\ One(posting', Free) = One(posting, Free) /\ One(handing', Buffer) = 0
          /\ received \in Nat /\ freed \in Nat
          /\ arrived = 0 + received + One(posting, Free) + Frees(mailbox) + freed
      BY <1>0, <2>1, <2>4, <2>5 DEF Accounted, Typed
    <3>3. arrived' = 0 + received' + One(posting', Free) + Frees(mailbox') + freed'
      <4>1. \A r, p, m, f \in Nat :
              0 + r + p + (1 + m) + f = 0 + r + p + m + (f + 1)
        OBVIOUS
      <4>2. /\ Frees(mailbox) = 1 + Frees(mailbox') /\ Frees(mailbox') \in Nat
            /\ freed' = freed + 1 /\ received' = received /\ arrived' = arrived
        BY <2>1, <2>2, <2>5, <3>1
      <4>3. 0 + received + One(posting, Free) + (1 + Frees(mailbox')) + freed
              = 0 + received + One(posting, Free) + Frees(mailbox') + (freed + 1)
        BY <2>4, <3>2, <4>1, <4>2
      <4>. QED
        BY <3>2, <4>2, <4>3
    <3>4. Accounted'
      BY <3>2, <3>3 DEF Accounted
    <3>5. Typed'
      BY <1>0, <2>1, <2>3, <2>5 DEF Typed
    <3>. QED
      BY <3>4, <3>5 DEF BridgeInv
  <2>6. CASE Head(mailbox) \in Calls /\ handing' = Head(mailbox) /\ UNCHANGED freed
    <3>1. One(Head(mailbox), Free) = 0 /\ One(handing', Buffer) = 0
      BY <1>0, <2>6 DEF One
    <3>2. Accounted'
      BY <1>0, <2>1, <2>2, <2>4, <2>6, <3>1 DEF Accounted, Typed
    <3>3. Typed'
      BY <1>0, <2>1, <2>3, <2>6 DEF Typed
    <3>. QED
      BY <3>2, <3>3 DEF BridgeInv
  <2>. QED
    BY <1>5, <2>5, <2>6 DEF Take
<1>6. CASE Arrive
  <2>1. /\ handing = Nothing /\ handing' = Buffer /\ arrived < MaxBuffers
        /\ arrived' = arrived + 1
        /\ UNCHANGED <<mailbox, posting, received, results, promise, freed>>
    BY <1>6 DEF Arrive, TcpipRuns
  <2>2. /\ One(handing, Buffer) = 0 /\ One(handing', Buffer) = 1
        /\ One(posting, Free) \in Nat
    BY <1>0, <2>1 DEF One
  <2>3. /\ Frees(mailbox') = Frees(mailbox) /\ One(posting', Free) = One(posting, Free)
        /\ received \in Nat /\ freed \in Nat /\ arrived \in Nat
        /\ arrived = 0 + received + One(posting, Free) + Frees(mailbox) + freed
    BY <1>0, <2>1, <2>2 DEF Accounted, Typed
  <2>4. arrived' = 1 + received' + One(posting', Free) + Frees(mailbox') + freed'
    <3>1. \A r, p, m, f \in Nat : (0 + r + p + m + f) + 1 = 1 + r + p + m + f
      OBVIOUS
    <3>2. arrived' = (0 + received + One(posting, Free) + Frees(mailbox) + freed) + 1
      BY <2>1, <2>3, Zenon
    <3>3. /\ Frees(mailbox) \in Nat /\ One(posting, Free) \in Nat
          /\ received' = received /\ freed' = freed
      BY <1>0, <2>1, <2>2
    <3>4. (0 + received + One(posting, Free) + Frees(mailbox) + freed) + 1
            = 1 + received + One(posting, Free) + Frees(mailbox) + freed
      BY <2>3, <3>1, <3>3
    <3>. QED
      BY <2>3, <3>2, <3>3, <3>4
  <2>5. Accounted'
    BY <2>2, <2>4 DEF Accounted
  <2>6. Typed'
    BY <1>0, <2>1 DEF Typed
  <2>. QED
    BY <2>5, <2>6 DEF BridgeInv
<1>7. CASE HandOver
  <2>1. /\ handing # Nothing /\ handing' = Nothing
        /\ UNCHANGED <<mailbox, posting, promise, arrived, freed>>
    BY <1>7 DEF HandOver, TcpipRuns
  <2>2. One(handing', Buffer) = 0 /\ One(posting, Free) \in Nat
    BY <1>0, <2>1 DEF One
  <2>3. CASE handing = Buffer /\ received' = received + 1 /\ UNCHANGED results
    <3>1. One(handing, Buffer) = 1
      BY <2>3 DEF One
    <3>2. Accounted'
      BY <1>0, <2>1, <2>2, <2>3, <3>1 DEF Accounted, Typed
    <3>3. Typed'
      BY <1>0, <2>1, <2>3 DEF Typed
    <3>. QED
      BY <3>2, <3>3 DEF BridgeInv
  <2>4. CASE handing \in Calls /\ results' = results \cup {handing} /\ UNCHANGED received
    <3>1. One(handing, Buffer) = 0
      BY <1>0, <2>4 DEF One
    <3>2. Accounted'
      BY <1>0, <2>1, <2>2, <2>4, <3>1 DEF Accounted, Typed
    <3>3. Typed'
      BY <1>0, <2>1, <2>4 DEF Typed
    <3>. QED
      BY <3>2, <3>3 DEF BridgeInv
  <2>. QED
    BY <1>7, <2>3, <2>4 DEF HandOver
<1>. QED
  BY <1>1, <1>2, <1>3, <1>4, <1>5, <1>6, <1>7 DEF Next, Js, Tcpip

-----------------------------------------------------------------------------
(* Theorems *)

\* A buffer that the receive callback was given is in one place at any time,
\* whichever thread has it, and is freed once at most (lwip-util.h:65).
THEOREM BuffersAccounted == Spec => []BridgeInv
<1>1. Init => BridgeInv
  <2>. SUFFICES ASSUME Init PROVE BridgeInv
    OBVIOUS
  <2>1. Ones(<<>>) = <<>>
    BY DEF Ones
  <2>2. Frees(mailbox) = 0 /\ One(posting, Free) = 0 /\ One(handing, Buffer) = 0
    BY <2>1, SumOfEmpty DEF Init, Frees, One, Nothing, Free, Buffer
  <2>3. Accounted
    BY <2>2 DEF Init, Accounted
  <2>4. mailbox \in Seq(Posts) /\ Len(mailbox) = 0
    BY DEF Init
  <2>5. Typed
    BY <2>4, BridgeAssumption DEF Init, Typed, BridgeAssumption
  <2>. QED
    BY <2>3, <2>5 DEF BridgeInv
<1>2. BridgeInv /\ [Next]_vars => BridgeInv'
  <2>1. ASSUME BridgeInv, UNCHANGED vars PROVE BridgeInv'
    BY <2>1 DEF vars, BridgeInv, Typed, Accounted
  <2>. QED
    BY <2>1, BridgeStep
<1>. QED
  BY <1>1, <1>2, PTL DEF Spec

\* The mailbox never holds more than it has places for, and no more buffers are
\* queued or freed than arrived.
THEOREM TypeCorrect == Spec => []TypeOK
<1>1. BridgeInv => TypeOK
  <2>. SUFFICES ASSUME BridgeInv PROVE TypeOK
    OBVIOUS
  <2>1. /\ Frees(mailbox) \in Nat /\ One(handing, Buffer) \in Nat
        /\ One(posting, Free) \in Nat
    BY FreesMove DEF BridgeInv, Typed, One
  <2>2. received \in 0..MaxBuffers /\ freed \in 0..MaxBuffers
    BY <2>1, BridgeAssumption DEF BridgeInv, Typed, Accounted, BridgeAssumption
  <2>. QED
    BY <2>2 DEF BridgeInv, Typed, TypeOK, Posts
<1>. QED
  BY <1>1, BuffersAccounted, PTL
=============================================================================
