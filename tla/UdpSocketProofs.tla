--------------------------- MODULE UdpSocketProofs ---------------------------
(***************************************************************************)
(* Theorems about the dgram socket, for every number of calls and of       *)
(* datagrams.                                                              *)
(***************************************************************************)
EXTENDS UdpSocket, FiniteSetTheorems, FunctionTheorems, SequenceTheorems, TLAPS

\* The type invariant, one variable at a time, but for what the pbufs bound.
Types ==
  /\ use \in Uses
  /\ pcb \in Pcb
  /\ mailbox \in Seq(Message)
  /\ results \subseteq [op : Asynchronous, ok : BOOLEAN, n : 1..MaxCalls]
  /\ received \in Nat /\ pbufs \in Nat
  /\ native \in {"none", "live", "removed"}
  /\ port \in Nat
  /\ calls \in 0..MaxCalls
  /\ arrived \in 0..MaxDatagrams /\ delivered \in Nat
  /\ listenings \in Nat

Flags ==
  /\ bound \in BOOLEAN /\ connected \in BOOLEAN /\ closed \in BOOLEAN
  /\ aborted \in BOOLEAN /\ holds \in BOOLEAN /\ remote \in BOOLEAN
  /\ alive \in BOOLEAN /\ asked \in BOOLEAN /\ early \in BOOLEAN
  /\ late \in BOOLEAN /\ reported \in BOOLEAN

\* A function that does op is posted.
Has(q, op) == \E i \in DOMAIN q : q[i].op = op

\* The pcb is created first and removed last: only pbufs are freed after that.
Ordered ==
  /\ \A i \in DOMAIN mailbox : mailbox[i].op = "new" => i = 1
  /\ \A i, j \in DOMAIN mailbox :
       i < j /\ mailbox[i].op = "close" => mailbox[j].op = "free"
  /\ Has(mailbox, "close") => closed

\* What was captured on the JavaScript thread is there when it is used, unless
\* that was too early.
PcbThere ==
  /\ \A i \in DOMAIN mailbox :
       mailbox[i].op \in {"disconnect", "close"} =>
         mailbox[i].pcb = "live" /\ native = "live"
  /\ pcb = "live" => native = "live"
  /\ closed <=> pcb = "null"
  /\ Has(mailbox, "new") => pcb = "unset" /\ native = "none"
  /\ aborted \/ (\E r \in results : r.op = "close") => native = "removed"
  /\ reported => aborted
  /\ ~late => alive

\* A bind that is reported gave a port, and "listening" was emitted with it.
PortThere ==
  /\ \A r \in results :
       r.ok /\ r.op \in {"bind", "send"} => port # 0 /\ (~closed => pcb = "live")
  /\ bound => port # 0 /\ (~closed => pcb = "live")
  /\ listenings > 0 <=> bound
  /\ ~asked => (holds <=> bound)

\* A patient application has one bind under way, and nothing else that binds ...
BindsOnce ==
  /\ ~early
  /\ listenings <= 1
  /\ \A i, j \in DOMAIN mailbox :
       mailbox[i].op = "bind" /\ mailbox[j].op \in {"bind", "send"} => i = j
  /\ Has(mailbox, "bind") =>
       ~bound /\ \A r \in results : r.op \notin {"bind", "send"}
  /\ \A r \in results : r.op = "bind" =>
       /\ ~bound /\ ~Has(mailbox, "bind") /\ ~Has(mailbox, "send")
       /\ \A s \in results : s.op \in {"bind", "send"} => s = r

\* ... and one connect, with what it disconnects from before it.
ConnectsOnce ==
  /\ \A i, j \in DOMAIN mailbox :
       i < j /\ mailbox[i].op = "connect"
         => mailbox[j].op \notin {"disconnect", "connect"}
  /\ \A r \in results : r.op = "connect" =>
       /\ ~Has(mailbox, "connect") /\ ~Has(mailbox, "disconnect")
       /\ \A s \in results : s.op = "connect" => s = r
       /\ r.ok => remote
  /\ Has(mailbox, "disconnect") => ~connected
  /\ ~Has(mailbox, "disconnect") /\ (\A r \in results : r.op = "connect" => ~r.ok)
       => (connected <=> remote)

\* The pbufs, and how many there may be.
PbufsBounded ==
  /\ PbufsAccounted
  /\ pbufs <= arrived /\ received + delivered <= arrived

UdpInv ==
  /\ Types /\ Flags /\ Ordered /\ PortThere /\ PbufsBounded
  /\ ~early => PcbThere
  /\ Patient => BindsOnce /\ ConnectsOnce
-----------------------------------------------------------------------------
(* The mailbox *)

\* p is q with messages of new behind it: one, or some that free pbufs.
Grows(q, p, new) ==
  /\ p \in Seq(Message) /\ DOMAIN p \subseteq Nat
  /\ \A i \in DOMAIN q : i \in DOMAIN p /\ p[i] = q[i]
  /\ \A i \in DOMAIN p \ DOMAIN q : p[i] \in new /\ \A j \in DOMAIN q : j < i
  /\ \A i, j \in DOMAIN p \ DOMAIN q : i = j \/ p[i].op = "free"

\* t is q without its head.
Shrinks(q, t) ==
  /\ t \in Seq(Message) /\ 1 \in DOMAIN q /\ Head(q) = q[1] /\ Head(q) \in Message
  /\ \A i \in DOMAIN t : i \in Nat \ {0} /\ i + 1 \in DOMAIN q /\ t[i] = q[i + 1]
  /\ \A j \in DOMAIN q : j = 1 \/ (j - 1 \in DOMAIN t /\ t[j - 1] = q[j])

\* How many of the messages free a pbuf.
FreesIn(q) == Cardinality({i \in DOMAIN q : q[i].op = "free"})

\* They are finitely many.
LEMMA FreesFinite ==
  ASSUME NEW q \in Seq(Message)
  PROVE  /\ IsFiniteSet({i \in DOMAIN q : q[i].op = "free"})
         /\ Cardinality({i \in DOMAIN q : q[i].op = "free"}) \in Nat
<1> DEFINE S == {i \in DOMAIN q : q[i].op = "free"}
<1>1. DOMAIN q = 1..Len(q) /\ Len(q) \in Int
  OBVIOUS
<1>2. IsFiniteSet(DOMAIN q)
  BY <1>1, FS_Interval
<1>3. S \in SUBSET DOMAIN q
  OBVIOUS
<1>. HIDE DEF S
<1>4. IsFiniteSet(S)
  BY <1>2, <1>3, FS_Subset
<1>5. Cardinality(S) \in Nat
  BY <1>4, FS_CardinalityType
<1>. QED
  BY <1>4, <1>5 DEF S

\* A message is posted.
LEMMA PostGrows ==
  ASSUME NEW q \in Seq(Message), NEW m \in Message
  PROVE  /\ Grows(q, Append(q, m), {m})
         /\ \E i \in DOMAIN Append(q, m) : Append(q, m)[i] = m
         /\ FreesIn(Append(q, m)) = FreesIn(q) + (IF m.op = "free" THEN 1 ELSE 0)
<1> DEFINE p == Append(q, m)
<1>1. /\ p \in Seq(Message) /\ Len(q) \in Nat
      /\ DOMAIN q = 1..Len(q) /\ DOMAIN p = 1..(Len(q) + 1)
      /\ \A i \in 1..Len(q) : p[i] = q[i]
      /\ p[Len(q) + 1] = m
  BY AppendProperties
<1>. HIDE DEF p
<1>2. Grows(q, p, {m})
  BY <1>1 DEF Grows
<1> DEFINE S == {i \in DOMAIN q : q[i].op = "free"}
           T == {i \in DOMAIN p : p[i].op = "free"}
<1>3. IsFiniteSet(S) /\ Cardinality(S) \in Nat
  BY FreesFinite
<1>4. T = IF m.op = "free" THEN S \cup {Len(q) + 1} ELSE S
  BY <1>1
<1>5. Len(q) + 1 \notin S
  BY <1>1
<1>6. Cardinality(T) = Cardinality(S) + (IF m.op = "free" THEN 1 ELSE 0)
  <2>. HIDE DEF S, T
  <2>1. CASE m.op = "free"
    <3>1. T = S \cup {Len(q) + 1}
      BY <1>4, <2>1
    <3>2. Cardinality(S \cup {Len(q) + 1}) = Cardinality(S) + 1
      BY <1>3, <1>5, FS_AddElement
    <3>. QED
      BY <2>1, <3>1, <3>2
  <2>2. CASE m.op # "free"
    BY <1>3, <1>4, <2>2
  <2>. QED
    BY <2>1, <2>2
<1>7. \E i \in DOMAIN p : p[i] = m
  BY <1>1
<1>. QED
  BY <1>2, <1>6, <1>7 DEF FreesIn, p

\* Functions that free n pbufs are posted.
LEMMA FreesGrow ==
  ASSUME NEW q \in Seq(Message), NEW n \in Nat
  PROVE  /\ Grows(q, q \o Frees(n), {[op |-> "free"]})
         /\ FreesIn(q \o Frees(n)) = FreesIn(q) + n
<1> DEFINE f == Frees(n)
           p == q \o f
<1>1. f \in Seq(Message) /\ Len(f) = n /\ \A i \in 1..n : f[i] = [op |-> "free"]
  BY DEF Frees, Message
<1>2. /\ p \in Seq(Message) /\ Len(q) \in Nat
      /\ DOMAIN q = 1..Len(q) /\ DOMAIN p = 1..(Len(q) + n)
      /\ \A i \in 1..Len(q) : p[i] = q[i]
      /\ \A i \in 1..(Len(q) + n) : i > Len(q) => p[i] = [op |-> "free"]
  <2>. HIDE DEF f
  <2>0. f \in Seq(Message) /\ Len(f) = n
    BY <1>1
  <2>1. /\ p \in Seq(Message) /\ Len(p) = Len(q) + Len(f)
        /\ \A i \in 1..(Len(q) + Len(f)) :
             p[i] = IF i <= Len(q) THEN q[i] ELSE f[i - Len(q)]
    BY <2>0, ConcatProperties, Zenon
  <2>2. DOMAIN q = 1..Len(q) /\ DOMAIN p = 1..(Len(q) + n) /\ Len(q) \in Nat
    BY <1>1, <2>1
  <2>3. ASSUME NEW i \in 1..(Len(q) + n), i > Len(q)
        PROVE  p[i] = [op |-> "free"]
    <3>1. i - Len(q) \in 1..n /\ p[i] = f[i - Len(q)]
      BY <1>1, <2>1, <2>3
    <3>. QED
      BY <1>1, <3>1
  <2>4. \A i \in 1..Len(q) : p[i] = q[i]
    BY <1>1, <2>1
  <2>. QED
    BY <2>1, <2>2, <2>3, <2>4
<1>. HIDE DEF p
<1>3. Grows(q, p, {[op |-> "free"]})
  BY <1>2 DEF Grows
<1> DEFINE S == {i \in DOMAIN q : q[i].op = "free"}
           T == {i \in DOMAIN p : p[i].op = "free"}
           N == (Len(q) + 1)..(Len(q) + n)
<1>4. IsFiniteSet(S) /\ Cardinality(S) \in Nat
  BY FreesFinite
<1>5. IsFiniteSet(N) /\ Cardinality(N) = n
  <2>0. Len(q) + 1 \in Int /\ Len(q) + n \in Int
    BY <1>2
  <2>1. PICK a \in Int, b \in Int : a = Len(q) + 1 /\ b = Len(q) + n
    BY <2>0, Zenon
  <2>2. IsFiniteSet(a..b) /\ Cardinality(a..b) = IF a > b THEN 0 ELSE b - a + 1
    BY FS_Interval, Zenon
  <2>3. N = a..b
    BY <2>1
  <2>. HIDE DEF N
  <2>4. (IF a > b THEN 0 ELSE b - a + 1) = n
    BY <1>2, <2>1
  <2>. QED
    BY <2>2, <2>3, <2>4, Zenon
<1>6. T = S \cup N /\ S \cap N = {}
  BY <1>2
<1>7. Cardinality(T) = Cardinality(S) + n
  <2>. HIDE DEF S, T, N
  <2>1. Cardinality(S \cup N) = Cardinality(S) + Cardinality(N) - Cardinality(S \cap N)
    BY <1>4, <1>5, FS_Union
  <2>2. Cardinality({}) = 0
    BY FS_EmptySet
  <2>3. Cardinality(T) = Cardinality(S \cup N) /\ Cardinality(S \cap N) = 0
    BY <1>6, <2>2, Zenon
  <2>. QED
    BY <1>4, <1>5, <2>1, <2>3
<1>. QED
  BY <1>3, <1>7 DEF FreesIn, p, f

\* A message is served.
LEMMA ServeShrinks ==
  ASSUME NEW q \in Seq(Message), q # <<>>
  PROVE  /\ Shrinks(q, Tail(q))
         /\ FreesIn(Tail(q)) = FreesIn(q) - (IF Head(q).op = "free" THEN 1 ELSE 0)
         /\ FreesIn(q) \in Nat
<1> DEFINE t == Tail(q)
<1>1. /\ t \in Seq(Message) /\ Len(q) \in Nat /\ Len(q) > 0
      /\ DOMAIN q = 1..Len(q) /\ DOMAIN t = 1..(Len(q) - 1)
      /\ \A i \in 1..(Len(q) - 1) : t[i] = q[i + 1]
      /\ Head(q) = q[1] /\ Head(q) \in Message
  BY HeadTailProperties, EmptySeq
<1>. HIDE DEF t
<1>2. Shrinks(q, t)
  BY <1>1 DEF Shrinks
<1> DEFINE S == {i \in DOMAIN q : q[i].op = "free"}
           R == S \ {1}
           T == {i \in DOMAIN t : t[i].op = "free"}
           g == [i \in T |-> i + 1]
<1>3. IsFiniteSet(S) /\ Cardinality(S) \in Nat
  BY FreesFinite
<1>4. IsFiniteSet(R) /\ Cardinality(R)
                          = Cardinality(S) - (IF Head(q).op = "free" THEN 1 ELSE 0)
  <2>1. CASE Head(q).op = "free"
    <3>1. 1 \in S
      BY <1>1, <2>1
    <3>. HIDE DEF S
    <3>. QED
      BY <1>3, <2>1, <3>1, FS_RemoveElement
  <2>2. CASE Head(q).op # "free"
    <3>1. R = S
      BY <1>1, <2>2
    <3>. HIDE DEF S, R
    <3>. QED
      BY <1>3, <2>2, <3>1
  <2>. QED
    BY <2>1, <2>2
<1>5. g \in Bijection(T, R)
  <2>1. g \in [T -> R]
    BY <1>1
  <2>2. \A i, j \in T : g[i] = g[j] => i = j
    BY <1>1
  <2>3. ASSUME NEW j \in R PROVE \E i \in T : g[i] = j
    <3>1. j - 1 \in T /\ g[j - 1] = j
      BY <1>1
    <3>. QED
      BY <3>1
  <2>. QED
    BY <2>1, <2>2, <2>3, Fun_IsBij
<1>6. IsFiniteSet(T) /\ Cardinality(T) = Cardinality(R)
  <2>1. g \in Injection(T, R) /\ g \in Surjection(T, R)
    BY <1>5 DEF Bijection
  <2>. HIDE DEF g, T, R
  <2>. QED
    BY <1>4, <2>1, FS_Injection
<1>. QED
  BY <1>2, <1>3, <1>4, <1>6 DEF FreesIn, t

-----------------------------------------------------------------------------
(* What the steps do to it *)

\* Messages that do op, and carry the pcb that was captured.
New(op) ==
  {m \in Message : m.op = op /\ (op \in {"disconnect", "close"} => m.pcb = pcb)}

\* A method posts a message.
LEMMA MethodsPost ==
  ASSUME Types
  PROVE  /\ Bind => calls' \in 1..MaxCalls /\ Grows(mailbox, mailbox', New("bind"))
         /\ Send => calls' \in 1..MaxCalls /\ Grows(mailbox, mailbox', New("send"))
         /\ Connect => calls' \in 1..MaxCalls /\ Grows(mailbox, mailbox', New("connect"))
         /\ Disconnect => /\ calls' \in 1..MaxCalls
                          /\ Grows(mailbox, mailbox', New("disconnect"))
                          /\ Has(mailbox', "disconnect")
         /\ Close => /\ calls' \in 1..MaxCalls
                     /\ \/ Grows(mailbox, mailbox', New("close")) /\ pcb' = "null"
                           /\ UNCHANGED <<aborted, reported>>
                        \/ pcb = "unset" /\ UNCHANGED <<pcb, mailbox, aborted>>
         /\ Bind \/ Send \/ Connect \/ Disconnect \/ Close =>
              FreesIn(mailbox') = FreesIn(mailbox)
<1>1. ASSUME NEW m \in Message, m.op # "free", mailbox' = Append(mailbox, m)
      PROVE  /\ Grows(mailbox, mailbox', {m})
             /\ FreesIn(mailbox') = FreesIn(mailbox)
             /\ \E i \in DOMAIN mailbox' : mailbox'[i] = m
  <2>1. mailbox \in Seq(Message)
    BY DEF Types
  <2>2. FreesIn(mailbox) \in Nat
    BY <2>1, FreesFinite DEF FreesIn
  <2> DEFINE p == Append(mailbox, m)
  <2>3. /\ Grows(mailbox, p, {m})
        /\ FreesIn(p) = FreesIn(mailbox) + (IF m.op = "free" THEN 1 ELSE 0)
        /\ \E i \in DOMAIN p : p[i] = m
    BY <2>1, PostGrows, Zenon
  <2>. HIDE DEF p
  <2>4. FreesIn(p) = FreesIn(mailbox)
    BY <1>1, <2>2, <2>3
  <2>5. mailbox' = p
    BY <1>1 DEF p
  <2>. QED
    BY <2>3, <2>4, <2>5, Zenon
<1>2. ASSUME Method, calls' = calls + 1 PROVE calls' \in 1..MaxCalls
  BY <1>2, UdpAssumption DEF Method, Types
<1>3. ASSUME Bind
      PROVE  /\ calls' \in 1..MaxCalls /\ Grows(mailbox, mailbox', New("bind"))
             /\ FreesIn(mailbox') = FreesIn(mailbox)
  <2> DEFINE m == [op |-> "bind", n |-> calls']
  <2>1. calls' \in 1..MaxCalls
    BY <1>2, <1>3 DEF Bind
  <2>2. m \in Message /\ m.op # "free" /\ m \in New("bind")
    BY <2>1 DEF Message, New
  <2>3. mailbox' = Append(mailbox, m)
    BY <1>3 DEF Bind, Post
  <2>. HIDE DEF m
  <2>4. Grows(mailbox, mailbox', {m}) /\ FreesIn(mailbox') = FreesIn(mailbox)
    BY <1>1, <2>2, <2>3
  <2>. QED
    BY <2>1, <2>2, <2>4 DEF Grows
<1>4. ASSUME Send
      PROVE  /\ calls' \in 1..MaxCalls /\ Grows(mailbox, mailbox', New("send"))
             /\ FreesIn(mailbox') = FreesIn(mailbox)
  <2> DEFINE m == [op |-> "send", n |-> calls']
  <2>1. calls' \in 1..MaxCalls
    BY <1>2, <1>4 DEF Send
  <2>2. m \in Message /\ m.op # "free" /\ m \in New("send")
    BY <2>1 DEF Message, New
  <2>3. mailbox' = Append(mailbox, m)
    BY <1>4 DEF Send, Post
  <2>. HIDE DEF m
  <2>4. Grows(mailbox, mailbox', {m}) /\ FreesIn(mailbox') = FreesIn(mailbox)
    BY <1>1, <2>2, <2>3
  <2>. QED
    BY <2>1, <2>2, <2>4 DEF Grows
<1>5. ASSUME Connect
      PROVE  /\ calls' \in 1..MaxCalls /\ Grows(mailbox, mailbox', New("connect"))
             /\ FreesIn(mailbox') = FreesIn(mailbox)
  <2> DEFINE m == [op |-> "connect", n |-> calls']
  <2>1. calls' \in 1..MaxCalls
    BY <1>2, <1>5 DEF Connect
  <2>2. m \in Message /\ m.op # "free" /\ m \in New("connect")
    BY <2>1 DEF Message, New
  <2>3. mailbox' = Append(mailbox, m)
    BY <1>5 DEF Connect, Post
  <2>. HIDE DEF m
  <2>4. Grows(mailbox, mailbox', {m}) /\ FreesIn(mailbox') = FreesIn(mailbox)
    BY <1>1, <2>2, <2>3
  <2>. QED
    BY <2>1, <2>2, <2>4 DEF Grows
<1>6. ASSUME NEW op \in {"disconnect", "close"}, calls' \in 1..MaxCalls,
             Post([op |-> op, n |-> calls', pcb |-> pcb])
      PROVE  /\ Grows(mailbox, mailbox', New(op)) /\ Has(mailbox', op)
             /\ FreesIn(mailbox') = FreesIn(mailbox)
  <2> DEFINE m == [op |-> op, n |-> calls', pcb |-> pcb]
  <2>1. m \in Message /\ m.op # "free" /\ m \in New(op) /\ m.op = op
    BY <1>6 DEF Message, New, Types
  <2>2. mailbox' = Append(mailbox, m)
    BY <1>6 DEF Post
  <2>. HIDE DEF m
  <2>3. /\ Grows(mailbox, mailbox', {m}) /\ FreesIn(mailbox') = FreesIn(mailbox)
        /\ \E i \in DOMAIN mailbox' : mailbox'[i] = m
    BY <1>1, <2>1, <2>2
  <2>. QED
    BY <2>1, <2>3 DEF Grows, Has
<1>7. ASSUME Disconnect
      PROVE  /\ calls' \in 1..MaxCalls /\ Grows(mailbox, mailbox', New("disconnect"))
             /\ Has(mailbox', "disconnect")
             /\ FreesIn(mailbox') = FreesIn(mailbox)
  BY <1>2, <1>6, <1>7 DEF Disconnect
<1>8. ASSUME Close
      PROVE  /\ calls' \in 1..MaxCalls
             /\ \/ Grows(mailbox, mailbox', New("close")) /\ pcb' = "null"
                   /\ UNCHANGED <<aborted, reported>>
                \/ pcb = "unset" /\ UNCHANGED <<pcb, mailbox, aborted>>
             /\ FreesIn(mailbox') = FreesIn(mailbox)
  <2>1. calls' \in 1..MaxCalls
    BY <1>2, <1>8 DEF Close
  <2>. QED
    BY <1>6, <1>8, <2>1 DEF Close, AbortedByClose
<1>. QED
  BY <1>3, <1>4, <1>5, <1>7, <1>8

\* JavaScript returns the pbufs it has got, and those it will not look at.
LEMMA EventsPost ==
  ASSUME Types
  PROVE  /\ FreesIn(mailbox) \in Nat
         /\ OnMessage => /\ Grows(mailbox, mailbox', New("free"))
                         /\ FreesIn(mailbox') = FreesIn(mailbox) + 1
         /\ OnResult =>
              \/ /\ aborted' /\ received' = 0
                 /\ Grows(mailbox, mailbox', New("free"))
                 /\ FreesIn(mailbox') = FreesIn(mailbox) + received
              \/ ~aborted' /\ UNCHANGED <<mailbox, received>>
<1> DEFINE m == [op |-> "free"]
<1>1. m \in Message /\ m.op = "free" /\ m \in New("free")
  BY DEF Message, New
<1>2. mailbox \in Seq(Message) /\ received \in Nat
  BY DEF Types
<1>3. FreesIn(mailbox) \in Nat
  BY <1>2, FreesFinite DEF FreesIn
<1>4. ASSUME OnMessage
      PROVE  /\ Grows(mailbox, mailbox', New("free"))
             /\ FreesIn(mailbox') = FreesIn(mailbox) + 1
  <2>1. mailbox' = Append(mailbox, m)
    BY <1>4 DEF OnMessage, Post
  <2>. HIDE DEF m
  <2>2. Grows(mailbox, mailbox', {m}) /\ FreesIn(mailbox') = FreesIn(mailbox) + 1
    BY <1>1, <1>2, <2>1, PostGrows
  <2>. QED
    BY <1>1, <2>2 DEF Grows
<1>5. ASSUME OnResult
      PROVE  \/ /\ aborted' /\ received' = 0
                /\ Grows(mailbox, mailbox', New("free"))
                /\ FreesIn(mailbox') = FreesIn(mailbox) + received
             \/ ~aborted' /\ UNCHANGED <<mailbox, received>>
  <2>1. \/ aborted' /\ mailbox' = mailbox \o Frees(received) /\ received' = 0
        \/ ~aborted' /\ UNCHANGED <<mailbox, received>>
    BY <1>5 DEF OnResult
  <2>2. CASE aborted' /\ mailbox' = mailbox \o Frees(received) /\ received' = 0
    <3>1. /\ Grows(mailbox, mailbox', {m})
          /\ FreesIn(mailbox') = FreesIn(mailbox) + received
      BY <1>2, <2>2, FreesGrow
    <3>. QED
      BY <1>1, <2>2, <3>1 DEF Grows
  <2>. QED
    BY <2>1, <2>2
<1>. QED
  BY <1>3, <1>4, <1>5

\* The tcpip thread serves a message that does op.
Served(op) ==
  /\ alive /\ Shrinks(mailbox, mailbox') /\ Head(mailbox).op = op
  /\ FreesIn(mailbox') = FreesIn(mailbox) - (IF op = "free" THEN 1 ELSE 0)
  /\ FreesIn(mailbox) \in Nat

LEMMA ServesOne == ASSUME Types PROVE \A op : Serve(op) => Served(op)
<1>1. SUFFICES ASSUME NEW op, Serve(op) PROVE Served(op)
  OBVIOUS
<1>2. /\ alive /\ mailbox \in Seq(Message) /\ mailbox # <<>>
      /\ mailbox' = Tail(mailbox) /\ Head(mailbox).op = op
  BY <1>1 DEF Serve, Types
<1>. QED
  BY <1>2, ServeShrinks DEF Served

-----------------------------------------------------------------------------
(* Every step keeps each part *)

\* The flags are Boolean.
LEMMA FlagsStep ==
  ASSUME UdpInv,
         Next \/ UNCHANGED vars
  PROVE  Flags'
<1>0. Types /\ Flags
  BY DEF UdpInv
<1>1. CASE Bind
  <2>1. /\ calls' \in 1..MaxCalls /\ Grows(mailbox, mailbox', New("bind"))
        /\ FreesIn(mailbox') = FreesIn(mailbox)
    BY <1>0, <1>1, MethodsPost
  <2>. QED
    BY <1>0, <1>1, <2>1 DEF Bind, Post, jsVars, lwipVars, Flags
<1>2. CASE Send
  <2>1. /\ calls' \in 1..MaxCalls /\ Grows(mailbox, mailbox', New("send"))
        /\ FreesIn(mailbox') = FreesIn(mailbox)
    BY <1>0, <1>2, MethodsPost
  <2>. QED
    BY <1>0, <1>2, <2>1 DEF Send, Post, jsVars, lwipVars, Flags
<1>3. CASE Connect
  <2>1. /\ calls' \in 1..MaxCalls /\ Grows(mailbox, mailbox', New("connect"))
        /\ FreesIn(mailbox') = FreesIn(mailbox)
    BY <1>0, <1>3, MethodsPost
  <2>. QED
    BY <1>0, <1>3, <2>1 DEF Connect, Post, jsVars, lwipVars, Flags
<1>4. CASE Disconnect
  <2>1. /\ calls' \in 1..MaxCalls /\ Grows(mailbox, mailbox', New("disconnect"))
        /\ Has(mailbox', "disconnect")
        /\ FreesIn(mailbox') = FreesIn(mailbox)
    BY <1>0, <1>4, MethodsPost
  <2>. QED
    BY <1>0, <1>4, <2>1 DEF Disconnect, ConnectedAfterDisconnect, lwipVars, Flags
<1>5. CASE Close
  <2>1. /\ calls' \in 1..MaxCalls
        /\ \/ Grows(mailbox, mailbox', New("close")) /\ pcb' = "null"
              /\ UNCHANGED <<aborted, reported>>
           \/ pcb = "unset" /\ UNCHANGED <<pcb, mailbox, aborted>>
        /\ FreesIn(mailbox') = FreesIn(mailbox)
    BY <1>0, <1>5, MethodsPost
  <2>. QED
    BY <1>0, <1>5, <2>1 DEF Close, AbortedByClose, lwipVars, Flags
<1>6. CASE \E value \in BOOLEAN : Ref(value)
  BY <1>0, <1>6 DEF Ref, SetHolds, jsVars, lwipVars, Flags
<1>7. CASE OnResult
  <2>1. /\ FreesIn(mailbox) \in Nat
        /\ \/ /\ aborted' /\ received' = 0
              /\ Grows(mailbox, mailbox', New("free"))
              /\ FreesIn(mailbox') = FreesIn(mailbox) + received
           \/ ~aborted' /\ UNCHANGED <<mailbox, received>>
    BY <1>0, <1>7, EventsPost
  <2>. QED
    BY <1>0, <1>7, <2>1 DEF OnResult, EmitsListening, SendBinds, AbortsOnRecv,
       SetHolds, lwipVars, Flags
<1>8. CASE OnMessage
  <2>1. /\ Grows(mailbox, mailbox', New("free")) /\ FreesIn(mailbox) \in Nat
        /\ FreesIn(mailbox') = FreesIn(mailbox) + 1
    BY <1>0, <1>8, EventsPost
  <2>. QED
    BY <1>0, <1>8, <2>1 DEF OnMessage, LeftAfterMessage, jsVars, lwipVars, Flags
<1>9. CASE RunNew
  <2>1. Served("new")
    BY <1>0, <1>9, ServesOne DEF RunNew
  <2>. QED
    BY <1>0, <1>9, <2>1 DEF RunNew, jsVars, historyVars, Served, Flags
<1>10. CASE RunBind
  <2>1. Served("bind")
    BY <1>0, <1>10, ServesOne DEF RunBind
  <2>. QED
    BY <1>0, <1>10, <2>1 DEF RunBind, ResultOf, jsVars, historyVars, Served, Flags
<1>11. CASE RunSendOrConnect("send")
  <2>1. Served("send")
    BY <1>0, <1>11, ServesOne DEF RunSendOrConnect
  <2>. QED
    BY <1>0, <1>11, <2>1 DEF RunSendOrConnect, ResultOf, jsVars, historyVars,
       Served, Flags
<1>12. CASE RunSendOrConnect("connect")
  <2>1. Served("connect")
    BY <1>0, <1>12, ServesOne DEF RunSendOrConnect
  <2>. QED
    BY <1>0, <1>12, <2>1 DEF RunSendOrConnect, ResultOf, jsVars, historyVars,
       Served, Flags
<1>13. CASE RunDisconnect
  <2>1. Served("disconnect")
    BY <1>0, <1>13, ServesOne DEF RunDisconnect
  <2>. QED
    BY <1>0, <1>13, <2>1 DEF RunDisconnect, jsVars, historyVars, Served, Flags
<1>14. CASE RunClose
  <2>1. Served("close")
    BY <1>0, <1>14, ServesOne DEF RunClose
  <2>. QED
    BY <1>0, <1>14, <2>1 DEF RunClose, ResultOf, jsVars, historyVars, Served, Flags
<1>15. CASE RunFree
  <2>1. Served("free")
    BY <1>0, <1>15, ServesOne DEF RunFree
  <2>. QED
    BY <1>0, <1>15, <2>1 DEF RunFree, jsVars, historyVars, Served, Flags
<1>16. CASE Datagram
  BY <1>0, <1>16 DEF Datagram, jsVars, Flags
<1>17. CASE UNCHANGED vars
  BY <1>0, <1>17 DEF vars, jsVars, queueVars, lwipVars, historyVars, Flags
<1>. QED
  BY <1>1, <1>2, <1>3, <1>4, <1>5, <1>6, <1>7, <1>8, <1>9, <1>10, <1>11, <1>12,
     <1>13, <1>14, <1>15, <1>16, <1>17 DEF Next, Tcpip, Quiescent

\* The pcb is created first and removed last.
LEMMA OrderedStep ==
  ASSUME UdpInv,
         Next \/ UNCHANGED vars
  PROVE  Ordered'
<1>0. Types /\ Flags
  BY DEF UdpInv
<1>1. CASE Bind
  <2>1. /\ calls' \in 1..MaxCalls /\ Grows(mailbox, mailbox', New("bind"))
        /\ FreesIn(mailbox') = FreesIn(mailbox)
    BY <1>0, <1>1, MethodsPost
  <2>. QED
    BY <1>0, <1>1, <2>1 DEF Bind, Post, jsVars, lwipVars, UdpInv, Ordered, Has,
       Grows, Shrinks, New, Method
<1>2. CASE Send
  <2>1. /\ calls' \in 1..MaxCalls /\ Grows(mailbox, mailbox', New("send"))
        /\ FreesIn(mailbox') = FreesIn(mailbox)
    BY <1>0, <1>2, MethodsPost
  <2>. QED
    BY <1>0, <1>2, <2>1 DEF Send, Post, jsVars, lwipVars, UdpInv, Ordered, Has,
       Grows, Shrinks, New, Method
<1>3. CASE Connect
  <2>1. /\ calls' \in 1..MaxCalls /\ Grows(mailbox, mailbox', New("connect"))
        /\ FreesIn(mailbox') = FreesIn(mailbox)
    BY <1>0, <1>3, MethodsPost
  <2>. QED
    BY <1>0, <1>3, <2>1 DEF Connect, Post, jsVars, lwipVars, UdpInv, Ordered, Has,
       Grows, Shrinks, New, Method
<1>4. CASE Disconnect
  <2>1. /\ calls' \in 1..MaxCalls /\ Grows(mailbox, mailbox', New("disconnect"))
        /\ Has(mailbox', "disconnect")
        /\ FreesIn(mailbox') = FreesIn(mailbox)
    BY <1>0, <1>4, MethodsPost
  <2>. QED
    BY <1>0, <1>4, <2>1 DEF Disconnect, ConnectedAfterDisconnect, lwipVars, UdpInv,
       Ordered, Has, Grows, Shrinks, New, Method
<1>5. CASE Close
  <2>1. /\ calls' \in 1..MaxCalls
        /\ \/ Grows(mailbox, mailbox', New("close")) /\ pcb' = "null"
              /\ UNCHANGED <<aborted, reported>>
           \/ pcb = "unset" /\ UNCHANGED <<pcb, mailbox, aborted>>
        /\ FreesIn(mailbox') = FreesIn(mailbox)
    BY <1>0, <1>5, MethodsPost
  <2>. QED
    BY <1>0, <1>5, <2>1 DEF Close, AbortedByClose, lwipVars, UdpInv, Ordered, Has,
       Grows, Shrinks, New, Method
<1>6. CASE \E value \in BOOLEAN : Ref(value)
  BY <1>0, <1>6 DEF Ref, SetHolds, jsVars, lwipVars, UdpInv, Ordered, Has, Grows,
     Shrinks, New, Method
<1>7. CASE OnResult
  <2>1. /\ FreesIn(mailbox) \in Nat
        /\ \/ /\ aborted' /\ received' = 0
              /\ Grows(mailbox, mailbox', New("free"))
              /\ FreesIn(mailbox') = FreesIn(mailbox) + received
           \/ ~aborted' /\ UNCHANGED <<mailbox, received>>
    BY <1>0, <1>7, EventsPost
  <2>2. UNCHANGED closed
    BY <1>7 DEF OnResult
  <2>. QED
    BY <2>1, <2>2 DEF UdpInv, Ordered, Has, Grows, New
<1>8. CASE OnMessage
  <2>1. /\ Grows(mailbox, mailbox', New("free")) /\ FreesIn(mailbox) \in Nat
        /\ FreesIn(mailbox') = FreesIn(mailbox) + 1
    BY <1>0, <1>8, EventsPost
  <2>. QED
    BY <1>0, <1>8, <2>1 DEF OnMessage, LeftAfterMessage, jsVars, lwipVars, UdpInv,
       Ordered, Has, Grows, Shrinks, New, Method
<1>9. CASE RunNew
  <2>1. Served("new")
    BY <1>0, <1>9, ServesOne DEF RunNew
  <2>. QED
    BY <1>0, <1>9, <2>1 DEF RunNew, jsVars, historyVars, Served, UdpInv, Ordered,
       Has, Grows, Shrinks, New, Method
<1>10. CASE RunBind
  <2>1. Served("bind")
    BY <1>0, <1>10, ServesOne DEF RunBind
  <2>. QED
    BY <1>0, <1>10, <2>1 DEF RunBind, ResultOf, jsVars, historyVars, Served, UdpInv,
       Ordered, Has, Grows, Shrinks, New, Method
<1>11. CASE RunSendOrConnect("send")
  <2>1. Served("send")
    BY <1>0, <1>11, ServesOne DEF RunSendOrConnect
  <2>. QED
    BY <1>0, <1>11, <2>1 DEF RunSendOrConnect, ResultOf, jsVars, historyVars,
       Served, UdpInv, Ordered, Has, Grows, Shrinks, New, Method
<1>12. CASE RunSendOrConnect("connect")
  <2>1. Served("connect")
    BY <1>0, <1>12, ServesOne DEF RunSendOrConnect
  <2>. QED
    BY <1>0, <1>12, <2>1 DEF RunSendOrConnect, ResultOf, jsVars, historyVars,
       Served, UdpInv, Ordered, Has, Grows, Shrinks, New, Method
<1>13. CASE RunDisconnect
  <2>1. Served("disconnect")
    BY <1>0, <1>13, ServesOne DEF RunDisconnect
  <2>. QED
    BY <1>0, <1>13, <2>1 DEF RunDisconnect, jsVars, historyVars, Served, UdpInv,
       Ordered, Has, Grows, Shrinks, New, Method
<1>14. CASE RunClose
  <2>1. Served("close")
    BY <1>0, <1>14, ServesOne DEF RunClose
  <2>. QED
    BY <1>0, <1>14, <2>1 DEF RunClose, ResultOf, jsVars, historyVars, Served,
       UdpInv, Ordered, Has, Grows, Shrinks, New, Method
<1>15. CASE RunFree
  <2>1. Served("free")
    BY <1>0, <1>15, ServesOne DEF RunFree
  <2>. QED
    BY <1>0, <1>15, <2>1 DEF RunFree, jsVars, historyVars, Served, UdpInv, Ordered,
       Has, Grows, Shrinks, New, Method
<1>16. CASE Datagram
  BY <1>0, <1>16 DEF Datagram, jsVars, UdpInv, Ordered, Has, Grows, Shrinks, New,
     Method
<1>17. CASE UNCHANGED vars
  BY <1>0, <1>17 DEF vars, jsVars, queueVars, lwipVars, historyVars, UdpInv,
     Ordered, Has, Grows, Shrinks, New, Method
<1>. QED
  BY <1>1, <1>2, <1>3, <1>4, <1>5, <1>6, <1>7, <1>8, <1>9, <1>10, <1>11, <1>12,
     <1>13, <1>14, <1>15, <1>16, <1>17 DEF Next, Tcpip, Quiescent

\* The pcb is there when it is used.
LEMMA PcbThereStep ==
  ASSUME UdpInv, ~early',
         Next \/ UNCHANGED vars
  PROVE  PcbThere'
<1>0. Types /\ Flags
  BY DEF UdpInv
<1>1. CASE Bind
  <2>1. /\ calls' \in 1..MaxCalls /\ Grows(mailbox, mailbox', New("bind"))
        /\ FreesIn(mailbox') = FreesIn(mailbox)
    BY <1>0, <1>1, MethodsPost
  <2>. QED
    BY <1>0, <1>1, <2>1 DEF Bind, Post, jsVars, lwipVars, UdpInv, Ordered, PcbThere,
       Has, Grows, Shrinks, New, Method, Types, Flags, Pcb
<1>2. CASE Send
  <2>1. /\ calls' \in 1..MaxCalls /\ Grows(mailbox, mailbox', New("send"))
        /\ FreesIn(mailbox') = FreesIn(mailbox)
    BY <1>0, <1>2, MethodsPost
  <2>. QED
    BY <1>0, <1>2, <2>1 DEF Send, Post, jsVars, lwipVars, UdpInv, Ordered, PcbThere,
       Has, Grows, Shrinks, New, Method, Types, Flags, Pcb
<1>3. CASE Connect
  <2>1. /\ calls' \in 1..MaxCalls /\ Grows(mailbox, mailbox', New("connect"))
        /\ FreesIn(mailbox') = FreesIn(mailbox)
    BY <1>0, <1>3, MethodsPost
  <2>. QED
    BY <1>0, <1>3, <2>1 DEF Connect, Post, jsVars, lwipVars, UdpInv, Ordered,
       PcbThere, Has, Grows, Shrinks, New, Method, Types, Flags, Pcb
<1>4. CASE Disconnect
  <2>1. /\ calls' \in 1..MaxCalls /\ Grows(mailbox, mailbox', New("disconnect"))
        /\ Has(mailbox', "disconnect")
        /\ FreesIn(mailbox') = FreesIn(mailbox)
    BY <1>0, <1>4, MethodsPost
  <2>2. PcbThere /\ Ordered /\ pcb = "live" /\ native = "live" /\ ~closed
    BY <1>0, <1>4 DEF Disconnect, Method, UdpInv, PcbThere, Types, Pcb
  <2>3. UNCHANGED <<closed, pcb, results, aborted, native, alive, late, reported>>
    BY <1>4 DEF Disconnect, lwipVars
  <2>20. (\A i \in DOMAIN mailbox :
             mailbox[i].op \in {"disconnect", "close"} =>
               mailbox[i].pcb = "live" /\ native = "live")'
    BY <2>1, <2>2, <2>3 DEF PcbThere, Has, Grows, New
  <2>21. (pcb = "live" => native = "live")'
    BY <2>1, <2>2, <2>3 DEF PcbThere, Has, Grows, New
  <2>22. (closed <=> pcb = "null")'
    BY <2>1, <2>2, <2>3 DEF PcbThere, Has, Grows, New
  <2>23. (Has(mailbox, "new") => pcb = "unset" /\ native = "none")'
    BY <2>1, <2>2, <2>3 DEF PcbThere, Has, Grows, New
  <2>24. (aborted \/ (\E r \in results : r.op = "close") => native = "removed")'
    BY <2>1, <2>2, <2>3 DEF PcbThere, Has, Grows, New
  <2>25. (reported => aborted)'
    BY <2>1, <2>2, <2>3 DEF PcbThere, Has, Grows, New
  <2>26. (~late => alive)'
    BY <2>1, <2>2, <2>3 DEF PcbThere, Has, Grows, New
  <2>. QED
    BY <2>20, <2>21, <2>22, <2>23, <2>24, <2>25, <2>26 DEF PcbThere
<1>5. CASE Close
  <2>1. /\ calls' \in 1..MaxCalls
        /\ \/ Grows(mailbox, mailbox', New("close")) /\ pcb' = "null"
              /\ UNCHANGED <<aborted, reported>>
           \/ pcb = "unset" /\ UNCHANGED <<pcb, mailbox, aborted>>
        /\ FreesIn(mailbox') = FreesIn(mailbox)
    BY <1>0, <1>5, MethodsPost
  <2>2. PcbThere /\ Ordered /\ pcb = "live" /\ native = "live" /\ ~closed
    BY <1>0, <1>5 DEF Close, Method, UdpInv, PcbThere, Types, Pcb
  <2>3. closed' /\ UNCHANGED <<results, native, alive, late>>
    BY <1>5 DEF Close, lwipVars
  <2>20. (\A i \in DOMAIN mailbox :
             mailbox[i].op \in {"disconnect", "close"} =>
               mailbox[i].pcb = "live" /\ native = "live")'
    BY <2>1, <2>2, <2>3 DEF PcbThere, Has, Grows, New
  <2>21. (pcb = "live" => native = "live")'
    BY <2>1, <2>2, <2>3 DEF PcbThere, Has, Grows, New
  <2>22. (closed <=> pcb = "null")'
    BY <2>1, <2>2, <2>3 DEF PcbThere, Has, Grows, New
  <2>23. (Has(mailbox, "new") => pcb = "unset" /\ native = "none")'
    BY <2>1, <2>2, <2>3 DEF PcbThere, Has, Grows, New
  <2>24. (aborted \/ (\E r \in results : r.op = "close") => native = "removed")'
    BY <2>1, <2>2, <2>3 DEF PcbThere, Has, Grows, New
  <2>25. (reported => aborted)'
    BY <2>1, <2>2, <2>3 DEF PcbThere, Has, Grows, New
  <2>26. (~late => alive)'
    BY <2>1, <2>2, <2>3 DEF PcbThere, Has, Grows, New
  <2>. QED
    BY <2>20, <2>21, <2>22, <2>23, <2>24, <2>25, <2>26 DEF PcbThere
<1>6. CASE \E value \in BOOLEAN : Ref(value)
  <2>1. PcbThere
    BY <1>6 DEF Ref, UdpInv
  <2>2. UNCHANGED <<closed, pcb, mailbox, results, aborted, native, reported>>
    BY <1>6 DEF Ref, jsVars, lwipVars
  <2>3. late' = (late \/ aborted) /\ alive /\ (~aborted => alive')
    BY <1>6 DEF Ref, SetHolds
  <2>. QED
    BY <2>1, <2>2, <2>3 DEF PcbThere
<1>7. CASE OnResult
  <2>1. /\ FreesIn(mailbox) \in Nat
        /\ \/ /\ aborted' /\ received' = 0
              /\ Grows(mailbox, mailbox', New("free"))
              /\ FreesIn(mailbox') = FreesIn(mailbox) + received
           \/ ~aborted' /\ UNCHANGED <<mailbox, received>>
    BY <1>0, <1>7, EventsPost
  <2>2. PICK got \in results :
          /\ results' = results \ {got}
          /\ bound' = (bound \/ EmitsListening(got))
          /\ listenings' = listenings + (IF EmitsListening(got) THEN 1 ELSE 0)
          /\ IF EmitsListening(got) /\ listenings = 0
               THEN SetHolds(TRUE) ELSE UNCHANGED <<holds, late, alive>>
          /\ connected' = (connected \/ (got.op = "connect" /\ got.ok))
          /\ reported' = (reported \/ got.op = "close")
          /\ aborted' = AbortsOnRecv(got)
    BY <1>7 DEF OnResult
  <2>3. alive /\ UNCHANGED <<use, closed, pcb, native, port, remote, calls, asked, early>>
    BY <1>7 DEF OnResult, lwipVars
  <2>4. PcbThere
    BY <2>3 DEF UdpInv
  <2>5. \/ late' = late /\ alive' = alive
        \/ (late' = (late \/ aborted) /\ (~aborted => alive'))
    BY <2>2 DEF SetHolds
  <2>6. /\ aborted' = (aborted \/ got.op = "close") /\ results' \subseteq results
        /\ reported' = (reported \/ got.op = "close")
    BY <2>2 DEF AbortsOnRecv
  <2>20. (\A i \in DOMAIN mailbox :
             mailbox[i].op \in {"disconnect", "close"} =>
               mailbox[i].pcb = "live" /\ native = "live")'
    BY <1>0, <2>1, <2>3, <2>4, <2>5, <2>6 DEF PcbThere, Has, Grows, New, Flags
  <2>21. (pcb = "live" => native = "live")'
    BY <1>0, <2>1, <2>3, <2>4, <2>5, <2>6 DEF PcbThere, Has, Grows, New, Flags
  <2>22. (closed <=> pcb = "null")'
    BY <1>0, <2>1, <2>3, <2>4, <2>5, <2>6 DEF PcbThere, Has, Grows, New, Flags
  <2>23. (Has(mailbox, "new") => pcb = "unset" /\ native = "none")'
    BY <1>0, <2>1, <2>3, <2>4, <2>5, <2>6 DEF PcbThere, Has, Grows, New, Flags
  <2>24. (aborted \/ (\E r \in results : r.op = "close") => native = "removed")'
    BY <1>0, <2>1, <2>3, <2>4, <2>5, <2>6 DEF PcbThere, Has, Grows, New, Flags
  <2>25. (reported => aborted)'
    BY <1>0, <2>1, <2>3, <2>4, <2>5, <2>6 DEF PcbThere, Has, Grows, New, Flags
  <2>26. (~late => alive)'
    BY <1>0, <2>1, <2>3, <2>4, <2>5, <2>6 DEF PcbThere, Has, Grows, New, Flags
  <2>. QED
    BY <2>20, <2>21, <2>22, <2>23, <2>24, <2>25, <2>26 DEF PcbThere
<1>8. CASE OnMessage
  <2>1. /\ Grows(mailbox, mailbox', New("free")) /\ FreesIn(mailbox) \in Nat
        /\ FreesIn(mailbox') = FreesIn(mailbox) + 1
    BY <1>0, <1>8, EventsPost
  <2>. QED
    BY <1>0, <1>8, <2>1 DEF OnMessage, LeftAfterMessage, jsVars, lwipVars, UdpInv,
       Ordered, PcbThere, Has, Grows, Shrinks, New, Method, Types, Flags, Pcb
<1>9. CASE RunNew
  <2>1. Served("new")
    BY <1>0, <1>9, ServesOne DEF RunNew
  <2>. QED
    BY <1>0, <1>9, <2>1 DEF RunNew, jsVars, historyVars, Served, UdpInv, Ordered,
       PcbThere, Has, Grows, Shrinks, New, Method, Types, Flags, Pcb
<1>10. CASE RunBind
  <2>1. Served("bind")
    BY <1>0, <1>10, ServesOne DEF RunBind
  <2>. QED
    BY <1>0, <1>10, <2>1 DEF RunBind, ResultOf, jsVars, historyVars, Served, UdpInv,
       Ordered, PcbThere, Has, Grows, Shrinks, New, Method, Types, Flags, Pcb
<1>11. CASE RunSendOrConnect("send")
  <2>1. Served("send")
    BY <1>0, <1>11, ServesOne DEF RunSendOrConnect
  <2>. QED
    BY <1>0, <1>11, <2>1 DEF RunSendOrConnect, ResultOf, jsVars, historyVars,
       Served, UdpInv, Ordered, PcbThere, Has, Grows, Shrinks, New, Method, Types,
       Flags, Pcb
<1>12. CASE RunSendOrConnect("connect")
  <2>1. Served("connect")
    BY <1>0, <1>12, ServesOne DEF RunSendOrConnect
  <2>. QED
    BY <1>0, <1>12, <2>1 DEF RunSendOrConnect, ResultOf, jsVars, historyVars,
       Served, UdpInv, Ordered, PcbThere, Has, Grows, Shrinks, New, Method, Types,
       Flags, Pcb
<1>13. CASE RunDisconnect
  <2>1. Served("disconnect")
    BY <1>0, <1>13, ServesOne DEF RunDisconnect
  <2>2. PcbThere
    BY <1>13 DEF RunDisconnect, UdpInv, historyVars
  <2>3. Head(mailbox).pcb = "live" /\ native = "live"
    BY <2>1, <2>2 DEF PcbThere, Served, Shrinks
  <2>4. alive' /\ UNCHANGED <<closed, pcb, results, aborted, native, late, reported>>
    BY <1>13, <2>3 DEF RunDisconnect, jsVars, historyVars
  <2>20. (\A i \in DOMAIN mailbox :
             mailbox[i].op \in {"disconnect", "close"} =>
               mailbox[i].pcb = "live" /\ native = "live")'
    BY <2>1, <2>2, <2>3, <2>4 DEF PcbThere, Has, Shrinks, Served
  <2>21. (pcb = "live" => native = "live")'
    BY <2>1, <2>2, <2>3, <2>4 DEF PcbThere, Has, Shrinks, Served
  <2>22. (closed <=> pcb = "null")'
    BY <2>1, <2>2, <2>3, <2>4 DEF PcbThere, Has, Shrinks, Served
  <2>23. (Has(mailbox, "new") => pcb = "unset" /\ native = "none")'
    BY <2>1, <2>2, <2>3, <2>4 DEF PcbThere, Has, Shrinks, Served
  <2>24. (aborted \/ (\E r \in results : r.op = "close") => native = "removed")'
    BY <2>1, <2>2, <2>3, <2>4 DEF PcbThere, Has, Shrinks, Served
  <2>25. (reported => aborted)'
    BY <2>1, <2>2, <2>3, <2>4 DEF PcbThere, Has, Shrinks, Served
  <2>26. (~late => alive)'
    BY <2>1, <2>2, <2>3, <2>4 DEF PcbThere, Has, Shrinks, Served
  <2>. QED
    BY <2>20, <2>21, <2>22, <2>23, <2>24, <2>25, <2>26 DEF PcbThere
<1>14. CASE RunClose
  <2>1. Served("close")
    BY <1>0, <1>14, ServesOne DEF RunClose
  <2>. QED
    BY <1>0, <1>14, <2>1 DEF RunClose, ResultOf, jsVars, historyVars, Served,
       UdpInv, Ordered, PcbThere, Has, Grows, Shrinks, New, Method, Types, Flags,
       Pcb
<1>15. CASE RunFree
  <2>1. Served("free")
    BY <1>0, <1>15, ServesOne DEF RunFree
  <2>2. PcbThere
    BY <1>15 DEF RunFree, UdpInv, historyVars
  <2>3. UNCHANGED <<closed, pcb, results, aborted, native, alive, late, reported>>
    BY <1>15 DEF RunFree, jsVars, historyVars
  <2>20. (\A i \in DOMAIN mailbox :
             mailbox[i].op \in {"disconnect", "close"} =>
               mailbox[i].pcb = "live" /\ native = "live")'
    BY <2>1, <2>2, <2>3 DEF PcbThere, Has, Served, Shrinks
  <2>21. (pcb = "live" => native = "live")'
    BY <2>1, <2>2, <2>3 DEF PcbThere, Has, Served, Shrinks
  <2>22. (closed <=> pcb = "null")'
    BY <2>1, <2>2, <2>3 DEF PcbThere, Has, Served, Shrinks
  <2>23. (Has(mailbox, "new") => pcb = "unset" /\ native = "none")'
    BY <2>1, <2>2, <2>3 DEF PcbThere, Has, Served, Shrinks
  <2>24. (aborted \/ (\E r \in results : r.op = "close") => native = "removed")'
    BY <2>1, <2>2, <2>3 DEF PcbThere, Has, Served, Shrinks
  <2>25. (reported => aborted)'
    BY <2>1, <2>2, <2>3 DEF PcbThere, Has, Served, Shrinks
  <2>26. (~late => alive)'
    BY <2>1, <2>2, <2>3 DEF PcbThere, Has, Served, Shrinks
  <2>. QED
    BY <2>20, <2>21, <2>22, <2>23, <2>24, <2>25, <2>26 DEF PcbThere
<1>16. CASE Datagram
  BY <1>0, <1>16 DEF Datagram, jsVars, UdpInv, Ordered, PcbThere, Has, Grows,
     Shrinks, New, Method, Types, Flags, Pcb
<1>17. CASE UNCHANGED vars
  BY <1>0, <1>17 DEF vars, jsVars, queueVars, lwipVars, historyVars, UdpInv,
     Ordered, PcbThere, Has, Grows, Shrinks, New, Method, Types, Flags, Pcb
<1>. QED
  BY <1>1, <1>2, <1>3, <1>4, <1>5, <1>6, <1>7, <1>8, <1>9, <1>10, <1>11, <1>12,
     <1>13, <1>14, <1>15, <1>16, <1>17 DEF Next, Tcpip, Quiescent

\* Whoever is told of a bind has a port.
LEMMA PortThereStep ==
  ASSUME UdpInv,
         Next \/ UNCHANGED vars
  PROVE  PortThere'
<1>0. Types /\ Flags
  BY DEF UdpInv
<1>1. CASE Bind
  <2>1. /\ calls' \in 1..MaxCalls /\ Grows(mailbox, mailbox', New("bind"))
        /\ FreesIn(mailbox') = FreesIn(mailbox)
    BY <1>0, <1>1, MethodsPost
  <2>. QED
    BY <1>0, <1>1, <2>1 DEF Bind, Post, jsVars, lwipVars, UdpInv, PortThere, Types,
       Flags
<1>2. CASE Send
  <2>1. /\ calls' \in 1..MaxCalls /\ Grows(mailbox, mailbox', New("send"))
        /\ FreesIn(mailbox') = FreesIn(mailbox)
    BY <1>0, <1>2, MethodsPost
  <2>. QED
    BY <1>0, <1>2, <2>1 DEF Send, Post, jsVars, lwipVars, UdpInv, PortThere, Types,
       Flags
<1>3. CASE Connect
  <2>1. /\ calls' \in 1..MaxCalls /\ Grows(mailbox, mailbox', New("connect"))
        /\ FreesIn(mailbox') = FreesIn(mailbox)
    BY <1>0, <1>3, MethodsPost
  <2>. QED
    BY <1>0, <1>3, <2>1 DEF Connect, Post, jsVars, lwipVars, UdpInv, PortThere,
       Types, Flags
<1>4. CASE Disconnect
  <2>1. /\ calls' \in 1..MaxCalls /\ Grows(mailbox, mailbox', New("disconnect"))
        /\ Has(mailbox', "disconnect")
        /\ FreesIn(mailbox') = FreesIn(mailbox)
    BY <1>0, <1>4, MethodsPost
  <2>. QED
    BY <1>0, <1>4, <2>1 DEF Disconnect, ConnectedAfterDisconnect, lwipVars, UdpInv,
       PortThere, Types, Flags
<1>5. CASE Close
  <2>1. /\ calls' \in 1..MaxCalls
        /\ \/ Grows(mailbox, mailbox', New("close")) /\ pcb' = "null"
              /\ UNCHANGED <<aborted, reported>>
           \/ pcb = "unset" /\ UNCHANGED <<pcb, mailbox, aborted>>
        /\ FreesIn(mailbox') = FreesIn(mailbox)
    BY <1>0, <1>5, MethodsPost
  <2>. QED
    BY <1>0, <1>5, <2>1 DEF Close, AbortedByClose, lwipVars, UdpInv, PortThere,
       Types, Flags
<1>6. CASE \E value \in BOOLEAN : Ref(value)
  BY <1>0, <1>6 DEF Ref, SetHolds, jsVars, lwipVars, UdpInv, PortThere, Types, Flags
<1>7. CASE OnResult
  <2>1. /\ FreesIn(mailbox) \in Nat
        /\ \/ /\ aborted' /\ received' = 0
              /\ Grows(mailbox, mailbox', New("free"))
              /\ FreesIn(mailbox') = FreesIn(mailbox) + received
           \/ ~aborted' /\ UNCHANGED <<mailbox, received>>
    BY <1>0, <1>7, EventsPost
  <2>2. PICK got \in results :
          /\ results' = results \ {got}
          /\ bound' = (bound \/ EmitsListening(got))
          /\ listenings' = listenings + (IF EmitsListening(got) THEN 1 ELSE 0)
          /\ IF EmitsListening(got) /\ listenings = 0
               THEN SetHolds(TRUE) ELSE UNCHANGED <<holds, late, alive>>
          /\ connected' = (connected \/ (got.op = "connect" /\ got.ok))
          /\ reported' = (reported \/ got.op = "close")
          /\ aborted' = AbortsOnRecv(got)
    BY <1>7 DEF OnResult
  <2>3. alive /\ UNCHANGED <<use, closed, pcb, native, port, remote, calls, asked, early>>
    BY <1>7 DEF OnResult, lwipVars
  <2>4. EmitsListening(got) => got.ok /\ got.op \in {"bind", "send"}
    BY DEF EmitsListening, SendBinds
  <2>5. PortThere
    BY DEF UdpInv
  <2>6. /\ EmitsListening(got) \in BOOLEAN /\ listenings \in Nat
        /\ EmitsListening(got) /\ listenings = 0 => holds'
        /\ ~(EmitsListening(got) /\ listenings = 0) => holds' = holds
    BY <1>0, <2>2 DEF EmitsListening, SendBinds, SetHolds, Types
  <2>20. (\A r \in results :
             r.ok /\ r.op \in {"bind", "send"} => port # 0 /\ (~closed => pcb = "live"))'
    BY <1>0, <2>2, <2>3, <2>4, <2>5, <2>6 DEF PortThere, Flags
  <2>21. (bound => port # 0 /\ (~closed => pcb = "live"))'
    BY <1>0, <2>2, <2>3, <2>4, <2>5, <2>6 DEF PortThere, Flags
  <2>22. (listenings > 0 <=> bound)'
    BY <1>0, <2>2, <2>3, <2>4, <2>5, <2>6 DEF PortThere, Flags
  <2>23. (~asked => (holds <=> bound))'
    BY <1>0, <2>2, <2>3, <2>4, <2>5, <2>6 DEF PortThere, Flags
  <2>. QED
    BY <2>20, <2>21, <2>22, <2>23 DEF PortThere
<1>8. CASE OnMessage
  <2>1. /\ Grows(mailbox, mailbox', New("free")) /\ FreesIn(mailbox) \in Nat
        /\ FreesIn(mailbox') = FreesIn(mailbox) + 1
    BY <1>0, <1>8, EventsPost
  <2>. QED
    BY <1>0, <1>8, <2>1 DEF OnMessage, LeftAfterMessage, jsVars, lwipVars, UdpInv,
       PortThere, Types, Flags
<1>9. CASE RunNew
  <2>1. Served("new")
    BY <1>0, <1>9, ServesOne DEF RunNew
  <2>. QED
    BY <1>0, <1>9, <2>1 DEF RunNew, jsVars, historyVars, Served, UdpInv, PortThere,
       Types, Flags
<1>10. CASE RunBind
  <2>1. Served("bind")
    BY <1>0, <1>10, ServesOne DEF RunBind
  <2>2. PICK ok \in BOOLEAN :
          /\ ok => pcb = "live"
          /\ port' = IF ok THEN port + 1 ELSE port
          /\ results' = ResultOf(Head(mailbox), ok)
    BY <1>10 DEF RunBind
  <2>3. /\ ok => pcb = "live" /\ port' # 0
        /\ port # 0 => port' # 0
    BY <1>0, <2>2 DEF Types
  <2>4. results' = results \cup {[op |-> "bind", ok |-> ok, n |-> Head(mailbox).n]}
    BY <2>1, <2>2 DEF ResultOf, Served
  <2>5. UNCHANGED <<use, bound, closed, connected, pcb, holds, listenings, asked, early>>
    BY <1>10 DEF RunBind, jsVars, historyVars
  <2>6. PortThere /\ (~closed /\ bound => pcb = "live")
    BY DEF UdpInv, PortThere
  <2>20. (\A r \in results :
             r.ok /\ r.op \in {"bind", "send"} => port # 0 /\ (~closed => pcb = "live"))'
    BY <2>3, <2>4, <2>5, <2>6 DEF PortThere
  <2>21. (bound => port # 0 /\ (~closed => pcb = "live"))'
    BY <2>3, <2>4, <2>5, <2>6 DEF PortThere
  <2>22. (listenings > 0 <=> bound)'
    BY <2>3, <2>4, <2>5, <2>6 DEF PortThere
  <2>23. (~asked => (holds <=> bound))'
    BY <2>3, <2>4, <2>5, <2>6 DEF PortThere
  <2>. QED
    BY <2>20, <2>21, <2>22, <2>23 DEF PortThere
<1>11. CASE RunSendOrConnect("send")
  <2>1. Served("send")
    BY <1>0, <1>11, ServesOne DEF RunSendOrConnect
  <2>2. PICK ok \in BOOLEAN :
          /\ ok => pcb = "live"
          /\ \/ ok /\ port' = IF port = 0 THEN 1 ELSE port
             \/ ~ok /\ port' \in IF pcb = "live" /\ port = 0 /\ "send" = "send" 
               THEN {0, 1} ELSE {port}
          /\ remote' = (remote \/ ("send" = "connect" /\ ok))
          /\ results' = ResultOf(Head(mailbox), ok)
    BY <1>11 DEF RunSendOrConnect
  <2>3. /\ ok => pcb = "live" /\ port' # 0
        /\ port # 0 => port' # 0
    BY <1>0, <2>2 DEF Types
  <2>4. results' = results \cup {[op |-> "send", ok |-> ok, n |-> Head(mailbox).n]}
    BY <2>1, <2>2 DEF ResultOf, Served
  <2>5. UNCHANGED <<use, bound, closed, connected, pcb, holds, listenings, asked, early>>
    BY <1>11 DEF RunSendOrConnect, jsVars, historyVars
  <2>6. PortThere /\ (~closed /\ bound => pcb = "live")
    BY DEF UdpInv, PortThere
  <2>20. (\A r \in results :
             r.ok /\ r.op \in {"bind", "send"} => port # 0 /\ (~closed => pcb = "live"))'
    BY <2>3, <2>4, <2>5, <2>6 DEF PortThere
  <2>21. (bound => port # 0 /\ (~closed => pcb = "live"))'
    BY <2>3, <2>4, <2>5, <2>6 DEF PortThere
  <2>22. (listenings > 0 <=> bound)'
    BY <2>3, <2>4, <2>5, <2>6 DEF PortThere
  <2>23. (~asked => (holds <=> bound))'
    BY <2>3, <2>4, <2>5, <2>6 DEF PortThere
  <2>. QED
    BY <2>20, <2>21, <2>22, <2>23 DEF PortThere
<1>12. CASE RunSendOrConnect("connect")
  <2>1. Served("connect")
    BY <1>0, <1>12, ServesOne DEF RunSendOrConnect
  <2>. QED
    BY <1>0, <1>12, <2>1 DEF RunSendOrConnect, ResultOf, jsVars, historyVars,
       Served, UdpInv, PortThere, Types, Flags
<1>13. CASE RunDisconnect
  <2>1. Served("disconnect")
    BY <1>0, <1>13, ServesOne DEF RunDisconnect
  <2>. QED
    BY <1>0, <1>13, <2>1 DEF RunDisconnect, jsVars, historyVars, Served, UdpInv,
       PortThere, Types, Flags
<1>14. CASE RunClose
  <2>1. Served("close")
    BY <1>0, <1>14, ServesOne DEF RunClose
  <2>. QED
    BY <1>0, <1>14, <2>1 DEF RunClose, ResultOf, jsVars, historyVars, Served,
       UdpInv, PortThere, Types, Flags
<1>15. CASE RunFree
  <2>1. Served("free")
    BY <1>0, <1>15, ServesOne DEF RunFree
  <2>. QED
    BY <1>0, <1>15, <2>1 DEF RunFree, jsVars, historyVars, Served, UdpInv,
       PortThere, Types, Flags
<1>16. CASE Datagram
  BY <1>0, <1>16 DEF Datagram, jsVars, UdpInv, PortThere, Types, Flags
<1>17. CASE UNCHANGED vars
  BY <1>0, <1>17 DEF vars, jsVars, queueVars, lwipVars, historyVars, UdpInv,
     PortThere, Types, Flags
<1>. QED
  BY <1>1, <1>2, <1>3, <1>4, <1>5, <1>6, <1>7, <1>8, <1>9, <1>10, <1>11, <1>12,
     <1>13, <1>14, <1>15, <1>16, <1>17 DEF Next, Tcpip, Quiescent

\* A patient application has one bind under way.
LEMMA BindsOnceStep ==
  ASSUME UdpInv, Patient,
         Next \/ UNCHANGED vars
  PROVE  BindsOnce'
<1>0. Types /\ Flags
  BY DEF UdpInv
<1>1. CASE Bind
  <2>1. /\ calls' \in 1..MaxCalls /\ Grows(mailbox, mailbox', New("bind"))
        /\ FreesIn(mailbox') = FreesIn(mailbox)
    BY <1>0, <1>1, MethodsPost
  <2>. QED
    BY <1>0, <1>1, <2>1 DEF Bind, Post, jsVars, lwipVars, UdpInv, PcbThere,
       PortThere, BindsOnce, Pending, Asynchronous, Has, Grows, Shrinks, New, Types,
       Flags, Pcb, Patient, MayBind
<1>2. CASE Send
  <2>1. /\ calls' \in 1..MaxCalls /\ Grows(mailbox, mailbox', New("send"))
        /\ FreesIn(mailbox') = FreesIn(mailbox)
    BY <1>0, <1>2, MethodsPost
  <2>. QED
    BY <1>0, <1>2, <2>1 DEF Send, Post, jsVars, lwipVars, UdpInv, PcbThere,
       PortThere, BindsOnce, Pending, Asynchronous, Has, Grows, Shrinks, New, Types,
       Flags, Pcb, Patient, MayBind
<1>3. CASE Connect
  <2>1. /\ calls' \in 1..MaxCalls /\ Grows(mailbox, mailbox', New("connect"))
        /\ FreesIn(mailbox') = FreesIn(mailbox)
    BY <1>0, <1>3, MethodsPost
  <2>. QED
    BY <1>0, <1>3, <2>1 DEF Connect, Post, jsVars, lwipVars, UdpInv, PcbThere,
       PortThere, BindsOnce, Pending, Asynchronous, Has, Grows, Shrinks, New, Types,
       Flags, Pcb, Patient, MayBind
<1>4. CASE Disconnect
  <2>1. /\ calls' \in 1..MaxCalls /\ Grows(mailbox, mailbox', New("disconnect"))
        /\ Has(mailbox', "disconnect")
        /\ FreesIn(mailbox') = FreesIn(mailbox)
    BY <1>0, <1>4, MethodsPost
  <2>2. BindsOnce
    BY DEF UdpInv
  <2>3. UNCHANGED <<bound, listenings, results>>
    BY <1>4 DEF Disconnect
  <2>4. ~early'
    BY <1>4, <2>2 DEF Disconnect, Patient, BindsOnce
  <2>20. (~early)'
    BY <2>1, <2>2, <2>3, <2>4 DEF BindsOnce, Has, Grows, New
  <2>21. (listenings <= 1)'
    BY <2>1, <2>2, <2>3, <2>4 DEF BindsOnce, Has, Grows, New
  <2>22. (\A i, j \in DOMAIN mailbox :
             mailbox[i].op = "bind" /\ mailbox[j].op \in {"bind", "send"} => i = j)'
    BY <2>1, <2>2, <2>3, <2>4 DEF BindsOnce, Has, Grows, New
  <2>23. (Has(mailbox, "bind") =>
             ~bound /\ \A r \in results : r.op \notin {"bind", "send"})'
    BY <2>1, <2>2, <2>3, <2>4 DEF BindsOnce, Has, Grows, New
  <2>24. (\A r \in results : r.op = "bind" =>
             /\ ~bound /\ ~Has(mailbox, "bind") /\ ~Has(mailbox, "send")
             /\ \A s \in results : s.op \in {"bind", "send"} => s = r)'
    BY <2>1, <2>2, <2>3, <2>4 DEF BindsOnce, Has, Grows, New
  <2>. QED
    BY <2>20, <2>21, <2>22, <2>23, <2>24 DEF BindsOnce
<1>5. CASE Close
  <2>1. /\ calls' \in 1..MaxCalls
        /\ \/ Grows(mailbox, mailbox', New("close")) /\ pcb' = "null"
              /\ UNCHANGED <<aborted, reported>>
           \/ pcb = "unset" /\ UNCHANGED <<pcb, mailbox, aborted>>
        /\ FreesIn(mailbox') = FreesIn(mailbox)
    BY <1>0, <1>5, MethodsPost
  <2>2. BindsOnce /\ ConnectsOnce
    BY DEF UdpInv
  <2>3. UNCHANGED <<bound, connected, listenings>>
    BY <1>5 DEF Close, jsVars, historyVars
  <2>4. ~early' /\ UNCHANGED results
    BY <1>5, <2>2 DEF Close, BindsOnce, Patient
  <2>20. (~early)'
    BY <2>1, <2>2, <2>3, <2>4 DEF BindsOnce, Has, Grows, Shrinks, New, Served
  <2>21. (listenings <= 1)'
    BY <2>1, <2>2, <2>3, <2>4 DEF BindsOnce, Has, Grows, Shrinks, New, Served
  <2>22. (\A i, j \in DOMAIN mailbox :
             mailbox[i].op = "bind" /\ mailbox[j].op \in {"bind", "send"} => i = j)'
    BY <2>1, <2>2, <2>3, <2>4 DEF BindsOnce, Has, Grows, Shrinks, New, Served
  <2>23. (Has(mailbox, "bind") =>
             ~bound /\ \A r \in results : r.op \notin {"bind", "send"})'
    BY <2>1, <2>2, <2>3, <2>4 DEF BindsOnce, Has, Grows, Shrinks, New, Served
  <2>24. (\A r \in results : r.op = "bind" =>
             /\ ~bound /\ ~Has(mailbox, "bind") /\ ~Has(mailbox, "send")
             /\ \A s \in results : s.op \in {"bind", "send"} => s = r)'
    BY <2>1, <2>2, <2>3, <2>4 DEF BindsOnce, Has, Grows, Shrinks, New, Served
  <2>. QED
    BY <2>20, <2>21, <2>22, <2>23, <2>24 DEF BindsOnce
<1>6. CASE \E value \in BOOLEAN : Ref(value)
  BY <1>0, <1>6 DEF Ref, SetHolds, jsVars, lwipVars, UdpInv, PcbThere, PortThere,
     BindsOnce, Pending, Asynchronous, Has, Grows, Shrinks, New, Types, Flags, Pcb,
     Patient, MayBind
<1>7. CASE OnResult
  <2>1. /\ FreesIn(mailbox) \in Nat
        /\ \/ /\ aborted' /\ received' = 0
              /\ Grows(mailbox, mailbox', New("free"))
              /\ FreesIn(mailbox') = FreesIn(mailbox) + received
           \/ ~aborted' /\ UNCHANGED <<mailbox, received>>
    BY <1>0, <1>7, EventsPost
  <2>2. PICK got \in results :
          /\ results' = results \ {got}
          /\ bound' = (bound \/ EmitsListening(got))
          /\ listenings' = listenings + (IF EmitsListening(got) THEN 1 ELSE 0)
          /\ IF EmitsListening(got) /\ listenings = 0
               THEN SetHolds(TRUE) ELSE UNCHANGED <<holds, late, alive>>
          /\ connected' = (connected \/ (got.op = "connect" /\ got.ok))
          /\ reported' = (reported \/ got.op = "close")
          /\ aborted' = AbortsOnRecv(got)
    BY <1>7 DEF OnResult
  <2>3. alive /\ UNCHANGED <<use, closed, pcb, native, port, remote, calls, asked, early>>
    BY <1>7 DEF OnResult, lwipVars
  <2>4. EmitsListening(got) => got.ok /\ got.op \in {"bind", "send"}
    BY DEF EmitsListening, SendBinds
  <2>5. PortThere
    BY DEF UdpInv
  <2>6. /\ EmitsListening(got) \in BOOLEAN /\ listenings \in Nat
        /\ EmitsListening(got) /\ listenings = 0 => holds'
        /\ ~(EmitsListening(got) /\ listenings = 0) => holds' = holds
    BY <1>0, <2>2 DEF EmitsListening, SendBinds, SetHolds, Types
  <2>7. BindsOnce
    BY DEF UdpInv
  <2>8. Grows(mailbox, mailbox', New("free")) \/ UNCHANGED mailbox
    BY <2>1
  <2>9. EmitsListening(got) => ~bound
    BY <2>2, <2>7 DEF EmitsListening, SendBinds, BindsOnce
  <2>20. (~early)'
    BY <2>3, <2>7 DEF BindsOnce
  <2>21. (listenings <= 1)'
    BY <2>2, <2>5, <2>6, <2>7, <2>9 DEF BindsOnce, PortThere, Flags
  <2>22. (\A i, j \in DOMAIN mailbox :
             mailbox[i].op = "bind" /\ mailbox[j].op \in {"bind", "send"} => i = j)'
    BY <2>7, <2>8 DEF BindsOnce, Grows, New
  <2>23. (Has(mailbox, "bind") =>
             ~bound /\ \A r \in results : r.op \notin {"bind", "send"})'
    BY <2>2, <2>4, <2>7, <2>8 DEF BindsOnce, Has, Grows, New
  <2>24. (\A r \in results : r.op = "bind" =>
             /\ ~bound /\ ~Has(mailbox, "bind") /\ ~Has(mailbox, "send")
             /\ \A s \in results : s.op \in {"bind", "send"} => s = r)'
    BY <2>2, <2>4, <2>7, <2>8 DEF BindsOnce, Has, Grows, New
  <2>. QED
    BY <2>20, <2>21, <2>22, <2>23, <2>24 DEF BindsOnce
<1>8. CASE OnMessage
  <2>1. /\ Grows(mailbox, mailbox', New("free")) /\ FreesIn(mailbox) \in Nat
        /\ FreesIn(mailbox') = FreesIn(mailbox) + 1
    BY <1>0, <1>8, EventsPost
  <2>2. BindsOnce /\ ConnectsOnce
    BY DEF UdpInv
  <2>3. UNCHANGED <<bound, connected, listenings>>
    BY <1>8 DEF OnMessage, jsVars
  <2>4. UNCHANGED <<results, remote, early>>
    BY <1>8 DEF OnMessage, lwipVars, historyVars
  <2>20. (~early)'
    BY <2>1, <2>2, <2>3, <2>4 DEF BindsOnce, Has, Grows, Shrinks, New, Served
  <2>21. (listenings <= 1)'
    BY <2>1, <2>2, <2>3, <2>4 DEF BindsOnce, Has, Grows, Shrinks, New, Served
  <2>22. (\A i, j \in DOMAIN mailbox :
             mailbox[i].op = "bind" /\ mailbox[j].op \in {"bind", "send"} => i = j)'
    BY <2>1, <2>2, <2>3, <2>4 DEF BindsOnce, Has, Grows, Shrinks, New, Served
  <2>23. (Has(mailbox, "bind") =>
             ~bound /\ \A r \in results : r.op \notin {"bind", "send"})'
    BY <2>1, <2>2, <2>3, <2>4 DEF BindsOnce, Has, Grows, Shrinks, New, Served
  <2>24. (\A r \in results : r.op = "bind" =>
             /\ ~bound /\ ~Has(mailbox, "bind") /\ ~Has(mailbox, "send")
             /\ \A s \in results : s.op \in {"bind", "send"} => s = r)'
    BY <2>1, <2>2, <2>3, <2>4 DEF BindsOnce, Has, Grows, Shrinks, New, Served
  <2>. QED
    BY <2>20, <2>21, <2>22, <2>23, <2>24 DEF BindsOnce
<1>9. CASE RunNew
  <2>1. Served("new")
    BY <1>0, <1>9, ServesOne DEF RunNew
  <2>2. BindsOnce /\ ConnectsOnce
    BY DEF UdpInv
  <2>3. UNCHANGED <<bound, connected, listenings>>
    BY <1>9 DEF RunNew, jsVars, historyVars
  <2>4. UNCHANGED <<results, remote, early>>
    BY <1>9 DEF RunNew, lwipVars, historyVars
  <2>20. (~early)'
    BY <2>1, <2>2, <2>3, <2>4 DEF BindsOnce, Has, Grows, Shrinks, New, Served
  <2>21. (listenings <= 1)'
    BY <2>1, <2>2, <2>3, <2>4 DEF BindsOnce, Has, Grows, Shrinks, New, Served
  <2>22. (\A i, j \in DOMAIN mailbox :
             mailbox[i].op = "bind" /\ mailbox[j].op \in {"bind", "send"} => i = j)'
    BY <2>1, <2>2, <2>3, <2>4 DEF BindsOnce, Has, Grows, Shrinks, New, Served
  <2>23. (Has(mailbox, "bind") =>
             ~bound /\ \A r \in results : r.op \notin {"bind", "send"})'
    BY <2>1, <2>2, <2>3, <2>4 DEF BindsOnce, Has, Grows, Shrinks, New, Served
  <2>24. (\A r \in results : r.op = "bind" =>
             /\ ~bound /\ ~Has(mailbox, "bind") /\ ~Has(mailbox, "send")
             /\ \A s \in results : s.op \in {"bind", "send"} => s = r)'
    BY <2>1, <2>2, <2>3, <2>4 DEF BindsOnce, Has, Grows, Shrinks, New, Served
  <2>. QED
    BY <2>20, <2>21, <2>22, <2>23, <2>24 DEF BindsOnce
<1>10. CASE RunBind
  <2>1. Served("bind")
    BY <1>0, <1>10, ServesOne DEF RunBind
  <2>2. PICK ok \in BOOLEAN :
          /\ ok => pcb = "live"
          /\ port' = IF ok THEN port + 1 ELSE port
          /\ results' = ResultOf(Head(mailbox), ok)
    BY <1>10 DEF RunBind
  <2>3. /\ ok => pcb = "live" /\ port' # 0
        /\ port # 0 => port' # 0
    BY <1>0, <2>2 DEF Types
  <2>4. results' = results \cup {[op |-> "bind", ok |-> ok, n |-> Head(mailbox).n]}
    BY <2>1, <2>2 DEF ResultOf, Served
  <2>5. UNCHANGED <<use, bound, closed, connected, pcb, holds, listenings, asked, early>>
    BY <1>10 DEF RunBind, jsVars, historyVars
  <2>6. BindsOnce /\ UNCHANGED <<early, listenings, bound>>
    BY <2>5 DEF UdpInv
  <2>20. (~early)'
    BY <2>1, <2>4, <2>6 DEF BindsOnce, Has, Shrinks, Served
  <2>21. (listenings <= 1)'
    BY <2>1, <2>4, <2>6 DEF BindsOnce, Has, Shrinks, Served
  <2>22. (\A i, j \in DOMAIN mailbox :
             mailbox[i].op = "bind" /\ mailbox[j].op \in {"bind", "send"} => i = j)'
    BY <2>1, <2>4, <2>6 DEF BindsOnce, Has, Shrinks, Served
  <2>23. (Has(mailbox, "bind") =>
             ~bound /\ \A r \in results : r.op \notin {"bind", "send"})'
    BY <2>1, <2>4, <2>6 DEF BindsOnce, Has, Shrinks, Served
  <2>24. (\A r \in results : r.op = "bind" =>
             /\ ~bound /\ ~Has(mailbox, "bind") /\ ~Has(mailbox, "send")
             /\ \A s \in results : s.op \in {"bind", "send"} => s = r)'
    BY <2>1, <2>4, <2>6 DEF BindsOnce, Has, Shrinks, Served
  <2>. QED
    BY <2>20, <2>21, <2>22, <2>23, <2>24 DEF BindsOnce
<1>11. CASE RunSendOrConnect("send")
  <2>1. Served("send")
    BY <1>0, <1>11, ServesOne DEF RunSendOrConnect
  <2>2. PICK ok \in BOOLEAN :
          /\ ok => pcb = "live"
          /\ \/ ok /\ port' = IF port = 0 THEN 1 ELSE port
             \/ ~ok /\ port' \in IF pcb = "live" /\ port = 0 /\ "send" = "send" 
               THEN {0, 1} ELSE {port}
          /\ remote' = (remote \/ ("send" = "connect" /\ ok))
          /\ results' = ResultOf(Head(mailbox), ok)
    BY <1>11 DEF RunSendOrConnect
  <2>3. /\ ok => pcb = "live" /\ port' # 0
        /\ port # 0 => port' # 0
    BY <1>0, <2>2 DEF Types
  <2>4. results' = results \cup {[op |-> "send", ok |-> ok, n |-> Head(mailbox).n]}
    BY <2>1, <2>2 DEF ResultOf, Served
  <2>5. UNCHANGED <<use, bound, closed, connected, pcb, holds, listenings, asked, early>>
    BY <1>11 DEF RunSendOrConnect, jsVars, historyVars
  <2>6. BindsOnce /\ UNCHANGED <<early, listenings, bound>>
    BY <2>5 DEF UdpInv
  <2>20. (~early)'
    BY <2>1, <2>4, <2>6 DEF BindsOnce, Has, Shrinks, Served
  <2>21. (listenings <= 1)'
    BY <2>1, <2>4, <2>6 DEF BindsOnce, Has, Shrinks, Served
  <2>22. (\A i, j \in DOMAIN mailbox :
             mailbox[i].op = "bind" /\ mailbox[j].op \in {"bind", "send"} => i = j)'
    BY <2>1, <2>4, <2>6 DEF BindsOnce, Has, Shrinks, Served
  <2>23. (Has(mailbox, "bind") =>
             ~bound /\ \A r \in results : r.op \notin {"bind", "send"})'
    BY <2>1, <2>4, <2>6 DEF BindsOnce, Has, Shrinks, Served
  <2>24. (\A r \in results : r.op = "bind" =>
             /\ ~bound /\ ~Has(mailbox, "bind") /\ ~Has(mailbox, "send")
             /\ \A s \in results : s.op \in {"bind", "send"} => s = r)'
    BY <2>1, <2>4, <2>6 DEF BindsOnce, Has, Shrinks, Served
  <2>. QED
    BY <2>20, <2>21, <2>22, <2>23, <2>24 DEF BindsOnce
<1>12. CASE RunSendOrConnect("connect")
  <2>1. Served("connect")
    BY <1>0, <1>12, ServesOne DEF RunSendOrConnect
  <2>2. PICK ok \in BOOLEAN :
          /\ ok => pcb = "live"
          /\ \/ ok /\ port' = IF port = 0 THEN 1 ELSE port
             \/ ~ok /\ port' \in IF pcb = "live" /\ port = 0 /\ "connect" = "send" 
               THEN {0, 1} ELSE {port}
          /\ remote' = (remote \/ ("connect" = "connect" /\ ok))
          /\ results' = ResultOf(Head(mailbox), ok)
    BY <1>12 DEF RunSendOrConnect
  <2>3. /\ ok => pcb = "live" /\ port' # 0
        /\ port # 0 => port' # 0
    BY <1>0, <2>2 DEF Types
  <2>4. results' = results \cup {[op |-> "connect", ok |-> ok, n |-> Head(mailbox).n]}
    BY <2>1, <2>2 DEF ResultOf, Served
  <2>5. UNCHANGED <<use, bound, closed, connected, pcb, holds, listenings, asked, early>>
    BY <1>12 DEF RunSendOrConnect, jsVars, historyVars
  <2>6. BindsOnce /\ UNCHANGED <<early, listenings, bound>>
    BY <2>5 DEF UdpInv
  <2>20. (~early)'
    BY <2>1, <2>4, <2>6 DEF BindsOnce, Has, Shrinks, Served
  <2>21. (listenings <= 1)'
    BY <2>1, <2>4, <2>6 DEF BindsOnce, Has, Shrinks, Served
  <2>22. (\A i, j \in DOMAIN mailbox :
             mailbox[i].op = "bind" /\ mailbox[j].op \in {"bind", "send"} => i = j)'
    BY <2>1, <2>4, <2>6 DEF BindsOnce, Has, Shrinks, Served
  <2>23. (Has(mailbox, "bind") =>
             ~bound /\ \A r \in results : r.op \notin {"bind", "send"})'
    BY <2>1, <2>4, <2>6 DEF BindsOnce, Has, Shrinks, Served
  <2>24. (\A r \in results : r.op = "bind" =>
             /\ ~bound /\ ~Has(mailbox, "bind") /\ ~Has(mailbox, "send")
             /\ \A s \in results : s.op \in {"bind", "send"} => s = r)'
    BY <2>1, <2>4, <2>6 DEF BindsOnce, Has, Shrinks, Served
  <2>. QED
    BY <2>20, <2>21, <2>22, <2>23, <2>24 DEF BindsOnce
<1>13. CASE RunDisconnect
  <2>1. Served("disconnect")
    BY <1>0, <1>13, ServesOne DEF RunDisconnect
  <2>2. BindsOnce /\ ConnectsOnce
    BY DEF UdpInv
  <2>3. UNCHANGED <<bound, connected, listenings>>
    BY <1>13 DEF RunDisconnect, jsVars, historyVars
  <2>4. UNCHANGED <<results, early>>
    BY <1>13 DEF RunDisconnect, historyVars
  <2>20. (~early)'
    BY <2>1, <2>2, <2>3, <2>4 DEF BindsOnce, Has, Grows, Shrinks, New, Served
  <2>21. (listenings <= 1)'
    BY <2>1, <2>2, <2>3, <2>4 DEF BindsOnce, Has, Grows, Shrinks, New, Served
  <2>22. (\A i, j \in DOMAIN mailbox :
             mailbox[i].op = "bind" /\ mailbox[j].op \in {"bind", "send"} => i = j)'
    BY <2>1, <2>2, <2>3, <2>4 DEF BindsOnce, Has, Grows, Shrinks, New, Served
  <2>23. (Has(mailbox, "bind") =>
             ~bound /\ \A r \in results : r.op \notin {"bind", "send"})'
    BY <2>1, <2>2, <2>3, <2>4 DEF BindsOnce, Has, Grows, Shrinks, New, Served
  <2>24. (\A r \in results : r.op = "bind" =>
             /\ ~bound /\ ~Has(mailbox, "bind") /\ ~Has(mailbox, "send")
             /\ \A s \in results : s.op \in {"bind", "send"} => s = r)'
    BY <2>1, <2>2, <2>3, <2>4 DEF BindsOnce, Has, Grows, Shrinks, New, Served
  <2>. QED
    BY <2>20, <2>21, <2>22, <2>23, <2>24 DEF BindsOnce
<1>14. CASE RunClose
  <2>1. Served("close")
    BY <1>0, <1>14, ServesOne DEF RunClose
  <2>2. BindsOnce /\ ConnectsOnce
    BY DEF UdpInv
  <2>3. UNCHANGED <<bound, connected, listenings>>
    BY <1>14 DEF RunClose, jsVars, historyVars
  <2>4. /\ results' = results \cup {[op |-> "close", ok |-> TRUE, n |-> Head(mailbox).n]}
        /\ UNCHANGED <<remote, early>>
    BY <1>14, <2>1 DEF RunClose, ResultOf, Served, historyVars
  <2>20. (~early)'
    BY <2>1, <2>2, <2>3, <2>4 DEF BindsOnce, Has, Grows, Shrinks, New, Served
  <2>21. (listenings <= 1)'
    BY <2>1, <2>2, <2>3, <2>4 DEF BindsOnce, Has, Grows, Shrinks, New, Served
  <2>22. (\A i, j \in DOMAIN mailbox :
             mailbox[i].op = "bind" /\ mailbox[j].op \in {"bind", "send"} => i = j)'
    BY <2>1, <2>2, <2>3, <2>4 DEF BindsOnce, Has, Grows, Shrinks, New, Served
  <2>23. (Has(mailbox, "bind") =>
             ~bound /\ \A r \in results : r.op \notin {"bind", "send"})'
    BY <2>1, <2>2, <2>3, <2>4 DEF BindsOnce, Has, Grows, Shrinks, New, Served
  <2>24. (\A r \in results : r.op = "bind" =>
             /\ ~bound /\ ~Has(mailbox, "bind") /\ ~Has(mailbox, "send")
             /\ \A s \in results : s.op \in {"bind", "send"} => s = r)'
    BY <2>1, <2>2, <2>3, <2>4 DEF BindsOnce, Has, Grows, Shrinks, New, Served
  <2>. QED
    BY <2>20, <2>21, <2>22, <2>23, <2>24 DEF BindsOnce
<1>15. CASE RunFree
  <2>1. Served("free")
    BY <1>0, <1>15, ServesOne DEF RunFree
  <2>2. BindsOnce /\ ConnectsOnce
    BY DEF UdpInv
  <2>3. UNCHANGED <<bound, connected, listenings>>
    BY <1>15 DEF RunFree, jsVars, historyVars
  <2>4. UNCHANGED <<results, remote, early>>
    BY <1>15 DEF RunFree, historyVars
  <2>20. (~early)'
    BY <2>1, <2>2, <2>3, <2>4 DEF BindsOnce, Has, Grows, Shrinks, New, Served
  <2>21. (listenings <= 1)'
    BY <2>1, <2>2, <2>3, <2>4 DEF BindsOnce, Has, Grows, Shrinks, New, Served
  <2>22. (\A i, j \in DOMAIN mailbox :
             mailbox[i].op = "bind" /\ mailbox[j].op \in {"bind", "send"} => i = j)'
    BY <2>1, <2>2, <2>3, <2>4 DEF BindsOnce, Has, Grows, Shrinks, New, Served
  <2>23. (Has(mailbox, "bind") =>
             ~bound /\ \A r \in results : r.op \notin {"bind", "send"})'
    BY <2>1, <2>2, <2>3, <2>4 DEF BindsOnce, Has, Grows, Shrinks, New, Served
  <2>24. (\A r \in results : r.op = "bind" =>
             /\ ~bound /\ ~Has(mailbox, "bind") /\ ~Has(mailbox, "send")
             /\ \A s \in results : s.op \in {"bind", "send"} => s = r)'
    BY <2>1, <2>2, <2>3, <2>4 DEF BindsOnce, Has, Grows, Shrinks, New, Served
  <2>. QED
    BY <2>20, <2>21, <2>22, <2>23, <2>24 DEF BindsOnce
<1>16. CASE Datagram
  BY <1>0, <1>16 DEF Datagram, jsVars, UdpInv, PcbThere, PortThere, BindsOnce,
     Pending, Asynchronous, Has, Grows, Shrinks, New, Types, Flags, Pcb, Patient,
     MayBind
<1>17. CASE UNCHANGED vars
  BY <1>0, <1>17 DEF vars, jsVars, queueVars, lwipVars, historyVars, UdpInv,
     PcbThere, PortThere, BindsOnce, Pending, Asynchronous, Has, Grows, Shrinks,
     New, Types, Flags, Pcb, Patient, MayBind
<1>. QED
  BY <1>1, <1>2, <1>3, <1>4, <1>5, <1>6, <1>7, <1>8, <1>9, <1>10, <1>11, <1>12,
     <1>13, <1>14, <1>15, <1>16, <1>17 DEF Next, Tcpip, Quiescent

\* It has one connect under way, and what that disconnects from is before it.
LEMMA ConnectsOnceStep ==
  ASSUME UdpInv, Patient,
         Next \/ UNCHANGED vars
  PROVE  ConnectsOnce'
<1>0. Types /\ Flags
  BY DEF UdpInv
<1>1. CASE Bind
  <2>1. /\ calls' \in 1..MaxCalls /\ Grows(mailbox, mailbox', New("bind"))
        /\ FreesIn(mailbox') = FreesIn(mailbox)
    BY <1>0, <1>1, MethodsPost
  <2>. QED
    BY <1>0, <1>1, <2>1 DEF Bind, Post, jsVars, lwipVars, UdpInv, PcbThere,
       BindsOnce, ConnectsOnce, Pending, Asynchronous, Has, Grows, Shrinks, New,
       Types, Flags, Pcb, Patient, Method
<1>2. CASE Send
  <2>1. /\ calls' \in 1..MaxCalls /\ Grows(mailbox, mailbox', New("send"))
        /\ FreesIn(mailbox') = FreesIn(mailbox)
    BY <1>0, <1>2, MethodsPost
  <2>. QED
    BY <1>0, <1>2, <2>1 DEF Send, Post, jsVars, lwipVars, UdpInv, PcbThere,
       BindsOnce, ConnectsOnce, Pending, Asynchronous, Has, Grows, Shrinks, New,
       Types, Flags, Pcb, Patient, Method
<1>3. CASE Connect
  <2>1. /\ calls' \in 1..MaxCalls /\ Grows(mailbox, mailbox', New("connect"))
        /\ FreesIn(mailbox') = FreesIn(mailbox)
    BY <1>0, <1>3, MethodsPost
  <2>. QED
    BY <1>0, <1>3, <2>1 DEF Connect, Post, jsVars, lwipVars, UdpInv, PcbThere,
       BindsOnce, ConnectsOnce, Pending, Asynchronous, Has, Grows, Shrinks, New,
       Types, Flags, Pcb, Patient, Method
<1>4. CASE Disconnect
  <2>1. /\ calls' \in 1..MaxCalls /\ Grows(mailbox, mailbox', New("disconnect"))
        /\ Has(mailbox', "disconnect")
        /\ FreesIn(mailbox') = FreesIn(mailbox)
    BY <1>0, <1>4, MethodsPost
  <2>. QED
    BY <1>0, <1>4, <2>1 DEF Disconnect, ConnectedAfterDisconnect, lwipVars, UdpInv,
       PcbThere, BindsOnce, ConnectsOnce, Pending, Asynchronous, Has, Grows,
       Shrinks, New, Types, Flags, Pcb, Patient, Method
<1>5. CASE Close
  <2>1. /\ calls' \in 1..MaxCalls
        /\ \/ Grows(mailbox, mailbox', New("close")) /\ pcb' = "null"
              /\ UNCHANGED <<aborted, reported>>
           \/ pcb = "unset" /\ UNCHANGED <<pcb, mailbox, aborted>>
        /\ FreesIn(mailbox') = FreesIn(mailbox)
    BY <1>0, <1>5, MethodsPost
  <2>. QED
    BY <1>0, <1>5, <2>1 DEF Close, AbortedByClose, lwipVars, UdpInv, PcbThere,
       BindsOnce, ConnectsOnce, Pending, Asynchronous, Has, Grows, Shrinks, New,
       Types, Flags, Pcb, Patient, Method
<1>6. CASE \E value \in BOOLEAN : Ref(value)
  BY <1>0, <1>6 DEF Ref, SetHolds, jsVars, lwipVars, UdpInv, PcbThere, BindsOnce,
     ConnectsOnce, Pending, Asynchronous, Has, Grows, Shrinks, New, Types, Flags,
     Pcb, Patient, Method
<1>7. CASE OnResult
  <2>1. /\ FreesIn(mailbox) \in Nat
        /\ \/ /\ aborted' /\ received' = 0
              /\ Grows(mailbox, mailbox', New("free"))
              /\ FreesIn(mailbox') = FreesIn(mailbox) + received
           \/ ~aborted' /\ UNCHANGED <<mailbox, received>>
    BY <1>0, <1>7, EventsPost
  <2>2. PICK got \in results :
          /\ results' = results \ {got}
          /\ bound' = (bound \/ EmitsListening(got))
          /\ listenings' = listenings + (IF EmitsListening(got) THEN 1 ELSE 0)
          /\ IF EmitsListening(got) /\ listenings = 0
               THEN SetHolds(TRUE) ELSE UNCHANGED <<holds, late, alive>>
          /\ connected' = (connected \/ (got.op = "connect" /\ got.ok))
          /\ reported' = (reported \/ got.op = "close")
          /\ aborted' = AbortsOnRecv(got)
    BY <1>7 DEF OnResult
  <2>3. alive /\ UNCHANGED <<use, closed, pcb, native, port, remote, calls, asked, early>>
    BY <1>7 DEF OnResult, lwipVars
  <2>4. ConnectsOnce /\ UNCHANGED remote
    BY <2>3 DEF UdpInv
  <2>5. Grows(mailbox, mailbox', New("free")) \/ UNCHANGED mailbox
    BY <2>1
  <2>6. /\ results' = results \ {got}
        /\ connected' = (connected \/ (got.op = "connect" /\ got.ok))
    BY <2>2
  <2>20. (\A i, j \in DOMAIN mailbox :
             i < j /\ mailbox[i].op = "connect"
               => mailbox[j].op \notin {"disconnect", "connect"})'
    BY <2>4, <2>5 DEF ConnectsOnce, Has, Grows, New
  <2>21. (\A r \in results : r.op = "connect" =>
             /\ ~Has(mailbox, "connect") /\ ~Has(mailbox, "disconnect")
             /\ \A s \in results : s.op = "connect" => s = r
             /\ r.ok => remote)'
    BY <2>4, <2>5, <2>6 DEF ConnectsOnce, Has, Grows, New
  <2>22. (Has(mailbox, "disconnect") => ~connected)'
    BY <2>4, <2>5, <2>6 DEF ConnectsOnce, Has, Grows, New
  <2>23. (~Has(mailbox, "disconnect") /\ (\A r \in results : r.op = "connect" => ~r.ok)
             => (connected <=> remote))'
    BY <2>4, <2>5, <2>6 DEF ConnectsOnce, Has, Grows, New
  <2>. QED
    BY <2>20, <2>21, <2>22, <2>23 DEF ConnectsOnce
<1>8. CASE OnMessage
  <2>1. /\ Grows(mailbox, mailbox', New("free")) /\ FreesIn(mailbox) \in Nat
        /\ FreesIn(mailbox') = FreesIn(mailbox) + 1
    BY <1>0, <1>8, EventsPost
  <2>2. BindsOnce /\ ConnectsOnce
    BY DEF UdpInv
  <2>3. UNCHANGED <<bound, connected, listenings>>
    BY <1>8 DEF OnMessage, jsVars
  <2>4. UNCHANGED <<results, remote>>
    BY <1>8 DEF OnMessage, lwipVars, historyVars
  <2>20. (\A i, j \in DOMAIN mailbox :
             i < j /\ mailbox[i].op = "connect"
               => mailbox[j].op \notin {"disconnect", "connect"})'
    BY <2>1, <2>2, <2>3, <2>4 DEF ConnectsOnce, Has, Grows, Shrinks, New, Served
  <2>21. (\A r \in results : r.op = "connect" =>
             /\ ~Has(mailbox, "connect") /\ ~Has(mailbox, "disconnect")
             /\ \A s \in results : s.op = "connect" => s = r
             /\ r.ok => remote)'
    BY <2>1, <2>2, <2>3, <2>4 DEF ConnectsOnce, Has, Grows, Shrinks, New, Served
  <2>22. (Has(mailbox, "disconnect") => ~connected)'
    BY <2>1, <2>2, <2>3, <2>4 DEF ConnectsOnce, Has, Grows, Shrinks, New, Served
  <2>23. (~Has(mailbox, "disconnect") /\ (\A r \in results : r.op = "connect" => ~r.ok)
             => (connected <=> remote))'
    BY <2>1, <2>2, <2>3, <2>4 DEF ConnectsOnce, Has, Grows, Shrinks, New, Served
  <2>. QED
    BY <2>20, <2>21, <2>22, <2>23 DEF ConnectsOnce
<1>9. CASE RunNew
  <2>1. Served("new")
    BY <1>0, <1>9, ServesOne DEF RunNew
  <2>2. BindsOnce /\ ConnectsOnce
    BY DEF UdpInv
  <2>3. UNCHANGED <<bound, connected, listenings>>
    BY <1>9 DEF RunNew, jsVars, historyVars
  <2>4. UNCHANGED <<results, remote>>
    BY <1>9 DEF RunNew, lwipVars, historyVars
  <2>20. (\A i, j \in DOMAIN mailbox :
             i < j /\ mailbox[i].op = "connect"
               => mailbox[j].op \notin {"disconnect", "connect"})'
    BY <2>1, <2>2, <2>3, <2>4 DEF ConnectsOnce, Has, Grows, Shrinks, New, Served
  <2>21. (\A r \in results : r.op = "connect" =>
             /\ ~Has(mailbox, "connect") /\ ~Has(mailbox, "disconnect")
             /\ \A s \in results : s.op = "connect" => s = r
             /\ r.ok => remote)'
    BY <2>1, <2>2, <2>3, <2>4 DEF ConnectsOnce, Has, Grows, Shrinks, New, Served
  <2>22. (Has(mailbox, "disconnect") => ~connected)'
    BY <2>1, <2>2, <2>3, <2>4 DEF ConnectsOnce, Has, Grows, Shrinks, New, Served
  <2>23. (~Has(mailbox, "disconnect") /\ (\A r \in results : r.op = "connect" => ~r.ok)
             => (connected <=> remote))'
    BY <2>1, <2>2, <2>3, <2>4 DEF ConnectsOnce, Has, Grows, Shrinks, New, Served
  <2>. QED
    BY <2>20, <2>21, <2>22, <2>23 DEF ConnectsOnce
<1>10. CASE RunBind
  <2>1. Served("bind")
    BY <1>0, <1>10, ServesOne DEF RunBind
  <2>2. PICK ok \in BOOLEAN :
          /\ ok => pcb = "live"
          /\ port' = IF ok THEN port + 1 ELSE port
          /\ results' = ResultOf(Head(mailbox), ok)
    BY <1>10 DEF RunBind
  <2>3. /\ ok => pcb = "live" /\ port' # 0
        /\ port # 0 => port' # 0
    BY <1>0, <2>2 DEF Types
  <2>4. results' = results \cup {[op |-> "bind", ok |-> ok, n |-> Head(mailbox).n]}
    BY <2>1, <2>2 DEF ResultOf, Served
  <2>5. UNCHANGED <<use, bound, closed, connected, pcb, holds, listenings, asked, early>>
    BY <1>10 DEF RunBind, jsVars, historyVars
  <2>6. ConnectsOnce /\ UNCHANGED <<connected, remote>>
    BY <1>10, <2>5 DEF UdpInv, RunBind
  <2>20. (\A i, j \in DOMAIN mailbox :
             i < j /\ mailbox[i].op = "connect"
               => mailbox[j].op \notin {"disconnect", "connect"})'
    BY <2>1, <2>4, <2>6 DEF ConnectsOnce, Has, Shrinks, Served
  <2>21. (\A r \in results : r.op = "connect" =>
             /\ ~Has(mailbox, "connect") /\ ~Has(mailbox, "disconnect")
             /\ \A s \in results : s.op = "connect" => s = r
             /\ r.ok => remote)'
    BY <2>1, <2>4, <2>6 DEF ConnectsOnce, Has, Shrinks, Served
  <2>22. (Has(mailbox, "disconnect") => ~connected)'
    BY <2>1, <2>4, <2>6 DEF ConnectsOnce, Has, Shrinks, Served
  <2>23. (~Has(mailbox, "disconnect") /\ (\A r \in results : r.op = "connect" => ~r.ok)
             => (connected <=> remote))'
    BY <2>1, <2>4, <2>6 DEF ConnectsOnce, Has, Shrinks, Served
  <2>. QED
    BY <2>20, <2>21, <2>22, <2>23 DEF ConnectsOnce
<1>11. CASE RunSendOrConnect("send")
  <2>1. Served("send")
    BY <1>0, <1>11, ServesOne DEF RunSendOrConnect
  <2>2. PICK ok \in BOOLEAN :
          /\ ok => pcb = "live"
          /\ \/ ok /\ port' = IF port = 0 THEN 1 ELSE port
             \/ ~ok /\ port' \in IF pcb = "live" /\ port = 0 /\ "send" = "send" 
               THEN {0, 1} ELSE {port}
          /\ remote' = (remote \/ ("send" = "connect" /\ ok))
          /\ results' = ResultOf(Head(mailbox), ok)
    BY <1>11 DEF RunSendOrConnect
  <2>3. /\ ok => pcb = "live" /\ port' # 0
        /\ port # 0 => port' # 0
    BY <1>0, <2>2 DEF Types
  <2>4. results' = results \cup {[op |-> "send", ok |-> ok, n |-> Head(mailbox).n]}
    BY <2>1, <2>2 DEF ResultOf, Served
  <2>5. UNCHANGED <<use, bound, closed, connected, pcb, holds, listenings, asked, early>>
    BY <1>11 DEF RunSendOrConnect, jsVars, historyVars
  <2>6. ConnectsOnce /\ UNCHANGED connected
    BY <2>5 DEF UdpInv
  <2>7. remote' <=> remote
    BY <2>2
  <2>20. (\A i, j \in DOMAIN mailbox :
             i < j /\ mailbox[i].op = "connect"
               => mailbox[j].op \notin {"disconnect", "connect"})'
    BY <2>1, <2>4, <2>6, <2>7 DEF ConnectsOnce, Has, Shrinks, Served
  <2>21. (\A r \in results : r.op = "connect" =>
             /\ ~Has(mailbox, "connect") /\ ~Has(mailbox, "disconnect")
             /\ \A s \in results : s.op = "connect" => s = r
             /\ r.ok => remote)'
    BY <2>1, <2>4, <2>6, <2>7 DEF ConnectsOnce, Has, Shrinks, Served
  <2>22. (Has(mailbox, "disconnect") => ~connected)'
    BY <2>1, <2>4, <2>6, <2>7 DEF ConnectsOnce, Has, Shrinks, Served
  <2>23. (~Has(mailbox, "disconnect") /\ (\A r \in results : r.op = "connect" => ~r.ok)
             => (connected <=> remote))'
    BY <2>1, <2>4, <2>6, <2>7 DEF ConnectsOnce, Has, Shrinks, Served
  <2>. QED
    BY <2>20, <2>21, <2>22, <2>23 DEF ConnectsOnce
<1>12. CASE RunSendOrConnect("connect")
  <2>1. Served("connect")
    BY <1>0, <1>12, ServesOne DEF RunSendOrConnect
  <2>2. PICK ok \in BOOLEAN :
          /\ ok => pcb = "live"
          /\ \/ ok /\ port' = IF port = 0 THEN 1 ELSE port
             \/ ~ok /\ port' \in IF pcb = "live" /\ port = 0 /\ "connect" = "send" 
               THEN {0, 1} ELSE {port}
          /\ remote' = (remote \/ ("connect" = "connect" /\ ok))
          /\ results' = ResultOf(Head(mailbox), ok)
    BY <1>12 DEF RunSendOrConnect
  <2>3. /\ ok => pcb = "live" /\ port' # 0
        /\ port # 0 => port' # 0
    BY <1>0, <2>2 DEF Types
  <2>4. results' = results \cup {[op |-> "connect", ok |-> ok, n |-> Head(mailbox).n]}
    BY <2>1, <2>2 DEF ResultOf, Served
  <2>5. UNCHANGED <<use, bound, closed, connected, pcb, holds, listenings, asked, early>>
    BY <1>12 DEF RunSendOrConnect, jsVars, historyVars
  <2>6. ConnectsOnce /\ UNCHANGED connected
    BY <2>5 DEF UdpInv
  <2>7. remote' <=> remote \/ ok
    BY <2>2
  <2>8. [op |-> "connect", ok |-> ok, n |-> Head(mailbox).n] \in results'
    BY <2>4
  <2>9. (\A s \in results' : s.op = "connect" => ~s.ok) => ~ok
    BY <2>8
  <2>10. ~Has(mailbox', "disconnect") => ~Has(mailbox, "disconnect")
    BY <2>1 DEF Has, Served, Shrinks
  <2>20. (\A i, j \in DOMAIN mailbox :
             i < j /\ mailbox[i].op = "connect"
               => mailbox[j].op \notin {"disconnect", "connect"})'
    BY <2>1, <2>6 DEF ConnectsOnce, Has, Shrinks, Served
  <2>21. (\A r \in results : r.op = "connect" =>
             /\ ~Has(mailbox, "connect") /\ ~Has(mailbox, "disconnect")
             /\ \A s \in results : s.op = "connect" => s = r
             /\ r.ok => remote)'
    BY <2>1, <2>4, <2>6, <2>7 DEF ConnectsOnce, Has, Shrinks, Served
  <2>22. (Has(mailbox, "disconnect") => ~connected)'
    BY <2>1, <2>6 DEF ConnectsOnce, Has, Shrinks, Served
  <2>23. (~Has(mailbox, "disconnect") /\ (\A r \in results : r.op = "connect" => ~r.ok)
             => (connected <=> remote))'
    BY <2>4, <2>6, <2>7, <2>9, <2>10 DEF ConnectsOnce, Has, Shrinks, Served
  <2>. QED
    BY <2>20, <2>21, <2>22, <2>23 DEF ConnectsOnce
<1>13. CASE RunDisconnect
  <2>1. Served("disconnect")
    BY <1>0, <1>13, ServesOne DEF RunDisconnect
  <2>2. BindsOnce /\ ConnectsOnce /\ PcbThere
    BY DEF UdpInv, BindsOnce
  <2>3. Head(mailbox).pcb = "live" /\ Has(mailbox, "disconnect")
    BY <2>1, <2>2 DEF PcbThere, Served, Shrinks, Has
  <2>4. ~remote' /\ ~connected /\ UNCHANGED <<connected, results>>
    BY <1>13, <2>2, <2>3 DEF RunDisconnect, ConnectsOnce, jsVars
  <2>20. (\A i, j \in DOMAIN mailbox :
             i < j /\ mailbox[i].op = "connect"
               => mailbox[j].op \notin {"disconnect", "connect"})'
    BY <2>1, <2>2, <2>3, <2>4 DEF ConnectsOnce, Has, Served, Shrinks
  <2>21. (\A r \in results : r.op = "connect" =>
             /\ ~Has(mailbox, "connect") /\ ~Has(mailbox, "disconnect")
             /\ \A s \in results : s.op = "connect" => s = r
             /\ r.ok => remote)'
    BY <2>1, <2>2, <2>3, <2>4 DEF ConnectsOnce, Has, Served, Shrinks
  <2>22. (Has(mailbox, "disconnect") => ~connected)'
    BY <2>1, <2>2, <2>3, <2>4 DEF ConnectsOnce, Has, Served, Shrinks
  <2>23. (~Has(mailbox, "disconnect") /\ (\A r \in results : r.op = "connect" => ~r.ok)
             => (connected <=> remote))'
    BY <2>1, <2>2, <2>3, <2>4 DEF ConnectsOnce, Has, Served, Shrinks
  <2>. QED
    BY <2>20, <2>21, <2>22, <2>23 DEF ConnectsOnce
<1>14. CASE RunClose
  <2>1. Served("close")
    BY <1>0, <1>14, ServesOne DEF RunClose
  <2>2. BindsOnce /\ ConnectsOnce
    BY DEF UdpInv
  <2>3. UNCHANGED <<bound, connected, listenings>>
    BY <1>14 DEF RunClose, jsVars, historyVars
  <2>4. /\ results' = results \cup {[op |-> "close", ok |-> TRUE, n |-> Head(mailbox).n]}
        /\ UNCHANGED remote
    BY <1>14, <2>1 DEF RunClose, ResultOf, Served
  <2>20. (\A i, j \in DOMAIN mailbox :
             i < j /\ mailbox[i].op = "connect"
               => mailbox[j].op \notin {"disconnect", "connect"})'
    BY <2>1, <2>2, <2>3, <2>4 DEF ConnectsOnce, Has, Grows, Shrinks, New, Served
  <2>21. (\A r \in results : r.op = "connect" =>
             /\ ~Has(mailbox, "connect") /\ ~Has(mailbox, "disconnect")
             /\ \A s \in results : s.op = "connect" => s = r
             /\ r.ok => remote)'
    BY <2>1, <2>2, <2>3, <2>4 DEF ConnectsOnce, Has, Grows, Shrinks, New, Served
  <2>22. (Has(mailbox, "disconnect") => ~connected)'
    BY <2>1, <2>2, <2>3, <2>4 DEF ConnectsOnce, Has, Grows, Shrinks, New, Served
  <2>23. (~Has(mailbox, "disconnect") /\ (\A r \in results : r.op = "connect" => ~r.ok)
             => (connected <=> remote))'
    BY <2>1, <2>2, <2>3, <2>4 DEF ConnectsOnce, Has, Grows, Shrinks, New, Served
  <2>. QED
    BY <2>20, <2>21, <2>22, <2>23 DEF ConnectsOnce
<1>15. CASE RunFree
  <2>1. Served("free")
    BY <1>0, <1>15, ServesOne DEF RunFree
  <2>2. BindsOnce /\ ConnectsOnce
    BY DEF UdpInv
  <2>3. UNCHANGED <<bound, connected, listenings>>
    BY <1>15 DEF RunFree, jsVars, historyVars
  <2>4. UNCHANGED <<results, remote, early>>
    BY <1>15 DEF RunFree, historyVars
  <2>20. (\A i, j \in DOMAIN mailbox :
             i < j /\ mailbox[i].op = "connect"
               => mailbox[j].op \notin {"disconnect", "connect"})'
    BY <2>1, <2>2, <2>3, <2>4 DEF ConnectsOnce, Has, Grows, Shrinks, New, Served
  <2>21. (\A r \in results : r.op = "connect" =>
             /\ ~Has(mailbox, "connect") /\ ~Has(mailbox, "disconnect")
             /\ \A s \in results : s.op = "connect" => s = r
             /\ r.ok => remote)'
    BY <2>1, <2>2, <2>3, <2>4 DEF ConnectsOnce, Has, Grows, Shrinks, New, Served
  <2>22. (Has(mailbox, "disconnect") => ~connected)'
    BY <2>1, <2>2, <2>3, <2>4 DEF ConnectsOnce, Has, Grows, Shrinks, New, Served
  <2>23. (~Has(mailbox, "disconnect") /\ (\A r \in results : r.op = "connect" => ~r.ok)
             => (connected <=> remote))'
    BY <2>1, <2>2, <2>3, <2>4 DEF ConnectsOnce, Has, Grows, Shrinks, New, Served
  <2>. QED
    BY <2>20, <2>21, <2>22, <2>23 DEF ConnectsOnce
<1>16. CASE Datagram
  BY <1>0, <1>16 DEF Datagram, jsVars, UdpInv, PcbThere, BindsOnce, ConnectsOnce,
     Pending, Asynchronous, Has, Grows, Shrinks, New, Types, Flags, Pcb, Patient,
     Method
<1>17. CASE UNCHANGED vars
  BY <1>0, <1>17 DEF vars, jsVars, queueVars, lwipVars, historyVars, UdpInv,
     PcbThere, BindsOnce, ConnectsOnce, Pending, Asynchronous, Has, Grows, Shrinks,
     New, Types, Flags, Pcb, Patient, Method
<1>. QED
  BY <1>1, <1>2, <1>3, <1>4, <1>5, <1>6, <1>7, <1>8, <1>9, <1>10, <1>11, <1>12,
     <1>13, <1>14, <1>15, <1>16, <1>17 DEF Next, Tcpip, Quiescent

\* A call that is served has its number.
LEMMA CallServed ==
  ASSUME Types, NEW op \in Asynchronous, Serve(op)
  PROVE  \A ok \in BOOLEAN :
           [op |-> Head(mailbox).op, ok |-> ok, n |-> Head(mailbox).n]
             \in [op : Asynchronous, ok : BOOLEAN, n : 1..MaxCalls]
<1>1. Head(mailbox) \in Message /\ Head(mailbox).op = op
  BY ServesOne DEF Served, Shrinks
<1>2. Head(mailbox).n \in 1..MaxCalls
  BY <1>1 DEF Message, Asynchronous
<1>. QED
  BY <1>1, <1>2

\* The variables keep their types.
LEMMA TypesStep ==
  ASSUME UdpInv,
         Next \/ UNCHANGED vars
  PROVE  Types'
<1>0. Types /\ Flags
  BY DEF UdpInv
<1>1. CASE Bind
  <2>1. /\ calls' \in 1..MaxCalls /\ Grows(mailbox, mailbox', New("bind"))
        /\ FreesIn(mailbox') = FreesIn(mailbox)
    BY <1>0, <1>1, MethodsPost
  <2>. QED
    BY <1>0, <1>1, <2>1, UdpAssumption DEF Bind, Post, jsVars, lwipVars, UdpInv,
       Types, Flags, PbufsBounded, Grows, Shrinks, Asynchronous, Pcb
<1>2. CASE Send
  <2>1. /\ calls' \in 1..MaxCalls /\ Grows(mailbox, mailbox', New("send"))
        /\ FreesIn(mailbox') = FreesIn(mailbox)
    BY <1>0, <1>2, MethodsPost
  <2>. QED
    BY <1>0, <1>2, <2>1, UdpAssumption DEF Send, Post, jsVars, lwipVars, UdpInv,
       Types, Flags, PbufsBounded, Grows, Shrinks, Asynchronous, Pcb
<1>3. CASE Connect
  <2>1. /\ calls' \in 1..MaxCalls /\ Grows(mailbox, mailbox', New("connect"))
        /\ FreesIn(mailbox') = FreesIn(mailbox)
    BY <1>0, <1>3, MethodsPost
  <2>. QED
    BY <1>0, <1>3, <2>1, UdpAssumption DEF Connect, Post, jsVars, lwipVars, UdpInv,
       Types, Flags, PbufsBounded, Grows, Shrinks, Asynchronous, Pcb
<1>4. CASE Disconnect
  <2>1. /\ calls' \in 1..MaxCalls /\ Grows(mailbox, mailbox', New("disconnect"))
        /\ Has(mailbox', "disconnect")
        /\ FreesIn(mailbox') = FreesIn(mailbox)
    BY <1>0, <1>4, MethodsPost
  <2>. QED
    BY <1>0, <1>4, <2>1, UdpAssumption DEF Disconnect, ConnectedAfterDisconnect,
       lwipVars, UdpInv, Types, Flags, PbufsBounded, Grows, Shrinks, Asynchronous,
       Pcb
<1>5. CASE Close
  <2>1. /\ calls' \in 1..MaxCalls
        /\ \/ Grows(mailbox, mailbox', New("close")) /\ pcb' = "null"
              /\ UNCHANGED <<aborted, reported>>
           \/ pcb = "unset" /\ UNCHANGED <<pcb, mailbox, aborted>>
        /\ FreesIn(mailbox') = FreesIn(mailbox)
    BY <1>0, <1>5, MethodsPost
  <2>. QED
    BY <1>0, <1>5, <2>1, UdpAssumption DEF Close, AbortedByClose, lwipVars, UdpInv,
       Types, Flags, PbufsBounded, Grows, Shrinks, Asynchronous, Pcb
<1>6. CASE \E value \in BOOLEAN : Ref(value)
  BY <1>0, <1>6, UdpAssumption DEF Ref, SetHolds, jsVars, lwipVars, UdpInv, Types,
     Flags, PbufsBounded, Grows, Shrinks, Asynchronous, Pcb
<1>7. CASE OnResult
  <2>1. /\ FreesIn(mailbox) \in Nat
        /\ \/ /\ aborted' /\ received' = 0
              /\ Grows(mailbox, mailbox', New("free"))
              /\ FreesIn(mailbox') = FreesIn(mailbox) + received
           \/ ~aborted' /\ UNCHANGED <<mailbox, received>>
    BY <1>0, <1>7, EventsPost
  <2>. QED
    BY <1>0, <1>7, <2>1, UdpAssumption DEF OnResult, EmitsListening, SendBinds,
       AbortsOnRecv, SetHolds, lwipVars, UdpInv, Types, Flags, PbufsBounded, Grows,
       Shrinks, Asynchronous, Pcb
<1>8. CASE OnMessage
  <2>1. /\ Grows(mailbox, mailbox', New("free")) /\ FreesIn(mailbox) \in Nat
        /\ FreesIn(mailbox') = FreesIn(mailbox) + 1
    BY <1>0, <1>8, EventsPost
  <2>. QED
    BY <1>0, <1>8, <2>1, UdpAssumption DEF OnMessage, LeftAfterMessage, jsVars,
       lwipVars, UdpInv, Types, Flags, PbufsBounded, Grows, Shrinks, Asynchronous,
       Pcb
<1>9. CASE RunNew
  <2>1. Served("new")
    BY <1>0, <1>9, ServesOne DEF RunNew
  <2>. QED
    BY <1>0, <1>9, <2>1, UdpAssumption DEF RunNew, jsVars, historyVars, Served,
       UdpInv, Types, Flags, PbufsBounded, Grows, Shrinks, Asynchronous, Pcb
<1>10. CASE RunBind
  <2>1. Served("bind")
    BY <1>0, <1>10, ServesOne DEF RunBind
  <2>2. PICK ok \in BOOLEAN : results' = ResultOf(Head(mailbox), ok)
    BY <1>10 DEF RunBind, RunSendOrConnect, RunClose
  <2>3. "bind" \in Asynchronous
    BY DEF Asynchronous
  <2>8. Serve("bind")
    BY <1>10 DEF RunBind, RunSendOrConnect, RunClose
  <2>4. results' \subseteq [op : Asynchronous, ok : BOOLEAN, n : 1..MaxCalls]
    <3>1. [op |-> Head(mailbox).op, ok |-> ok, n |-> Head(mailbox).n]
            \in [op : Asynchronous, ok : BOOLEAN, n : 1..MaxCalls]
      BY <1>0, <2>3, <2>8, CallServed
    <3>. QED
      BY <1>0, <2>2, <3>1, Zenon DEF ResultOf, Types
  <2>5. mailbox' \in Seq(Message) /\ port' \in Nat
    BY <1>0, <1>10, <2>1 DEF Types, Served, Shrinks, RunBind, RunSendOrConnect,
       RunClose
  <2>6. native' \in {"none", "live", "removed"}
    BY <1>0, <1>10 DEF Types, RunBind, RunSendOrConnect, RunClose
  <2>7. /\ UNCHANGED <<use, pcb, received, pbufs, calls, arrived>>
        /\ UNCHANGED <<delivered, listenings>>
    BY <1>10 DEF RunBind, RunSendOrConnect, RunClose, jsVars, historyVars
  <2>. QED
    BY <1>0, <2>4, <2>5, <2>6, <2>7 DEF Types
<1>11. CASE RunSendOrConnect("send")
  <2>1. Served("send")
    BY <1>0, <1>11, ServesOne DEF RunSendOrConnect
  <2>2. PICK ok \in BOOLEAN : results' = ResultOf(Head(mailbox), ok)
    BY <1>11 DEF RunBind, RunSendOrConnect, RunClose
  <2>3. "send" \in Asynchronous
    BY DEF Asynchronous
  <2>8. Serve("send")
    BY <1>11 DEF RunBind, RunSendOrConnect, RunClose
  <2>4. results' \subseteq [op : Asynchronous, ok : BOOLEAN, n : 1..MaxCalls]
    <3>1. [op |-> Head(mailbox).op, ok |-> ok, n |-> Head(mailbox).n]
            \in [op : Asynchronous, ok : BOOLEAN, n : 1..MaxCalls]
      BY <1>0, <2>3, <2>8, CallServed
    <3>. QED
      BY <1>0, <2>2, <3>1, Zenon DEF ResultOf, Types
  <2>5. mailbox' \in Seq(Message) /\ port' \in Nat
    BY <1>0, <1>11, <2>1 DEF Types, Served, Shrinks, RunBind, RunSendOrConnect,
       RunClose
  <2>6. native' \in {"none", "live", "removed"}
    BY <1>0, <1>11 DEF Types, RunBind, RunSendOrConnect, RunClose
  <2>7. /\ UNCHANGED <<use, pcb, received, pbufs, calls, arrived>>
        /\ UNCHANGED <<delivered, listenings>>
    BY <1>11 DEF RunBind, RunSendOrConnect, RunClose, jsVars, historyVars
  <2>. QED
    BY <1>0, <2>4, <2>5, <2>6, <2>7 DEF Types
<1>12. CASE RunSendOrConnect("connect")
  <2>1. Served("connect")
    BY <1>0, <1>12, ServesOne DEF RunSendOrConnect
  <2>2. PICK ok \in BOOLEAN : results' = ResultOf(Head(mailbox), ok)
    BY <1>12 DEF RunBind, RunSendOrConnect, RunClose
  <2>3. "connect" \in Asynchronous
    BY DEF Asynchronous
  <2>8. Serve("connect")
    BY <1>12 DEF RunBind, RunSendOrConnect, RunClose
  <2>4. results' \subseteq [op : Asynchronous, ok : BOOLEAN, n : 1..MaxCalls]
    <3>1. [op |-> Head(mailbox).op, ok |-> ok, n |-> Head(mailbox).n]
            \in [op : Asynchronous, ok : BOOLEAN, n : 1..MaxCalls]
      BY <1>0, <2>3, <2>8, CallServed
    <3>. QED
      BY <1>0, <2>2, <3>1, Zenon DEF ResultOf, Types
  <2>5. mailbox' \in Seq(Message) /\ port' \in Nat
    BY <1>0, <1>12, <2>1 DEF Types, Served, Shrinks, RunBind, RunSendOrConnect,
       RunClose
  <2>6. native' \in {"none", "live", "removed"}
    BY <1>0, <1>12 DEF Types, RunBind, RunSendOrConnect, RunClose
  <2>7. /\ UNCHANGED <<use, pcb, received, pbufs, calls, arrived>>
        /\ UNCHANGED <<delivered, listenings>>
    BY <1>12 DEF RunBind, RunSendOrConnect, RunClose, jsVars, historyVars
  <2>. QED
    BY <1>0, <2>4, <2>5, <2>6, <2>7 DEF Types
<1>13. CASE RunDisconnect
  <2>1. Served("disconnect")
    BY <1>0, <1>13, ServesOne DEF RunDisconnect
  <2>. QED
    BY <1>0, <1>13, <2>1, UdpAssumption DEF RunDisconnect, jsVars, historyVars,
       Served, UdpInv, Types, Flags, PbufsBounded, Grows, Shrinks, Asynchronous, Pcb
<1>14. CASE RunClose
  <2>1. Served("close")
    BY <1>0, <1>14, ServesOne DEF RunClose
  <2>2. PICK ok \in BOOLEAN : results' = ResultOf(Head(mailbox), ok)
    BY <1>14 DEF RunBind, RunSendOrConnect, RunClose
  <2>3. "close" \in Asynchronous
    BY DEF Asynchronous
  <2>8. Serve("close")
    BY <1>14 DEF RunBind, RunSendOrConnect, RunClose
  <2>4. results' \subseteq [op : Asynchronous, ok : BOOLEAN, n : 1..MaxCalls]
    <3>1. [op |-> Head(mailbox).op, ok |-> ok, n |-> Head(mailbox).n]
            \in [op : Asynchronous, ok : BOOLEAN, n : 1..MaxCalls]
      BY <1>0, <2>3, <2>8, CallServed
    <3>. QED
      BY <1>0, <2>2, <3>1, Zenon DEF ResultOf, Types
  <2>5. mailbox' \in Seq(Message) /\ port' \in Nat
    BY <1>0, <1>14, <2>1 DEF Types, Served, Shrinks, RunBind, RunSendOrConnect,
       RunClose
  <2>6. native' \in {"none", "live", "removed"}
    BY <1>0, <1>14 DEF Types, RunBind, RunSendOrConnect, RunClose
  <2>7. /\ UNCHANGED <<use, pcb, received, pbufs, calls, arrived>>
        /\ UNCHANGED <<delivered, listenings>>
    BY <1>14 DEF RunBind, RunSendOrConnect, RunClose, jsVars, historyVars
  <2>. QED
    BY <1>0, <2>4, <2>5, <2>6, <2>7 DEF Types
<1>15. CASE RunFree
  <2>1. Served("free")
    BY <1>0, <1>15, ServesOne DEF RunFree
  <2>2. mailbox' \in Seq(Message)
    BY <2>1 DEF Served, Shrinks
  <2>3. FreesIn(mailbox') \in Nat
    BY <2>2, FreesFinite DEF FreesIn
  <2>4. pbufs = received + FreesIn(mailbox)
    BY DEF UdpInv, PbufsBounded, PbufsAccounted, FreesIn
  <2>5. pbufs' \in Nat
    BY <1>0, <1>15, <2>1, <2>3, <2>4, SMTT(30) DEF RunFree, Served, Types
  <2>. QED
    BY <1>0, <1>15, <2>2, <2>5 DEF RunFree, jsVars, historyVars, Types
<1>16. CASE Datagram
  BY <1>0, <1>16, UdpAssumption DEF Datagram, jsVars, UdpInv, Types, Flags,
     PbufsBounded, Grows, Shrinks, Asynchronous, Pcb
<1>17. CASE UNCHANGED vars
  BY <1>0, <1>17, UdpAssumption DEF vars, jsVars, queueVars, lwipVars, historyVars,
     UdpInv, Types, Flags, PbufsBounded, Grows, Shrinks, Asynchronous, Pcb
<1>. QED
  BY <1>1, <1>2, <1>3, <1>4, <1>5, <1>6, <1>7, <1>8, <1>9, <1>10, <1>11, <1>12,
     <1>13, <1>14, <1>15, <1>16, <1>17 DEF Next, Tcpip, Quiescent

\* Every pbuf is freed or will be.
LEMMA PbufsStep ==
  ASSUME UdpInv,
         Next \/ UNCHANGED vars
  PROVE  PbufsBounded'
<1>0. Types /\ Flags
  BY DEF UdpInv
<1>1. CASE Bind
  <2>1. /\ calls' \in 1..MaxCalls /\ Grows(mailbox, mailbox', New("bind"))
        /\ FreesIn(mailbox') = FreesIn(mailbox)
    BY <1>0, <1>1, MethodsPost
  <2>. QED
    BY <1>0, <1>1, <2>1 DEF Bind, Post, jsVars, lwipVars, UdpInv, Types,
       PbufsBounded, FreesIn, PbufsAccounted
<1>2. CASE Send
  <2>1. /\ calls' \in 1..MaxCalls /\ Grows(mailbox, mailbox', New("send"))
        /\ FreesIn(mailbox') = FreesIn(mailbox)
    BY <1>0, <1>2, MethodsPost
  <2>. QED
    BY <1>0, <1>2, <2>1 DEF Send, Post, jsVars, lwipVars, UdpInv, Types,
       PbufsBounded, FreesIn, PbufsAccounted
<1>3. CASE Connect
  <2>1. /\ calls' \in 1..MaxCalls /\ Grows(mailbox, mailbox', New("connect"))
        /\ FreesIn(mailbox') = FreesIn(mailbox)
    BY <1>0, <1>3, MethodsPost
  <2>. QED
    BY <1>0, <1>3, <2>1 DEF Connect, Post, jsVars, lwipVars, UdpInv, Types,
       PbufsBounded, FreesIn, PbufsAccounted
<1>4. CASE Disconnect
  <2>1. /\ calls' \in 1..MaxCalls /\ Grows(mailbox, mailbox', New("disconnect"))
        /\ Has(mailbox', "disconnect")
        /\ FreesIn(mailbox') = FreesIn(mailbox)
    BY <1>0, <1>4, MethodsPost
  <2>. QED
    BY <1>0, <1>4, <2>1 DEF Disconnect, ConnectedAfterDisconnect, lwipVars, UdpInv,
       Types, PbufsBounded, FreesIn, PbufsAccounted
<1>5. CASE Close
  <2>1. /\ calls' \in 1..MaxCalls
        /\ \/ Grows(mailbox, mailbox', New("close")) /\ pcb' = "null"
              /\ UNCHANGED <<aborted, reported>>
           \/ pcb = "unset" /\ UNCHANGED <<pcb, mailbox, aborted>>
        /\ FreesIn(mailbox') = FreesIn(mailbox)
    BY <1>0, <1>5, MethodsPost
  <2>. QED
    BY <1>0, <1>5, <2>1 DEF Close, AbortedByClose, lwipVars, UdpInv, Types,
       PbufsBounded, FreesIn, PbufsAccounted
<1>6. CASE \E value \in BOOLEAN : Ref(value)
  BY <1>0, <1>6 DEF Ref, SetHolds, jsVars, lwipVars, UdpInv, Types, PbufsBounded,
     FreesIn, PbufsAccounted
<1>7. CASE OnResult
  <2>1. /\ FreesIn(mailbox) \in Nat
        /\ \/ /\ aborted' /\ received' = 0
              /\ Grows(mailbox, mailbox', New("free"))
              /\ FreesIn(mailbox') = FreesIn(mailbox) + received
           \/ ~aborted' /\ UNCHANGED <<mailbox, received>>
    BY <1>0, <1>7, EventsPost
  <2>2. UNCHANGED <<pbufs, arrived, delivered>>
    BY <1>7 DEF OnResult, lwipVars
  <2>3. PbufsBounded /\ pbufs = received + FreesIn(mailbox)
    BY DEF UdpInv, PbufsBounded, PbufsAccounted, FreesIn
  <2>4. pbufs' = received' + FreesIn(mailbox')
    <3>1. CASE ~aborted' /\ UNCHANGED <<mailbox, received>>
      BY <2>2, <2>3, <3>1
    <3>. QED
      BY <1>0, <2>1, <2>2, <2>3, <3>1 DEF Types
  <2>5. pbufs' <= arrived' /\ received' + delivered' <= arrived'
    BY <1>0, <2>1, <2>2, <2>3 DEF Types, PbufsBounded
  <2>. QED
    BY <2>4, <2>5 DEF PbufsBounded, PbufsAccounted, FreesIn
<1>8. CASE OnMessage
  <2>1. /\ Grows(mailbox, mailbox', New("free")) /\ FreesIn(mailbox) \in Nat
        /\ FreesIn(mailbox') = FreesIn(mailbox) + 1
    BY <1>0, <1>8, EventsPost
  <2>. QED
    BY <1>0, <1>8, <2>1 DEF OnMessage, LeftAfterMessage, jsVars, lwipVars, UdpInv,
       Types, PbufsBounded, FreesIn, PbufsAccounted
<1>9. CASE RunNew
  <2>1. Served("new")
    BY <1>0, <1>9, ServesOne DEF RunNew
  <2>. QED
    BY <1>0, <1>9, <2>1 DEF RunNew, jsVars, historyVars, Served, UdpInv, Types,
       PbufsBounded, FreesIn, PbufsAccounted
<1>10. CASE RunBind
  <2>1. Served("bind")
    BY <1>0, <1>10, ServesOne DEF RunBind
  <2>. QED
    BY <1>0, <1>10, <2>1 DEF RunBind, ResultOf, jsVars, historyVars, Served, UdpInv,
       Types, PbufsBounded, FreesIn, PbufsAccounted
<1>11. CASE RunSendOrConnect("send")
  <2>1. Served("send")
    BY <1>0, <1>11, ServesOne DEF RunSendOrConnect
  <2>. QED
    BY <1>0, <1>11, <2>1 DEF RunSendOrConnect, ResultOf, jsVars, historyVars,
       Served, UdpInv, Types, PbufsBounded, FreesIn, PbufsAccounted
<1>12. CASE RunSendOrConnect("connect")
  <2>1. Served("connect")
    BY <1>0, <1>12, ServesOne DEF RunSendOrConnect
  <2>. QED
    BY <1>0, <1>12, <2>1 DEF RunSendOrConnect, ResultOf, jsVars, historyVars,
       Served, UdpInv, Types, PbufsBounded, FreesIn, PbufsAccounted
<1>13. CASE RunDisconnect
  <2>1. Served("disconnect")
    BY <1>0, <1>13, ServesOne DEF RunDisconnect
  <2>. QED
    BY <1>0, <1>13, <2>1 DEF RunDisconnect, jsVars, historyVars, Served, UdpInv,
       Types, PbufsBounded, FreesIn, PbufsAccounted
<1>14. CASE RunClose
  <2>1. Served("close")
    BY <1>0, <1>14, ServesOne DEF RunClose
  <2>. QED
    BY <1>0, <1>14, <2>1 DEF RunClose, ResultOf, jsVars, historyVars, Served,
       UdpInv, Types, PbufsBounded, FreesIn, PbufsAccounted
<1>15. CASE RunFree
  <2>1. Served("free")
    BY <1>0, <1>15, ServesOne DEF RunFree
  <2>. QED
    BY <1>0, <1>15, <2>1 DEF RunFree, jsVars, historyVars, Served, UdpInv, Types,
       PbufsBounded, FreesIn, PbufsAccounted
<1>16. CASE Datagram
  <2>1. PbufsBounded /\ pbufs = received + FreesIn(mailbox) /\ FreesIn(mailbox) \in Nat
    BY <1>0, EventsPost DEF UdpInv, PbufsBounded, PbufsAccounted, FreesIn
  <2>2. /\ pbufs' = pbufs + 1 /\ received' = received + 1 /\ arrived' = arrived + 1
        /\ UNCHANGED <<delivered, mailbox>>
    BY <1>16 DEF Datagram
  <2>3. FreesIn(mailbox') = FreesIn(mailbox)
    BY <2>2
  <2>4. pbufs' = received' + FreesIn(mailbox')
    BY <1>0, <2>1, <2>2, <2>3 DEF Types
  <2>. QED
    BY <1>0, <2>1, <2>2, <2>4 DEF Types, PbufsBounded, PbufsAccounted, FreesIn
<1>17. CASE UNCHANGED vars
  BY <1>0, <1>17 DEF vars, jsVars, queueVars, lwipVars, historyVars, UdpInv, Types,
     PbufsBounded, FreesIn, PbufsAccounted
<1>. QED
  BY <1>1, <1>2, <1>3, <1>4, <1>5, <1>6, <1>7, <1>8, <1>9, <1>10, <1>11, <1>12,
     <1>13, <1>14, <1>15, <1>16, <1>17 DEF Next, Tcpip, Quiescent

LEMMA UdpInit == Init => UdpInv
<1> SUFFICES ASSUME Init PROVE UdpInv
  OBVIOUS
<1> DEFINE m == [op |-> "new"]
<1>1. /\ mailbox = <<m>> /\ m \in Message /\ m.op = "new"
      /\ use \in Uses /\ pcb = "unset" /\ results = {} /\ received = 0 /\ pbufs = 0
      /\ native = "none" /\ port = 0 /\ calls = 0 /\ arrived = 0 /\ delivered = 0
      /\ listenings = 0
      /\ ~bound /\ ~connected /\ ~closed /\ ~aborted /\ ~holds /\ ~remote /\ alive
      /\ ~asked /\ ~early /\ ~late /\ ~reported
  BY DEF Init, Message
<1>2. Flags
  BY DEF Init, Flags
<1>. HIDE DEF m
<1>3. mailbox \in Seq(Message) /\ DOMAIN mailbox = {1} /\ mailbox[1].op = "new"
  BY <1>1
<1>4. Types
  BY <1>1, <1>3, UdpAssumption DEF Types, Pcb
<1>5. {i \in DOMAIN mailbox : mailbox[i].op = "free"} = {}
  BY <1>3
<1>6. PbufsBounded
  BY <1>1, <1>5, FS_EmptySet DEF PbufsBounded, PbufsAccounted
<1>7. Ordered
  BY <1>3 DEF Ordered, Has
<1>8. PcbThere /\ PortThere
  BY <1>1, <1>3 DEF PcbThere, PortThere, Has
<1>9. BindsOnce /\ ConnectsOnce
  BY <1>1, <1>3 DEF BindsOnce, ConnectsOnce, Has
<1>. QED
  BY <1>2, <1>4, <1>6, <1>7, <1>8, <1>9 DEF UdpInv

LEMMA UdpStep == UdpInv /\ [Next]_vars => UdpInv'
<1> SUFFICES ASSUME UdpInv, Next \/ UNCHANGED vars PROVE UdpInv'
  OBVIOUS
<1>1. Types' /\ Flags' /\ Ordered' /\ PortThere' /\ PbufsBounded'
  BY TypesStep, FlagsStep, OrderedStep, PortThereStep, PbufsStep
<1>2. ~early' => PcbThere'
  BY PcbThereStep
<1>3. Patient' <=> Patient
  BY DEF Next, Tcpip, Quiescent, vars, jsVars, Patient, Bind, Send, Connect,
     Disconnect,
         Close, Ref, OnResult, OnMessage, RunNew, RunBind, RunSendOrConnect,
         RunDisconnect, RunClose, RunFree, Datagram
<1>4. Patient' => BindsOnce' /\ ConnectsOnce'
  BY <1>3, BindsOnceStep, ConnectsOnceStep
<1>. QED
  BY <1>1, <1>2, <1>4 DEF UdpInv

-----------------------------------------------------------------------------
\* The inductive invariant of the dgram socket.
THEOREM UdpInvariant == Spec => []UdpInv
<1>. QED
  BY UdpInit, UdpStep, PTL DEF Spec

\* The type invariant; there are never more pbufs than datagrams that arrived.
THEOREM UdpTypes == Spec => []TypeOK
<1>1. ASSUME UdpInv PROVE TypeOK
  <2>1. Types /\ Flags /\ PbufsBounded
    BY <1>1 DEF UdpInv
  <2>2. /\ received \in 0..MaxDatagrams /\ pbufs \in 0..MaxDatagrams
        /\ delivered \in 0..MaxDatagrams
    BY <2>1, UdpAssumption DEF Types, PbufsBounded
  <2>3. {bound, connected, closed, aborted, holds, remote, alive, asked, early, late,
         reported} \subseteq BOOLEAN
    BY <2>1, Zenon DEF Flags
  <2>. QED
    BY <2>1, <2>2, <2>3 DEF Types, TypeOK
<1>. QED
  BY <1>1, UdpInvariant, PTL

\* Every pbuf lwip_recv_cb was handed is queued for JavaScript or for its free,
\* whatever is queued when onRecv is aborted (udp.cc:92).
THEOREM NoPbufLost == Spec => []PbufsAccounted
<1>1. UdpInv => PbufsAccounted
  BY DEF UdpInv, PbufsBounded
<1>. QED
  BY <1>1, UdpInvariant, PTL

\* Unless the pcb was read before it was set, or onRecv used after its Abort,
\* neither thread meets a removed pcb or an aborted function (udp.cc:208).
THEOREM UdpNeverCrashes == Spec => []NeverCrashes
<1>1. UdpInv => NeverCrashes
  BY DEF UdpInv, PcbThere, NeverCrashes
<1>. QED
  BY <1>1, UdpInvariant, PTL

\* The flags of class Socket agree with lwIP, whatever the order of the calls and
\* of their results (dgram.ts:39, dgram.ts:96, udp.cc:223).
THEOREM FlagsRight == Spec => []FlagsAgree
<1>1. ASSUME UdpInv PROVE FlagsAgree
  <2>0. Flags /\ PortThere /\ (Patient => BindsOnce /\ ConnectsOnce)
    BY <1>1 DEF UdpInv
  <2>1. BoundMeansPort
    BY <2>0 DEF PortThere, BoundMeansPort
  <2>2. HoldsWhileBound
    <3>1. ~asked => (holds <=> bound)
      BY <2>0 DEF PortThere
    <3>. QED
      BY <2>0, <3>1, Zenon DEF Flags, HoldsWhileBound
  <2>3. ASSUME Patient PROVE ListeningOnce /\ ConnectedAgrees
    <3>1. ListeningOnce
      BY <2>0, <2>3 DEF BindsOnce, ListeningOnce
    <3>2. ASSUME ~closed, ~Pending({"connect", "disconnect"}) PROVE connected = remote
      <4>1. ~Has(mailbox, "disconnect") /\ \A r \in results : r.op # "connect"
        BY <3>2 DEF Pending, Has
      <4>2. connected <=> remote
        BY <2>0, <2>3, <4>1 DEF ConnectsOnce
      <4>. QED
        BY <2>0, <4>2, Zenon DEF Flags
    <3>. QED
      BY <3>1, <3>2 DEF ConnectedAgrees
  <2>. QED
    BY <2>1, <2>2, <2>3 DEF FlagsAgree
<1>. QED
  BY <1>1, UdpInvariant, PTL

\* For an application that waits for its calls the port that JavaScript has been
\* told of stays (udp.cc:119).
THEOREM PortIsKept == Spec => PortStays
<1>1. ASSUME UdpInv, [Next]_vars PROVE Patient /\ bound => port' = port
  <2> SUFFICES ASSUME Patient, bound PROVE port' = port
    OBVIOUS
  <2>0. Types /\ port # 0 /\ ~Has(mailbox, "bind")
    BY <1>1 DEF UdpInv, PortThere, BindsOnce
  <2>1. ~RunBind
    <3>1. SUFFICES ASSUME RunBind PROVE FALSE
      OBVIOUS
    <3>2. Serve("bind")
      BY <3>1 DEF RunBind
    <3>3. Shrinks(mailbox, mailbox') /\ Head(mailbox).op = "bind"
      BY <2>0, <3>2, ServesOne DEF Served
    <3>. QED
      BY <2>0, <3>3 DEF Shrinks, Has
  <2>2. CASE RunSendOrConnect("send") \/ RunSendOrConnect("connect")
    BY <2>0, <2>2 DEF RunSendOrConnect
  <2>3. CASE ~(RunSendOrConnect("send") \/ RunSendOrConnect("connect"))
    BY <1>1, <2>1, <2>3
       DEF Next, Tcpip, Quiescent, vars, lwipVars, Bind, Send, Connect, Disconnect,
           Close, Ref, OnResult, OnMessage, RunNew, RunDisconnect, RunClose, RunFree,
           Datagram
  <2>. QED
    BY <2>2, <2>3
<1>. QED
  BY <1>1, UdpInvariant, PTL DEF Spec, PortStays

\* Unless the pcb was read too early, no "message" is emitted after "close"
\* (udp.cc:211).
THEOREM SilentAfterClose == Spec => NoMessageAfterClose
<1>1. ASSUME UdpInv, [Next]_vars PROVE ~early /\ reported => delivered' = delivered
  <2> SUFFICES ASSUME ~early, reported PROVE delivered' = delivered
    OBVIOUS
  <2>1. aborted
    BY <1>1 DEF UdpInv, PcbThere
  <2>2. ~OnMessage
    BY <2>1 DEF OnMessage
  <2>. QED
    BY <1>1, <2>2
       DEF Next, Tcpip, Quiescent, vars, historyVars, Bind, Send, Connect, Disconnect,
           Close, Ref, OnResult, RunNew, RunBind, RunSendOrConnect, RunDisconnect,
           RunClose, RunFree, Datagram
<1>. QED
  BY <1>1, UdpInvariant, PTL DEF Spec, NoMessageAfterClose
=============================================================================
