--------------------------- MODULE NetServerProofs ---------------------------
(***************************************************************************)
(* Theorems about the server, for every set of connections, limit of them  *)
(* and number of calls of listen and close, and about the arguments that   *)
(* its listen, and createConnection, are called with.                      *)
(***************************************************************************)
EXTENDS NetServer, NetArguments, FiniteSetTheorems, SequenceTheorems, TLAPS

\* The type invariant, one variable at a time, but for the range of connAmount.
Typed ==
  /\ use \in {"any", "orderly"} /\ maxConnections \in AnyLimits \cup OrderlyLimits
  /\ internalServer \in Listeners \cup {None}
  /\ mailbox \in Seq(Message)
  /\ listenResults \subseteq [l : Listeners, ok : BOOLEAN]
  /\ closeResults \subseteq Listeners
  /\ accepts \in [Listeners -> Seq(Conns)]
  /\ listener \in [Listeners -> {"unused", "posted", "bound", "failed", "closed"}]
  /\ delayed \subseteq Conns /\ holders \subseteq Listeners
  /\ conn \in [Conns -> {"none", "queued", "open", "dropped", "closed"}]
  /\ listens \in 0..MaxListens /\ closes \in 0..MaxCloses
  /\ announced \in Nat /\ stray \subseteq {"early", "late"}

Flags ==
  /\ listening \in BOOLEAN /\ resetOnClose \in BOOLEAN
  /\ unrefNext \in BOOLEAN /\ unreffed \in BOOLEAN

\* The listeners that q asks the tcpip thread to make, or to close.
Asked(q, op) ==
  {l \in Listeners : \E i \in DOMAIN q : q[i] = [op |-> op, l |-> l]}

\* It asks so once of each.
Once(q) ==
  \A i, j \in DOMAIN q : q[i] = q[j] /\ q[i].op # "accepted" => i = j

\* What is on its way between the threads agrees with the state of lwIP, and
\* nothing else is on its way about the listener that JavaScript holds.
MailAgrees ==
  /\ Once(mailbox)
  /\ \A l \in Asked(mailbox, "listen") : listener[l] = "posted"
  /\ \A l \in Asked(mailbox, "close") :
       /\ listener[l] = "bound" /\ internalServer # l
       /\ \A r \in listenResults : r.l # l

ResultsAgree ==
  \A r \in listenResults :
    listener[r.l] = (IF r.ok THEN "bound" ELSE "failed") /\ r.l # internalServer

HeldIsBound ==
  /\ internalServer # None => listener[internalServer] = "bound"
  /\ listening <=> internalServer # None

OthersAgree ==
  /\ \A l \in Listeners : l > listens => listener[l] = "unused"
  /\ \A l \in holders : listener[l] \in {"posted", "bound"}

Queues == MailAgrees /\ ResultsAgree /\ HeldIsBound /\ OthersAgree

\* A connection waits once on one listener.
Accepts ==
  /\ \A l \in Listeners : \A i \in DOMAIN accepts[l] : conn[accepts[l][i]] = "queued"
  /\ \A l, k \in Listeners :
       \A i \in DOMAIN accepts[l], j \in DOMAIN accepts[k] :
         accepts[l][i] = accepts[k][j] => l = k /\ i = j

\* The first "close" overwrites the count: what it is off by then is no more than
\* the connections there are.
Counting ==
  /\ connAmount \in Int
  /\ connAmount <= Cardinality(Open)
  /\ Cardinality(Open) - 1 - Cardinality(Conns) <= connAmount
  /\ resetOnClose <=> announced = 0
  /\ owed \in Nat /\ owed <= closes
  /\ ConnAmountIsOpen

\* A patient application has one listen under way, or a server, or closed it.
Pending(l) == listener[l] = "posted" \/ \E r \in listenResults : r.l = l
OneAtATime ==
  /\ \A l \in Listeners : Pending(l) => internalServer = None /\ closes = 0
  /\ \A l, k \in Listeners : Pending(l) /\ Pending(k) => l = k
  /\ closes > 0 => internalServer = None
  /\ Asked(mailbox, "close") # {} \/ closeResults # {} => closes > 0

\* NoOrphan, in these words.
Accounted ==
  \A l \in Listeners :
    listener[l] = "bound" \/ l \in holders =>
      internalServer = l \/ l \in Asked(mailbox, "close") \/ Pending(l)

\* An unref that came too early is remembered.
UnrefKept ==
  /\ unreffed /\ internalServer = None /\ closes = 0 => unrefNext
  /\ UnrefRespected

Orderly == OneAtATime /\ Accounted /\ UnrefKept

\* An open connection has a server, or one that was closed, unless it was delivered
\* too early; "close" comes once, and last, unless one is delivered after it.
Explained ==
  /\ Open # {} /\ closes = 0 => internalServer # None \/ "early" \in stray
  /\ announced > 0 => closes > 0 \/ "early" \in stray
  /\ announced > 0 /\ stray = {} => announced = 1 /\ Open = {} /\ connAmount # 0

ServerInv ==
  /\ Typed /\ Flags /\ Queues /\ Accepts /\ Counting
  /\ Patient => Orderly /\ Explained

-----------------------------------------------------------------------------
(* The queues *)

\* A message that asks for something of a listener.
LEMMA MessageOf ==
  ASSUME NEW m \in Message
  PROVE  /\ m.op \in {"listen", "close", "accepted"}
         /\ m.op \in {"listen", "close"} => m.l \in Listeners /\ m = [op |-> m.op, l |-> m.l]
         /\ m.op = "accepted" => m.c \in Conns
BY SMT DEF Message

\* A message that is posted adds what it asks for.
LEMMA PostAsks ==
  ASSUME NEW q \in Seq(Message), NEW m \in Message
  PROVE  /\ Append(q, m) \in Seq(Message)
         /\ \A op \in {"listen", "close"} :
              Asked(Append(q, m), op)
                = Asked(q, op) \cup {l \in Listeners : m = [op |-> op, l |-> l]}
         /\ Once(q) /\ (\A i \in DOMAIN q : q[i] = m => m.op = "accepted")
              => Once(Append(q, m))
<1> DEFINE p == Append(q, m)
<1>1. /\ p \in Seq(Message) /\ Len(p) = Len(q) + 1 /\ Len(q) \in Nat
      /\ \A i \in 1..Len(q) : p[i] = q[i]
      /\ p[Len(q) + 1] = m
  BY AppendProperties
<1>2. DOMAIN q = 1..Len(q) /\ DOMAIN p = 1..(Len(q) + 1)
  BY <1>1
<1>. HIDE DEF p
<1>3. ASSUME NEW op \in {"listen", "close"}
      PROVE  Asked(p, op) = Asked(q, op) \cup {l \in Listeners : m = [op |-> op, l |-> l]}
  <2>1. ASSUME NEW l \in Listeners, NEW i \in DOMAIN p, p[i] = [op |-> op, l |-> l]
        PROVE  l \in Asked(q, op) \cup {k \in Listeners : m = [op |-> op, l |-> k]}
    BY <1>1, <1>2, <2>1 DEF Asked
  <2>2. ASSUME NEW l \in Listeners, NEW i \in DOMAIN q, q[i] = [op |-> op, l |-> l]
        PROVE  l \in Asked(p, op)
    BY <1>1, <1>2, <2>2 DEF Asked
  <2>3. ASSUME NEW l \in Listeners, m = [op |-> op, l |-> l]
        PROVE  l \in Asked(p, op)
    BY <1>1, <1>2, <2>3 DEF Asked
  <2>. QED
    BY <2>1, <2>2, <2>3, Zenon DEF Asked
<1>4. ASSUME Once(q), \A i \in DOMAIN q : q[i] = m => m.op = "accepted"
      PROVE  Once(p)
  BY <1>1, <1>2, <1>4 DEF Once
<1>. QED
  BY <1>1, <1>3, <1>4 DEF p

\* A message that is served asks no more.
LEMMA ServeAsks ==
  ASSUME NEW q \in Seq(Message), q # <<>>, Once(q)
  PROVE  /\ Tail(q) \in Seq(Message) /\ Head(q) \in Message /\ Once(Tail(q))
         /\ \A op \in {"listen", "close"} :
              Asked(Tail(q), op)
                = Asked(q, op) \ {l \in Listeners : Head(q) = [op |-> op, l |-> l]}
         /\ \A op \in {"listen", "close"} : \A l \in Listeners :
              Head(q) = [op |-> op, l |-> l] => l \in Asked(q, op)
<1> DEFINE t == Tail(q)
<1>1. /\ t \in Seq(Message) /\ Len(t) = Len(q) - 1 /\ Len(q) \in Nat /\ Len(q) > 0
      /\ \A i \in 1..(Len(q) - 1) : t[i] = q[i + 1]
      /\ Head(q) = q[1] /\ Head(q) \in Message
  BY HeadTailProperties, EmptySeq
<1>2. DOMAIN q = 1..Len(q) /\ DOMAIN t = 1..(Len(q) - 1)
  BY <1>1
<1>. HIDE DEF t
<1>3. Once(t)
  BY <1>1, <1>2 DEF Once
<1>4. ASSUME NEW op \in {"listen", "close"}
      PROVE  Asked(t, op) = Asked(q, op) \ {l \in Listeners : Head(q) = [op |-> op, l |-> l]}
  <2>1. ASSUME NEW l \in Listeners, NEW i \in DOMAIN t, t[i] = [op |-> op, l |-> l]
        PROVE  l \in Asked(q, op) /\ Head(q) # [op |-> op, l |-> l]
    <3>1. i + 1 \in DOMAIN q /\ q[i + 1] = [op |-> op, l |-> l] /\ 1 \in DOMAIN q
          /\ i + 1 # 1
      BY <1>1, <1>2, <2>1
    <3>2. q[i + 1].op # "accepted"
      BY <3>1
    <3>3. q[1] # q[i + 1]
      BY <3>1, <3>2 DEF Once
    <3>. QED
      BY <1>1, <3>1, <3>3 DEF Asked
  <2>2. ASSUME NEW l \in Listeners, NEW i \in DOMAIN q, q[i] = [op |-> op, l |-> l],
               Head(q) # [op |-> op, l |-> l]
        PROVE  l \in Asked(t, op)
    <3>1. i # 1
      BY <1>1, <2>2
    <3>2. i - 1 \in DOMAIN t /\ t[i - 1] = q[i]
      BY <1>1, <1>2, <3>1
    <3>. QED
      BY <2>2, <3>2 DEF Asked
  <2>. QED
    BY <2>1, <2>2, Zenon DEF Asked
<1>5. ASSUME NEW op \in {"listen", "close"}, NEW l \in Listeners,
             Head(q) = [op |-> op, l |-> l]
      PROVE  l \in Asked(q, op)
  BY <1>1, <1>2, <1>5 DEF Asked
<1>. QED
  BY <1>1, <1>3, <1>4, <1>5 DEF t

\* No listener is asked for by an empty queue.
LEMMA NothingAsked == Once(<<>>) /\ \A op \in {"listen", "close"} : Asked(<<>>, op) = {}
BY DEF Once, Asked

\* The numbers of the listeners.
LEMMA ListenerNumbers ==
  /\ MaxListens \in Nat /\ MaxCloses \in Nat /\ Listeners = 1..MaxListens
  /\ None = 0 /\ None \notin Listeners
BY ServerAssumption DEF Listeners, None
-----------------------------------------------------------------------------
(* ServerInv is inductive *)

\* No use, connection, listener or call is there at first.
LEMMA InitialServer == ASSUME Init PROVE ServerInv
<1>. USE ServerAssumption, ListenerNumbers DEF Init
<1>1. Typed
  BY DEF Typed
<1>2. Flags
  BY DEF Flags
<1>3. Queues
  BY NothingAsked DEF Queues, MailAgrees, ResultsAgree, HeldIsBound, OthersAgree
<1>4. Accepts
  BY DEF Accepts
<1>5. Open = {} /\ Cardinality({}) = 0 /\ Cardinality(Conns) \in Nat
  BY FS_EmptySet, FS_CardinalityType DEF Open
<1>6. Counting
  BY <1>5 DEF Counting, ConnAmountIsOpen
<1>7. Orderly
  BY NothingAsked DEF Orderly, OneAtATime, Accounted, UnrefKept, UnrefRespected,
     Pending
<1>8. Explained
  BY <1>5 DEF Explained
<1>. QED
  BY <1>1, <1>2, <1>3, <1>4, <1>6, <1>7, <1>8 DEF ServerInv

\* The messages that the actions post have their type, and are new.
LEMMA Posts ==
  ASSUME Typed, Queues
  PROVE  /\ Listen => /\ listens' \in Listeners /\ listens' = listens + 1
                      /\ listener[listens'] = "unused"
                      /\ [op |-> "listen", l |-> listens'] \in Message
                      /\ mailbox' \in Seq(Message) /\ Once(mailbox')
                      /\ Asked(mailbox', "listen") = Asked(mailbox, "listen") \cup {listens'}
                      /\ Asked(mailbox', "close") = Asked(mailbox, "close")
         /\ Close /\ internalServer # None =>
              /\ internalServer \in Listeners
              /\ mailbox' \in Seq(Message) /\ Once(mailbox')
              /\ Asked(mailbox', "listen") = Asked(mailbox, "listen")
              /\ Asked(mailbox', "close")
                   = Asked(mailbox, "close") \cup {internalServer}
         /\ OnConnection => /\ mailbox' \in Seq(Message) /\ Once(mailbox')
                            /\ \A op \in {"listen", "close"} :
                                 Asked(mailbox', op) = Asked(mailbox, op)
<1>. USE ListenerNumbers
<1>1. ASSUME NEW op \in {"listen", "close"}, NEW l \in Listeners, Listen \/ Close,
             mailbox' = Append(mailbox, [op |-> op, l |-> l]),
             l \notin Asked(mailbox, op)
      PROVE  /\ mailbox' \in Seq(Message) /\ Once(mailbox')
             /\ Asked(mailbox', op) = Asked(mailbox, op) \cup {l}
             /\ \A other \in {"listen", "close"} \ {op} :
                  Asked(mailbox', other) = Asked(mailbox, other)
  <2> DEFINE m == [op |-> op, l |-> l]
  <2>1. m \in Message /\ m.op = op /\ m.l = l
    BY DEF Message
  <2>2. \A i \in DOMAIN mailbox : mailbox[i] # m
    BY <1>1 DEF Asked
  <2>3. {k \in Listeners : m = [op |-> op, l |-> k]} = {l}
    BY <2>1
  <2>4. \A other \in {"listen", "close"} \ {op} :
          {k \in Listeners : m = [op |-> other, l |-> k]} = {}
    BY <2>1
  <2>. HIDE DEF m
  <2>5. mailbox' = Append(mailbox, m) /\ mailbox \in Seq(Message) /\ Once(mailbox)
    BY <1>1 DEF m, Typed, Queues, MailAgrees
  <2>6. /\ Append(mailbox, m) \in Seq(Message) /\ Once(Append(mailbox, m))
        /\ \A other \in {"listen", "close"} :
             Asked(Append(mailbox, m), other)
               = Asked(mailbox, other) \cup {k \in Listeners : m = [op |-> other, l |-> k]}
    BY <2>1, <2>2, <2>5, PostAsks, ZenonT(40)
  <2>7. Asked(mailbox', op) = Asked(mailbox, op) \cup {l}
    BY <2>3, <2>5, <2>6, Zenon
  <2>8. ASSUME NEW other \in {"listen", "close"} \ {op}
        PROVE  Asked(mailbox', other) = Asked(mailbox, other)
    <3>1. Asked(mailbox', other) = Asked(mailbox, other) \cup {}
      BY <2>4, <2>5, <2>6, Zenon
    <3>. QED
      BY <3>1
  <2>. QED
    BY <2>5, <2>6, <2>7, <2>8, Zenon
<1>2. ASSUME Listen
      PROVE  /\ listens' \in Listeners /\ listens' = listens + 1
             /\ listener[listens'] = "unused"
             /\ mailbox' = Append(mailbox, [op |-> "listen", l |-> listens'])
             /\ [op |-> "listen", l |-> listens'] \in Message
             /\ listens' \notin Asked(mailbox, "listen")
  <2>1. listens' \in Listeners /\ listens' = listens + 1
        /\ mailbox' = Append(mailbox, [op |-> "listen", l |-> listens'])
    BY <1>2 DEF Listen, Typed
  <2>2. listener[listens'] = "unused"
    BY <2>1 DEF Typed, Queues, MailAgrees, OthersAgree
  <2>3. listens' \notin Asked(mailbox, "listen")
    BY <2>2 DEF Queues, MailAgrees
  <2>. QED
    BY <2>1, <2>2, <2>3 DEF Message
<1>3. ASSUME Close, internalServer # None
      PROVE  /\ internalServer \in Listeners
             /\ mailbox' = Append(mailbox, [op |-> "close", l |-> internalServer])
             /\ internalServer \notin Asked(mailbox, "close")
  <2>1. internalServer \in Listeners
    BY <1>3 DEF Typed
  <2>2. internalServer \notin Asked(mailbox, "close")
    BY DEF Queues, MailAgrees
  <2>. QED
    BY <1>3, <2>1, <2>2 DEF Close
<1>4. ASSUME OnConnection
      PROVE  /\ mailbox' \in Seq(Message) /\ Once(mailbox')
             /\ \A op \in {"listen", "close"} : Asked(mailbox', op) = Asked(mailbox, op)
  <2>1. PICK l \in Listeners : accepts[l] # <<>>
                               /\ mailbox' = GiveBack(Head(accepts[l]))
    BY <1>4 DEF OnConnection
  <2>2. Head(accepts[l]) \in Conns
    BY <2>1, HeadTailProperties DEF Typed
  <2> DEFINE m == [op |-> "accepted", c |-> Head(accepts[l])]
  <2>3. m \in Message /\ m.op = "accepted"
    BY <2>2 DEF Message
  <2>4. \A op \in {"listen", "close"} : {k \in Listeners : m = [op |-> op, l |-> k]} = {}
    BY <2>3
  <2>5. mailbox' = Append(mailbox, m)
    BY <2>1 DEF GiveBack
  <2>. HIDE DEF m
  <2>6. mailbox \in Seq(Message) /\ Once(mailbox)
    BY DEF Typed, Queues, MailAgrees, OthersAgree
  <2>7. /\ Append(mailbox, m) \in Seq(Message) /\ Once(Append(mailbox, m))
        /\ \A op \in {"listen", "close"} :
             Asked(Append(mailbox, m), op)
               = Asked(mailbox, op) \cup {k \in Listeners : m = [op |-> op, l |-> k]}
    BY <2>3, <2>6, PostAsks, Zenon
  <2>. QED
    BY <2>4, <2>5, <2>7
<1>. QED
  BY <1>1, <1>2, <1>3, <1>4

\* What the tcpip thread takes from the mailbox was asked for, and is no more.
LEMMA Serves ==
  ASSUME Typed, Queues, Tcpip
  PROVE  /\ mailbox # <<>> /\ mailbox' = Tail(mailbox)
         /\ mailbox' \in Seq(Message) /\ Once(mailbox')
         /\ RunListen => /\ Head(mailbox).l \in Asked(mailbox, "listen")
                         /\ Asked(mailbox', "listen")
                              = Asked(mailbox, "listen") \ {Head(mailbox).l}
                         /\ Asked(mailbox', "close") = Asked(mailbox, "close")
         /\ RunClose => /\ Head(mailbox).l \in Asked(mailbox, "close")
                        /\ Asked(mailbox', "close")
                             = Asked(mailbox, "close") \ {Head(mailbox).l}
                        /\ Asked(mailbox', "listen") = Asked(mailbox, "listen")
         /\ RunAccepted => \A op \in {"listen", "close"} :
                             Asked(mailbox', op) = Asked(mailbox, op)
<1>1. /\ mailbox # <<>> /\ mailbox' = Tail(mailbox)
      /\ mailbox \in Seq(Message) /\ Once(mailbox)
  BY DEF Tcpip, RunListen, RunClose, RunAccepted, Typed, Queues, MailAgrees
<1> DEFINE m == Head(mailbox)
<1>2. /\ Tail(mailbox) \in Seq(Message) /\ m \in Message /\ Once(Tail(mailbox))
      /\ \A op \in {"listen", "close"} :
              Asked(Tail(mailbox), op)
                = Asked(mailbox, op) \ {l \in Listeners : m = [op |-> op, l |-> l]}
      /\ \A op \in {"listen", "close"} : \A l \in Listeners :
              m = [op |-> op, l |-> l] => l \in Asked(mailbox, op)
  BY <1>1, ServeAsks
<1>3. /\ m.op \in {"listen", "close"} => m.l \in Listeners /\ m = [op |-> m.op, l |-> m.l]
  BY <1>2, MessageOf
<1>4. /\ RunListen => m.op = "listen"
      /\ RunClose => m.op = "close"
      /\ RunAccepted => m.op = "accepted"
  BY DEF RunListen, RunClose, RunAccepted
<1>. HIDE DEF m
<1>5. ASSUME NEW op \in {"listen", "close"}, m.op = op
      PROVE  /\ m.l \in Asked(mailbox, op)
             /\ {l \in Listeners : m = [op |-> op, l |-> l]} = {m.l}
             /\ \A other \in {"listen", "close"} \ {op} :
                  {l \in Listeners : m = [op |-> other, l |-> l]} = {}
  BY <1>2, <1>3, <1>5
<1>6. ASSUME m.op = "accepted"
      PROVE  \A op \in {"listen", "close"} :
               {l \in Listeners : m = [op |-> op, l |-> l]} = {}
  BY <1>6
<1>7. ASSUME RunListen
      PROVE  /\ m.l \in Asked(mailbox, "listen")
             /\ Asked(mailbox', "listen") = Asked(mailbox, "listen") \ {m.l}
             /\ Asked(mailbox', "close") = Asked(mailbox, "close")
  BY <1>1, <1>2, <1>4, <1>5, <1>7
<1>8. ASSUME RunClose
      PROVE  /\ m.l \in Asked(mailbox, "close")
             /\ Asked(mailbox', "close") = Asked(mailbox, "close") \ {m.l}
             /\ Asked(mailbox', "listen") = Asked(mailbox, "listen")
  BY <1>1, <1>2, <1>4, <1>5, <1>8
<1>9. ASSUME RunAccepted
      PROVE  \A op \in {"listen", "close"} : Asked(mailbox', op) = Asked(mailbox, op)
  BY <1>1, <1>2, <1>4, <1>6, <1>9
<1>. QED
  BY <1>1, <1>2, <1>7, <1>8, <1>9 DEF m
\* The flags stay flags.
LEMMA FlagsStep ==
  ASSUME Typed, Flags, [Next]_vars
  PROVE  Flags'
<1>. USE ListenerNumbers
<1>1. CASE Listen
  BY <1>1 DEF Listen, Flags, UnrefNextAfterUnref, lwipVars, queueVars, setup, jsVars,
     countVars
<1>2. CASE OnListenResult
  BY <1>2 DEF OnListenResult, Flags, UnrefNextAfterUnref, lwipVars, queueVars,
     setup, jsVars, countVars
<1>3. CASE Ref
  BY <1>3 DEF Ref, Flags, UnrefNextAfterUnref, lwipVars, queueVars, setup, jsVars, countVars
<1>4. CASE Unref
  BY <1>4 DEF Unref, Flags, UnrefNextAfterUnref, lwipVars, queueVars, setup, jsVars,
     countVars
<1>5. CASE Close
  BY <1>5 DEF Close, Flags, UnrefNextAfterUnref, EmitCloseIf, AfterClose, lwipVars,
     queueVars, setup, jsVars, countVars
<1>6. CASE OnCloseResult
  BY <1>6 DEF OnCloseResult, Flags, UnrefNextAfterUnref, EmitCloseIf, AfterClose,
     lwipVars, queueVars, setup, jsVars, countVars
<1>7. CASE OnConnection
  BY <1>7 DEF OnConnection, Flags, UnrefNextAfterUnref, lwipVars, queueVars, setup, jsVars,
     countVars
<1>8. CASE \E c \in Conns : OnSocketClose(c)
  BY <1>8 DEF OnSocketClose, Flags, UnrefNextAfterUnref, EmitCloseIf, AfterClose,
     CountAfterEnd, lwipVars, queueVars, setup, jsVars, countVars
<1>9. CASE RunListen
  BY <1>9 DEF RunListen, Flags, UnrefNextAfterUnref, lwipVars, queueVars, setup, jsVars,
     countVars
<1>10. CASE RunClose
  BY <1>10 DEF RunClose, Flags, UnrefNextAfterUnref, lwipVars, queueVars, setup, jsVars,
     countVars
<1>11. CASE RunAccepted
  BY <1>11 DEF RunAccepted, Flags, UnrefNextAfterUnref, lwipVars, queueVars, setup, jsVars,
     countVars
<1>12. CASE \E c \in Conns : Accept(c)
  BY <1>12 DEF Accept, Flags, UnrefNextAfterUnref, lwipVars, queueVars, setup, jsVars,
     countVars
<1>13. CASE UNCHANGED vars
  BY <1>13 DEF vars, Flags, UnrefNextAfterUnref, lwipVars, queueVars, setup, jsVars,
     countVars
<1>. QED
  BY <1>1, <1>2, <1>3, <1>4, <1>5, <1>6, <1>7, <1>8, <1>9, <1>10, <1>11, <1>12,
     <1>13 DEF Next, JavaScript, Tcpip, Quiescent

\* Typed stay as they are.
LEMMA TypesStep ==
  ASSUME Typed, Queues, [Next]_vars
  PROVE  Typed'
<1>. USE ListenerNumbers
<1>1. CASE Listen
  <2>1. /\ listens' \in Listeners /\ listens' \in 0..MaxListens
        /\ mailbox' \in Seq(Message)
    BY <1>1, Posts DEF Typed
  <2>. QED
    BY <1>1, <2>1 DEF Typed, Listen, setup, jsVars
<1>2. CASE OnListenResult
  BY <1>2 DEF OnListenResult, Typed, lwipVars, queueVars, setup, jsVars, countVars
<1>3. CASE Ref
  BY <1>3 DEF Ref, Typed, lwipVars, queueVars, setup, jsVars, countVars
<1>4. CASE Unref
  BY <1>4 DEF Unref, Typed, lwipVars, queueVars, setup, jsVars, countVars
<1>5. CASE Close
  <2>1. mailbox' \in Seq(Message)
    BY <1>5, Posts DEF Close, Typed
  <2>. QED
    BY <1>5, <2>1, SMTT(30) DEF Typed, Close, EmitCloseIf, HandleAfterClose, lwipVars,
       setup
<1>6. CASE OnCloseResult
  BY <1>6, SMTT(30) DEF OnCloseResult, Typed, EmitCloseIf, AfterClose, lwipVars,
     queueVars, setup, jsVars, countVars
<1>7. CASE OnConnection
  <2>1. mailbox' \in Seq(Message)
    BY <1>7, Posts
  <2>2. PICK l \in Listeners :
          /\ accepts[l] # <<>> /\ accepts' = [accepts EXCEPT ![l] = Tail(@)]
          /\ \E new \in {"dropped", "open"} :
               conn' = [conn EXCEPT ![Head(accepts[l])] = new]
    BY <1>7 DEF OnConnection
  <2>3. Tail(accepts[l]) \in Seq(Conns)
    BY <2>2, HeadTailProperties DEF Typed
  <2>4. accepts' \in [Listeners -> Seq(Conns)]
    BY <2>2, <2>3 DEF Typed
  <2>5. conn' \in [Conns -> {"none", "queued", "open", "dropped", "closed"}]
    BY <2>2 DEF Typed
  <2>. QED
    BY <1>7, <2>1, <2>4, <2>5 DEF Typed, OnConnection, Stray, lwipVars, setup
<1>8. CASE \E c \in Conns : OnSocketClose(c)
  BY <1>8 DEF OnSocketClose, Typed, EmitCloseIf, AfterClose, CountAfterEnd,
     lwipVars, queueVars, setup, jsVars, countVars
<1>9. CASE RunListen
  <2>1. Head(mailbox).l \in Listeners /\ mailbox' \in Seq(Message)
    BY <1>9, Serves DEF Tcpip, Asked
  <2>2. listenResults' \subseteq [l : Listeners, ok : BOOLEAN]
    BY <1>9, <2>1 DEF Typed, RunListen
  <2>3. listener' \in [Listeners -> {"unused", "posted", "bound", "failed", "closed"}]
    BY <1>9, <2>1 DEF Typed, RunListen
  <2>. QED
    BY <1>9, <2>1, <2>2, <2>3 DEF Typed, RunListen, setup, jsVars, countVars
<1>10. CASE RunClose
  <2>1. Head(mailbox).l \in Listeners /\ mailbox' \in Seq(Message)
    BY <1>10, Serves DEF Tcpip, Asked
  <2>. QED
    BY <1>10, <2>1 DEF Typed, RunClose, setup, jsVars, countVars
<1>11. CASE RunAccepted
  <2>1. mailbox' \in Seq(Message)
    BY <1>11, Serves DEF Tcpip
  <2>. QED
    BY <1>11, <2>1 DEF Typed, RunAccepted, setup, jsVars, countVars
<1>12. CASE \E c \in Conns : Accept(c)
  <2>1. PICK c \in Conns : Accept(c)
    BY <1>12
  <2>2. PICK l \in Listeners : accepts' = [accepts EXCEPT ![l] = Append(@, c)]
    BY <2>1 DEF Accept
  <2>3. Append(accepts[l], c) \in Seq(Conns)
    BY AppendProperties DEF Typed
  <2>4. accepts' \in [Listeners -> Seq(Conns)]
    BY <2>2, <2>3 DEF Typed
  <2>. QED
    BY <2>1, <2>4 DEF Typed, Accept, setup, jsVars, countVars
<1>13. CASE UNCHANGED vars
  BY <1>13 DEF vars, Typed, lwipVars, queueVars, setup, jsVars, countVars
<1>. QED
  BY <1>1, <1>2, <1>3, <1>4, <1>5, <1>6, <1>7, <1>8, <1>9, <1>10, <1>11, <1>12,
     <1>13 DEF Next, JavaScript, Tcpip, Quiescent

\* A listener has one result.
LEMMA OneResult ==
  ASSUME Typed, ResultsAgree, NEW r \in listenResults, NEW s \in listenResults,
         r.l = s.l
  PROVE  r = s
<1>1. r \in [l : Listeners, ok : BOOLEAN] /\ s \in [l : Listeners, ok : BOOLEAN]
  BY DEF Typed
<1>2. r.ok <=> s.ok
  BY DEF ResultsAgree
<1>3. r.ok = s.ok
  BY <1>1, <1>2, Zenon
<1>. QED
  BY <1>1, <1>3

\* What is under way goes on agreeing with lwIP.
LEMMA QueuesStep ==
  ASSUME Typed, Queues, [Next]_vars
  PROVE  Queues'
<1>. USE ListenerNumbers
<1>1. CASE Listen
  <2>1. MailAgrees'
    BY <1>1, Posts, SMTT(30) DEF Typed, Queues, MailAgrees, ResultsAgree, HeldIsBound,
       OthersAgree, Listen, setup, jsVars
  <2>2. ResultsAgree'
    <3>1. /\ listener' = [listener EXCEPT ![listens'] = "posted"]
          /\ listener[listens'] = "unused"
          /\ UNCHANGED <<listenResults, internalServer>>
      BY <1>1, Posts DEF Listen, jsVars
    <3>. QED
      BY <3>1 DEF Typed, Queues, ResultsAgree
  <2>3. HeldIsBound'
    BY <1>1, Posts DEF Typed, Queues, HeldIsBound, MailAgrees, ResultsAgree, Listen,
       setup, jsVars
  <2>4. OthersAgree'
    BY <1>1, Posts DEF Typed, Queues, OthersAgree, MailAgrees, ResultsAgree,
       HeldIsBound, Listen, setup, jsVars
  <2>. QED
    BY <2>1, <2>2, <2>3, <2>4 DEF Queues
<1>2. CASE OnListenResult
  <2>1. PICK r \in listenResults :
          /\ listenResults' = listenResults \ {r}
          /\ \/ /\ r.ok /\ internalServer' = r.l /\ listening'
                /\ holders' \subseteq holders
             \/ /\ ~r.ok /\ UNCHANGED <<internalServer, listening, holders>>
          /\ UNCHANGED <<mailbox, listener, listens>>
    BY <1>2 DEF OnListenResult, countVars
  <2>2. r.l \in Listeners
    BY DEF Typed
  <2>3. MailAgrees'
    BY <2>1, <2>2 DEF Queues, MailAgrees
  <2>4. ResultsAgree'
    BY <2>1, <2>2, OneResult DEF Queues, ResultsAgree
  <2>5. HeldIsBound'
    BY <2>1, <2>2 DEF Queues, ResultsAgree, HeldIsBound
  <2>6. OthersAgree'
    BY <2>1 DEF Queues, OthersAgree
  <2>. QED
    BY <2>3, <2>4, <2>5, <2>6 DEF Queues
<1>3. CASE Ref
  <2>1. MailAgrees'
    BY <1>3 DEF Typed, Queues, MailAgrees, ResultsAgree, HeldIsBound, OthersAgree,
       Ref, setup, jsVars, queueVars
  <2>2. ResultsAgree'
    BY <1>3 DEF Typed, Queues, ResultsAgree, MailAgrees, HeldIsBound, Ref, setup, jsVars,
       queueVars
  <2>3. HeldIsBound'
    BY <1>3 DEF Typed, Queues, HeldIsBound, MailAgrees, ResultsAgree, Ref, setup, jsVars,
       queueVars
  <2>4. OthersAgree'
    BY <1>3 DEF Typed, Queues, OthersAgree, MailAgrees, ResultsAgree, HeldIsBound,
       Ref, setup, jsVars, queueVars
  <2>. QED
    BY <2>1, <2>2, <2>3, <2>4 DEF Queues
<1>4. CASE Unref
  <2>1. MailAgrees'
    BY <1>4 DEF Typed, Queues, MailAgrees, ResultsAgree, HeldIsBound, OthersAgree,
       Unref, setup, jsVars, queueVars
  <2>2. ResultsAgree'
    BY <1>4 DEF Typed, Queues, ResultsAgree, MailAgrees, HeldIsBound, Unref, setup, jsVars,
       queueVars
  <2>3. HeldIsBound'
    BY <1>4 DEF Typed, Queues, HeldIsBound, MailAgrees, ResultsAgree, Unref, setup, jsVars,
       queueVars
  <2>4. OthersAgree'
    BY <1>4 DEF Typed, Queues, OthersAgree, MailAgrees, ResultsAgree, HeldIsBound,
       Unref, setup, jsVars, queueVars
  <2>. QED
    BY <2>1, <2>2, <2>3, <2>4 DEF Queues
<1>5. CASE Close
  <2>1. CASE internalServer = None
    BY <1>5, <2>1 DEF Typed, Queues, MailAgrees, ResultsAgree, HeldIsBound,
       OthersAgree,
       Close, lwipVars
  <2>2. CASE internalServer # None
    <3>1. /\ UNCHANGED <<listenResults, listener, holders, listens>>
          /\ internalServer' = None /\ ~listening'
      BY <1>5, <2>2 DEF Close, HandleAfterClose, lwipVars
    <3>2. /\ internalServer \in Listeners /\ Once(mailbox')
          /\ Asked(mailbox', "listen") = Asked(mailbox, "listen")
          /\ Asked(mailbox', "close") = Asked(mailbox, "close") \cup {internalServer}
      BY <1>5, <2>2, Posts
    <3>3. Asked(mailbox', "close") \subseteq Listeners
      BY DEF Asked
    <3>4. MailAgrees'
      BY <2>2, <3>1, <3>2, <3>3 DEF Queues, MailAgrees, ResultsAgree, HeldIsBound
    <3>5. ResultsAgree'
      BY <3>1 DEF Queues, ResultsAgree, Typed
    <3>. QED
      BY <3>1, <3>4, <3>5 DEF Queues, HeldIsBound, OthersAgree
  <2>. QED
    BY <2>1, <2>2
<1>6. CASE OnCloseResult
  BY <1>6 DEF OnCloseResult, Queues, MailAgrees, ResultsAgree, HeldIsBound,
     OthersAgree, Typed, EmitCloseIf, AfterClose, lwipVars, queueVars, setup, jsVars,
     countVars
<1>7. CASE OnConnection
  <2>1. UNCHANGED <<listening, internalServer, listenResults, listener, holders, listens>>
    BY <1>7 DEF OnConnection, lwipVars, countVars
  <2>2. /\ Once(mailbox')
        /\ \A op \in {"listen", "close"} : Asked(mailbox', op) = Asked(mailbox, op)
    BY <1>7, Posts
  <2>. QED
    BY <2>1, <2>2 DEF Queues, MailAgrees, ResultsAgree, HeldIsBound, OthersAgree
<1>8. CASE \E c \in Conns : OnSocketClose(c)
  BY <1>8 DEF OnSocketClose, Queues, MailAgrees, ResultsAgree, HeldIsBound,
     OthersAgree, Typed, EmitCloseIf, AfterClose, CountAfterEnd, lwipVars,
     queueVars, setup, jsVars, countVars
<1>9. CASE RunListen
  <2>1. PICK k \in Listeners, ok \in BOOLEAN :
          /\ k = Head(mailbox).l
          /\ listener' = [listener EXCEPT ![k] = IF ok THEN "bound" ELSE "failed"]
          /\ listenResults' = listenResults \cup {[l |-> k, ok |-> ok]}
          /\ holders' = IF ok THEN holders ELSE holders \ {k}
    BY <1>9, Serves DEF RunListen, Tcpip, Asked
  <2>2. UNCHANGED <<listening, internalServer, listens>>
    BY <1>9 DEF RunListen, setup, jsVars, countVars
  <2>3. /\ Once(mailbox') /\ k \in Asked(mailbox, "listen")
        /\ Asked(mailbox', "listen") = Asked(mailbox, "listen") \ {k}
        /\ Asked(mailbox', "close") = Asked(mailbox, "close")
    BY <1>9, <2>1, Serves DEF Tcpip
  <2>4. /\ listener[k] = "posted" /\ k \notin Asked(mailbox, "close")
        /\ internalServer # k /\ \A r \in listenResults : r.l # k
    BY <2>3 DEF Queues, MailAgrees, ResultsAgree, HeldIsBound
  <2>5. /\ listener'[k] = (IF ok THEN "bound" ELSE "failed")
        /\ \A l \in Listeners \ {k} : listener'[l] = listener[l]
    BY <2>1 DEF Typed
  <2>6. \A op \in {"listen", "close"} : Asked(mailbox, op) \subseteq Listeners
    BY DEF Asked
  <2>7. MailAgrees'
    BY <2>1, <2>2, <2>3, <2>4, <2>5, <2>6 DEF Queues, MailAgrees
  <2>8. ASSUME NEW r \in listenResults'
        PROVE  /\ listener'[r.l] = (IF r.ok THEN "bound" ELSE "failed")
               /\ r.l # internalServer'
    <3>1. CASE r = [l |-> k, ok |-> ok]
      <4>1. r.l = k /\ (r.ok <=> ok)
        BY <3>1
      <4>. QED
        BY <2>2, <2>4, <2>5, <4>1
    <3>2. CASE r \in listenResults
      <4>1. r.l \in Listeners \ {k}
        BY <2>4, <3>2 DEF Typed
      <4>. QED
        BY <2>2, <2>5, <3>2, <4>1 DEF Queues, ResultsAgree
    <3>. QED
      BY <2>1, <2>8, <3>1, <3>2
  <2>9. HeldIsBound'
    BY <2>2, <2>4, <2>5 DEF Queues, HeldIsBound, Typed
  <2>10. OthersAgree'
    BY <2>1, <2>2, <2>4, <2>5 DEF Queues, OthersAgree, Typed
  <2>. QED
    BY <2>7, <2>8, <2>9, <2>10 DEF Queues, ResultsAgree
<1>10. CASE RunClose
  <2>1. /\ listener' = [listener EXCEPT ![Head(mailbox).l] = "closed"]
        /\ holders' = holders \ {Head(mailbox).l}
        /\ UNCHANGED <<listening, internalServer, listenResults, listens>>
    BY <1>10 DEF RunClose, setup, jsVars, countVars
  <2>2. /\ Once(mailbox') /\ Head(mailbox).l \in Asked(mailbox, "close")
        /\ Asked(mailbox', "close") = Asked(mailbox, "close") \ {Head(mailbox).l}
        /\ Asked(mailbox', "listen") = Asked(mailbox, "listen")
    BY <1>10, Serves DEF Tcpip
  <2>3. /\ Head(mailbox).l \in Listeners
        /\ \A op \in {"listen", "close"} : Asked(mailbox, op) \subseteq Listeners
    BY <2>2 DEF Asked
  <2>4. MailAgrees'
    BY <2>1, <2>2, <2>3 DEF Queues, MailAgrees, Typed
  <2>5. ResultsAgree'
    BY <2>1, <2>2, <2>3 DEF Queues, MailAgrees, ResultsAgree, Typed
  <2>6. HeldIsBound'
    BY <2>1, <2>2, <2>3 DEF Queues, MailAgrees, HeldIsBound, Typed
  <2>7. OthersAgree'
    BY <2>1, <2>2, <2>3 DEF Queues, MailAgrees, OthersAgree, Typed
  <2>. QED
    BY <2>4, <2>5, <2>6, <2>7 DEF Queues
<1>11. CASE RunAccepted
  <2>1. UNCHANGED <<listening, internalServer, listenResults, listener, holders, listens>>
    BY <1>11 DEF RunAccepted, setup, jsVars, countVars
  <2>2. /\ Once(mailbox')
        /\ \A op \in {"listen", "close"} : Asked(mailbox', op) = Asked(mailbox, op)
    BY <1>11, Serves DEF Tcpip
  <2>. QED
    BY <2>1, <2>2 DEF Queues, MailAgrees, ResultsAgree, HeldIsBound, OthersAgree
<1>12. CASE \E c \in Conns : Accept(c)
  BY <1>12 DEF Queues, MailAgrees, ResultsAgree, HeldIsBound, OthersAgree, Accept,
     setup, jsVars,
     countVars
<1>13. CASE UNCHANGED vars
  BY <1>13 DEF vars, Queues, MailAgrees, ResultsAgree, HeldIsBound, OthersAgree,
     Typed, lwipVars, queueVars, setup, jsVars, countVars
<1>. QED
  BY <1>1, <1>2, <1>3, <1>4, <1>5, <1>6, <1>7, <1>8, <1>9, <1>10, <1>11, <1>12,
     <1>13 DEF Next, JavaScript, Tcpip, Quiescent

\* The accepts of one listener change at one end.
LEMMA Joining ==
  ASSUME Typed, Accepts, NEW l \in Listeners, NEW c \in Conns, conn[c] = "none",
         accepts' = [accepts EXCEPT ![l] = Append(@, c)],
         conn' = [conn EXCEPT ![c] = "queued"]
  PROVE  Accepts'
<1> DEFINE q == accepts[l]
           p == Append(q, c)
<1>1. /\ q \in Seq(Conns) /\ Len(p) = Len(q) + 1 /\ Len(q) \in Nat
      /\ \A i \in 1..Len(q) : p[i] = q[i]
      /\ p[Len(q) + 1] = c
      /\ DOMAIN q = 1..Len(q) /\ DOMAIN p = 1..(Len(q) + 1)
  BY AppendProperties DEF Typed
<1>2. accepts'[l] = p /\ \A k \in Listeners \ {l} : accepts'[k] = accepts[k]
  BY DEF Typed
<1>3. conn'[c] = "queued" /\ \A d \in Conns \ {c} : conn'[d] = conn[d]
  BY DEF Typed
<1>. HIDE DEF p
<1>4. \A k \in Listeners : \A i \in DOMAIN accepts[k] : accepts[k][i] \in Conns \ {c}
  BY DEF Accepts, Typed
<1>5. \A k \in Listeners : \A i \in DOMAIN accepts'[k] :
        \/ i \in DOMAIN accepts[k] /\ accepts'[k][i] = accepts[k][i]
        \/ k = l /\ i = Len(q) + 1 /\ accepts'[k][i] = c
  BY <1>1, <1>2
<1>6. ASSUME NEW k \in Listeners, NEW i \in DOMAIN accepts'[k]
      PROVE  conn'[accepts'[k][i]] = "queued"
  BY <1>3, <1>4, <1>5 DEF Accepts
<1>7. ASSUME NEW k \in Listeners, NEW m \in Listeners, NEW i \in DOMAIN accepts'[k],
             NEW j \in DOMAIN accepts'[m], accepts'[k][i] = accepts'[m][j]
      PROVE  k = m /\ i = j
  BY <1>4, <1>5, <1>7 DEF Accepts
<1>. QED
  BY <1>6, <1>7 DEF Accepts

\* The first of them is one that waits, and leaves.
LEMMA Leaving ==
  ASSUME Typed, Accepts, NEW l \in Listeners, accepts[l] # <<>>,
         accepts' = [accepts EXCEPT ![l] = Tail(@)],
         NEW new, conn' = [conn EXCEPT ![Head(accepts[l])] = new]
  PROVE  /\ Head(accepts[l]) \in Conns /\ conn[Head(accepts[l])] = "queued"
         /\ Accepts'
<1> DEFINE q == accepts[l]
           t == Tail(q)
           c == Head(q)
<1>1. /\ q \in Seq(Conns) /\ Len(t) = Len(q) - 1 /\ Len(q) \in Nat /\ Len(q) > 0
      /\ \A i \in 1..(Len(q) - 1) : t[i] = q[i + 1]
      /\ c = q[1] /\ c \in Conns
      /\ DOMAIN q = 1..Len(q) /\ DOMAIN t = 1..(Len(q) - 1)
  BY HeadTailProperties, EmptySeq DEF Typed
<1>2. accepts'[l] = t /\ \A k \in Listeners \ {l} : accepts'[k] = accepts[k]
  BY DEF Typed
<1>3. \A d \in Conns \ {c} : conn'[d] = conn[d]
  BY DEF Typed
<1>. HIDE DEF t, c
<1>4. \A k \in Listeners : \A i \in DOMAIN accepts[k] : accepts[k][i] \in Conns
  BY DEF Typed
<1>5. 1 \in DOMAIN accepts[l] /\ accepts[l][1] = c
  BY <1>1
<1>6. ASSUME NEW k \in Listeners, NEW i \in DOMAIN accepts'[k]
      PROVE  \/ /\ k = l /\ i + 1 \in DOMAIN accepts[l] /\ i \in Nat /\ i + 1 # 1
                /\ accepts'[k][i] = accepts[l][i + 1]
             \/ k # l /\ i \in DOMAIN accepts[k] /\ accepts'[k][i] = accepts[k][i]
  BY <1>1, <1>2
<1>7. ASSUME NEW k \in Listeners, NEW i \in DOMAIN accepts'[k]
      PROVE  conn'[accepts'[k][i]] = "queued"
  <2>1. accepts'[k][i] \in Conns /\ accepts'[k][i] # c /\ conn[accepts'[k][i]] = "queued"
    BY <1>4, <1>5, <1>6 DEF Accepts
  <2>. QED
    BY <1>3, <2>1
<1>8. ASSUME NEW k \in Listeners, NEW m \in Listeners, NEW i \in DOMAIN accepts'[k],
             NEW j \in DOMAIN accepts'[m], accepts'[k][i] = accepts'[m][j]
      PROVE  k = m /\ i = j
  <2>1. CASE k = l /\ m = l
    <3>1. i \in Nat /\ j \in Nat /\ i + 1 = j + 1
      BY <1>6, <1>8, <2>1 DEF Accepts
    <3>. QED
      BY <2>1, <3>1
  <2>2. CASE ~(k = l /\ m = l)
    BY <1>6, <1>8, <2>2 DEF Accepts
  <2>. QED
    BY <2>1, <2>2
<1>. QED
  BY <1>1, <1>5, <1>7, <1>8 DEF Accepts, c

\* Connections go on waiting once.
LEMMA AcceptsStep ==
  ASSUME Typed, Accepts, [Next]_vars
  PROVE  Accepts'
<1>. USE ListenerNumbers
<1>1. CASE Listen
  BY <1>1 DEF Listen, Accepts, lwipVars, queueVars, setup, jsVars, countVars
<1>2. CASE OnListenResult
  BY <1>2 DEF OnListenResult, Accepts, lwipVars, queueVars, setup, jsVars, countVars
<1>3. CASE Ref
  BY <1>3 DEF Ref, Accepts, lwipVars, queueVars, setup, jsVars, countVars
<1>4. CASE Unref
  BY <1>4 DEF Unref, Accepts, lwipVars, queueVars, setup, jsVars, countVars
<1>5. CASE Close
  BY <1>5 DEF Close, Accepts, EmitCloseIf, AfterClose, lwipVars, queueVars, setup, jsVars,
     countVars
<1>6. CASE OnCloseResult
  BY <1>6 DEF OnCloseResult, Accepts, EmitCloseIf, AfterClose, lwipVars, queueVars,
     setup, jsVars, countVars
<1>7. CASE OnConnection
  <2>1. PICK l \in Listeners, new \in {"dropped", "open"} :
          /\ accepts[l] # <<>> /\ accepts' = [accepts EXCEPT ![l] = Tail(@)]
          /\ conn' = [conn EXCEPT ![Head(accepts[l])] = new]
    BY <1>7 DEF OnConnection
  <2>. QED
    BY <2>1, Leaving
<1>8. CASE \E c \in Conns : OnSocketClose(c)
  <2>1. PICK c \in Conns : OnSocketClose(c)
    BY <1>8
  <2>2. /\ conn[c] = "open" /\ UNCHANGED accepts
        /\ \A d \in Conns \ {c} : conn'[d] = conn[d]
    BY <2>1 DEF OnSocketClose, queueVars, Typed
  <2>3. \A l \in Listeners : \A i \in DOMAIN accepts[l] : accepts[l][i] \in Conns \ {c}
    BY <2>2 DEF Typed, Accepts
  <2>. QED
    BY <2>2, <2>3 DEF Accepts
<1>9. CASE RunListen
  BY <1>9 DEF RunListen, Accepts, lwipVars, queueVars, setup, jsVars, countVars
<1>10. CASE RunClose
  BY <1>10 DEF RunClose, Accepts, lwipVars, queueVars, setup, jsVars, countVars
<1>11. CASE RunAccepted
  BY <1>11 DEF RunAccepted, Accepts, lwipVars, queueVars, setup, jsVars, countVars
<1>12. CASE \E c \in Conns : Accept(c)
  <2>1. PICK c \in Conns : Accept(c)
    BY <1>12
  <2>2. PICK l \in Listeners : accepts' = [accepts EXCEPT ![l] = Append(@, c)]
    BY <2>1 DEF Accept
  <2>. QED
    BY <2>1, <2>2, Joining DEF Accept
<1>13. CASE UNCHANGED vars
  BY <1>13 DEF vars, Accepts, lwipVars, queueVars, setup, jsVars, countVars
<1>. QED
  BY <1>1, <1>2, <1>3, <1>4, <1>5, <1>6, <1>7, <1>8, <1>9, <1>10, <1>11, <1>12,
     <1>13 DEF Next, JavaScript, Tcpip, Quiescent

\* There are finitely many connections.
LEMMA Finite ==
  /\ Cardinality(Conns) \in Nat /\ Open \subseteq Conns
  /\ \A S \in SUBSET Conns :
       /\ Cardinality(S) \in Nat /\ Cardinality(S) <= Cardinality(Conns)
       /\ Cardinality(S) = 0 => S = {}
       /\ \A c \in S : Cardinality(S \ {c}) = Cardinality(S) - 1
       /\ \A c \in Conns \ S : Cardinality(S \cup {c}) = Cardinality(S) + 1
<1>1. IsFiniteSet(Conns) /\ Cardinality(Conns) \in Nat
  BY ServerAssumption, FS_CardinalityType
<1>2. ASSUME NEW S \in SUBSET Conns
      PROVE  /\ IsFiniteSet(S) /\ Cardinality(S) \in Nat
             /\ Cardinality(S) <= Cardinality(Conns)
             /\ Cardinality(S) = 0 => S = {}
  BY <1>1, FS_Subset, FS_CardinalityType, FS_EmptySet
<1>3. ASSUME NEW S \in SUBSET Conns, NEW c \in S
      PROVE  Cardinality(S \ {c}) = Cardinality(S) - 1
  BY <1>2, FS_RemoveElement
<1>4. ASSUME NEW S \in SUBSET Conns, NEW c \in Conns \ S
      PROVE  Cardinality(S \cup {c}) = Cardinality(S) + 1
  BY <1>2, FS_AddElement
<1>. QED
  BY <1>1, <1>2, <1>3, <1>4 DEF Open

\* How the open connections change.
LEMMA OpenChanges ==
  ASSUME Typed, Accepts, [Next]_vars
  PROVE  /\ Open' \subseteq Conns
         /\ OnConnection =>
              \/ /\ ~Full /\ connAmount' = connAmount + 1
                 /\ \E c \in Conns \ Open : Open' = Open \cup {c} /\ conn[c] = "queued"
              \/ Full /\ Open' = Open /\ UNCHANGED connAmount
         /\ \A c \in Conns :
              /\ OnSocketClose(c) => c \in Open /\ Open' = Open \ {c}
              /\ Accept(c) => Open' = Open
         /\ UNCHANGED conn => Open' = Open
<1>1. ASSUME OnConnection
      PROVE  \/ /\ ~Full /\ connAmount' = connAmount + 1
                /\ \E c \in Conns \ Open : Open' = Open \cup {c} /\ conn[c] = "queued"
             \/ Full /\ Open' = Open /\ UNCHANGED connAmount
  <2>1. PICK l \in Listeners :
          /\ accepts[l] # <<>> /\ accepts' = [accepts EXCEPT ![l] = Tail(@)]
          /\ \/ Full /\ conn' = [conn EXCEPT ![Head(accepts[l])] = "dropped"]
                /\ UNCHANGED connAmount
             \/ /\ ~Full /\ connAmount' = connAmount + 1
                /\ conn' = [conn EXCEPT ![Head(accepts[l])] = "open"]
    BY <1>1 DEF OnConnection
  <2>2. Head(accepts[l]) \in Conns /\ conn[Head(accepts[l])] = "queued"
    BY <2>1, Leaving
  <2>. QED
    BY <2>1, <2>2 DEF Typed, Open
<1>2. ASSUME NEW c \in Conns, OnSocketClose(c)
      PROVE  c \in Open /\ Open' = Open \ {c}
  BY <1>2 DEF OnSocketClose, Open, Typed
<1>3. ASSUME NEW c \in Conns, Accept(c)
      PROVE  Open' = Open
  BY <1>3 DEF Accept, Open, Typed
<1>4. ASSUME UNCHANGED conn PROVE Open' = Open
  BY <1>4 DEF Open
<1>. QED
  BY <1>1, <1>2, <1>3, <1>4 DEF Open


\* The count goes on as it should.
LEMMA CountingStep ==
  ASSUME Typed, Accepts, Counting, [Next]_vars
  PROVE  Counting'
<1>. USE ListenerNumbers
<1>1. CASE Listen
  <2>1. Open' = Open /\ UNCHANGED <<connAmount, resetOnClose, owed, closes, announced>>
    BY <1>1, OpenChanges DEF Listen, setup, jsVars, queueVars, countVars
  <2>. QED
    BY <2>1 DEF Counting, ConnAmountIsOpen
<1>2. CASE OnListenResult
  <2>1. Open' = Open /\ UNCHANGED <<connAmount, resetOnClose, owed, closes, announced>>
    BY <1>2, OpenChanges DEF OnListenResult, setup, jsVars, queueVars, countVars
  <2>. QED
    BY <2>1 DEF Counting, ConnAmountIsOpen
<1>3. CASE Ref
  <2>1. Open' = Open /\ UNCHANGED <<connAmount, resetOnClose, owed, closes, announced>>
    BY <1>3, OpenChanges DEF Ref, setup, jsVars, queueVars, countVars
  <2>. QED
    BY <2>1 DEF Counting, ConnAmountIsOpen
<1>4. CASE Unref
  <2>1. Open' = Open /\ UNCHANGED <<connAmount, resetOnClose, owed, closes, announced>>
    BY <1>4, OpenChanges DEF Unref, setup, jsVars, queueVars, countVars
  <2>. QED
    BY <2>1 DEF Counting, ConnAmountIsOpen
<1>5. CASE Close
  <2>1. Open' = Open /\ closes' = closes + 1
    BY <1>5, OpenChanges DEF Close
  <2>2. CASE internalServer = None
    <3>1. EmitCloseIf(TRUE, connAmount) /\ UNCHANGED owed
      BY <1>5, <2>2 DEF Close
    <3>. QED
      BY <2>1, <3>1, Finite DEF EmitCloseIf, AfterClose, Counting, ConnAmountIsOpen,
         Typed
  <2>3. CASE internalServer # None
    <3>1. PICK callback \in {0, 1} :
            /\ UNCHANGED <<connAmount, resetOnClose, announced>>
            /\ owed' = owed + callback
      BY <1>5, <2>3 DEF Close
    <3>. QED
      BY <2>1, <3>1 DEF Counting, ConnAmountIsOpen, Typed
  <2>. QED
    BY <2>2, <2>3
<1>6. CASE OnCloseResult
  <2>1. Open' = Open /\ UNCHANGED <<closes, owed>>
    BY <1>6, OpenChanges DEF OnCloseResult
  <2>2. EmitCloseIf(DrainedAtClose, connAmount)
    BY <1>6 DEF OnCloseResult
  <2>. QED
    BY <2>1, <2>2, Finite DEF EmitCloseIf, AfterClose, Counting, ConnAmountIsOpen,
       Typed
<1>7. CASE OnConnection
  <2>1. UNCHANGED <<resetOnClose, closes, owed, announced>>
    BY <1>7 DEF OnConnection, countVars
  <2>2. CASE Open' = Open /\ UNCHANGED connAmount
    BY <2>1, <2>2 DEF Counting, ConnAmountIsOpen
  <2>3. CASE Open' # Open \/ connAmount' # connAmount
    <3>1. PICK c \in Conns \ Open : Open' = Open \cup {c} /\ connAmount' = connAmount + 1
      BY <1>7, <2>3, OpenChanges
    <3>2. Cardinality(Open') = Cardinality(Open) + 1 /\ Cardinality(Open) \in Nat
      BY <3>1, Finite
    <3>. QED
      BY <2>1, <3>1, <3>2, Finite DEF Counting, ConnAmountIsOpen
  <2>. QED
    BY <2>2, <2>3
<1>8. CASE \E c \in Conns : OnSocketClose(c)
  <2>1. PICK c \in Conns : OnSocketClose(c)
    BY <1>8
  <2>2. /\ EmitCloseIf(DrainedAtEnd(connAmount - 1), connAmount - 1)
        /\ UNCHANGED <<closes, owed>>
    BY <2>1 DEF OnSocketClose, CountAfterEnd
  <2>3. c \in Open /\ Open' = Open \ {c}
    BY <2>1, OpenChanges
  <2>4. /\ Cardinality(Open') = Cardinality(Open) - 1 /\ Cardinality(Open) \in Nat
        /\ Cardinality(Open') \in Nat /\ Cardinality(Open') <= Cardinality(Conns)
    BY <2>3, Finite, OpenChanges
  <2>. QED
    BY <2>2, <2>4, Finite, SMTT(30) DEF EmitCloseIf, AfterClose, Counting,
       ConnAmountIsOpen, Typed
<1>9. CASE RunListen
  <2>1. Open' = Open /\ UNCHANGED <<connAmount, resetOnClose, owed, closes, announced>>
    BY <1>9, OpenChanges DEF RunListen, setup, jsVars, queueVars, countVars
  <2>. QED
    BY <2>1 DEF Counting, ConnAmountIsOpen
<1>10. CASE RunClose
  <2>1. Open' = Open /\ UNCHANGED <<connAmount, resetOnClose, owed, closes, announced>>
    BY <1>10, OpenChanges DEF RunClose, setup, jsVars, queueVars, countVars
  <2>. QED
    BY <2>1 DEF Counting, ConnAmountIsOpen
<1>11. CASE RunAccepted
  <2>1. Open' = Open /\ UNCHANGED <<connAmount, resetOnClose, owed, closes, announced>>
    BY <1>11, OpenChanges DEF RunAccepted, setup, jsVars, queueVars, countVars
  <2>. QED
    BY <2>1 DEF Counting, ConnAmountIsOpen
<1>12. CASE \E c \in Conns : Accept(c)
  <2>1. PICK c \in Conns : Accept(c)
    BY <1>12
  <2>2. Open' = Open /\ UNCHANGED <<connAmount, resetOnClose, owed, closes, announced>>
    BY <2>1, OpenChanges DEF Accept, setup, jsVars, countVars
  <2>. QED
    BY <2>2 DEF Counting, ConnAmountIsOpen
<1>13. CASE UNCHANGED vars
  <2>1. Open' = Open /\ UNCHANGED <<connAmount, resetOnClose, owed, closes, announced>>
    BY <1>13, OpenChanges DEF vars, setup, jsVars, countVars
  <2>. QED
    BY <2>1 DEF Counting, ConnAmountIsOpen
<1>. QED
  BY <1>1, <1>2, <1>3, <1>4, <1>5, <1>6, <1>7, <1>8, <1>9, <1>10, <1>11, <1>12,
     <1>13 DEF Next, JavaScript, Tcpip, Quiescent

\* How the listens under way change.
LEMMA PendingChanges ==
  ASSUME Typed, Queues, [Next]_vars
  PROVE  /\ Listen => \A l \in Listeners : Pending(l)' <=> Pending(l) \/ l = listens'
         /\ \A r \in listenResults :
              OnListenResult /\ listenResults' = listenResults \ {r} =>
                \A l \in Listeners : Pending(l)' <=> Pending(l) /\ l # r.l
         /\ RunListen \/ RunClose \/ UNCHANGED <<listener, listenResults>> =>
              \A l \in Listeners : Pending(l)' <=> Pending(l)
<1>1. ASSUME Listen
      PROVE  \A l \in Listeners : Pending(l)' <=> Pending(l) \/ l = listens'
  BY <1>1, Posts DEF Listen, Typed, Pending
<1>2. ASSUME NEW r \in listenResults, OnListenResult, listenResults' = listenResults \ {r}
      PROVE  \A l \in Listeners : Pending(l)' <=> Pending(l) /\ l # r.l
  <2>1. UNCHANGED listener
    BY <1>2 DEF OnListenResult
  <2>2. r.l \in Listeners /\ listener[r.l] # "posted"
    BY DEF Typed, Queues, ResultsAgree
  <2>3. \A s \in listenResults : s.l = r.l => s = r
    BY OneResult DEF Queues
  <2>. QED
    BY <1>2, <2>1, <2>2, <2>3 DEF Pending
<1>3. ASSUME RunListen
      PROVE  \A l \in Listeners : Pending(l)' <=> Pending(l)
  <2>1. PICK k \in Listeners, ok \in BOOLEAN :
          /\ k = Head(mailbox).l
          /\ listener' = [listener EXCEPT ![k] = IF ok THEN "bound" ELSE "failed"]
          /\ listenResults' = listenResults \cup {[l |-> k, ok |-> ok]}
    BY <1>3, Serves DEF RunListen, Tcpip, Asked
  <2>2. listener[k] = "posted"
    BY <1>3, <2>1, Serves DEF Tcpip, Queues, MailAgrees
  <2>3. \A l \in Listeners :
          (\E r \in listenResults' : r.l = l) <=> l = k \/ \E r \in listenResults : r.l = l
    <3>1. [l |-> k, ok |-> ok].l = k
      OBVIOUS
    <3>2. \A l : (\E r \in listenResults' : r.l = l)
            <=> [l |-> k, ok |-> ok].l = l \/ \E r \in listenResults : r.l = l
      BY <2>1, Zenon
    <3>. QED
      BY <3>1, <3>2
  <2>4. /\ listener'[k] # "posted"
        /\ \A l \in Listeners \ {k} : listener'[l] = listener[l]
    BY <2>1 DEF Typed
  <2>. QED
    BY <2>2, <2>3, <2>4 DEF Pending
<1>4. ASSUME RunClose
      PROVE  \A l \in Listeners : Pending(l)' <=> Pending(l)
  <2>1. /\ listener' = [listener EXCEPT ![Head(mailbox).l] = "closed"]
        /\ UNCHANGED listenResults
        /\ Head(mailbox).l \in Listeners /\ listener[Head(mailbox).l] = "bound"
    BY <1>4, Serves DEF RunClose, Tcpip, Queues, MailAgrees, Asked
  <2>. QED
    BY <2>1 DEF Pending, Typed
<1>5. ASSUME UNCHANGED <<listener, listenResults>>
      PROVE  \A l \in Listeners : Pending(l)' <=> Pending(l)
  BY <1>5 DEF Pending
<1>. QED
  BY <1>1, <1>2, <1>3, <1>4, <1>5

\* A patient application and a listen under way are as ListenPending says.
LEMMA PendingIs == ListenPending <=> \E l \in Listeners : Pending(l)
BY DEF ListenPending, Pending


\* A patient application goes on having one listener at most.
LEMMA OrderlyStep ==
  ASSUME Typed, Flags, Queues, Patient, Orderly, [Next]_vars
  PROVE  Orderly'
<1>. USE ListenerNumbers
<1>1. CASE Listen
  <2>1. /\ UNCHANGED <<internalServer, closeResults, closes, unreffed, unrefNext>>
        /\ Asked(mailbox', "close") = Asked(mailbox, "close")
        /\ listens' \in Listeners
        /\ holders' = holders \cup {listens'}
        /\ listener' = [listener EXCEPT ![listens'] = "posted"]
    BY <1>1, Posts DEF Listen, setup, jsVars
  <2>2. closes = 0 /\ internalServer = None /\ \A l \in Listeners : ~Pending(l)
    BY <1>1, PendingIs DEF Listen, CanListen, Queues, HeldIsBound
  <2>3. \A l \in Listeners : Pending(l)' <=> Pending(l) \/ l = listens'
    BY <1>1, PendingChanges
  <2>4. OneAtATime'
    BY <2>1, <2>2, <2>3 DEF Orderly, OneAtATime, Queues, HeldIsBound
  <2>5. Accounted'
    BY <2>1, <2>2, <2>3 DEF Orderly, OneAtATime, Accounted, Typed
  <2>6. UnrefKept'
    BY <2>1, <2>2, <2>3 DEF Orderly, OneAtATime, UnrefKept, UnrefRespected, Typed
  <2>. QED
    BY <2>4, <2>5, <2>6 DEF Orderly
<1>2. CASE OnListenResult
  <2>1. PICK r \in listenResults :
          /\ listenResults' = listenResults \ {r}
          /\ \/ /\ r.ok /\ internalServer' = r.l
                /\ holders' = IF unrefNext THEN holders \ {r.l} ELSE holders
             \/ ~r.ok /\ UNCHANGED <<internalServer, unrefNext, holders>>
          /\ UNCHANGED <<mailbox, listener, closeResults, closes, unreffed>>
    BY <1>2 DEF OnListenResult, countVars
  <2>2. \A l \in Listeners : Pending(l)' <=> Pending(l) /\ l # r.l
    BY <1>2, <2>1, PendingChanges
  <2>3. /\ r.l \in Listeners /\ Pending(r.l) /\ r.l # None
        /\ ~r.ok => listener[r.l] = "failed" /\ r.l \notin holders
    BY DEF Typed, Pending, Queues, ResultsAgree, OthersAgree
  <2>4. OneAtATime'
    BY <2>1, <2>2, <2>3 DEF Orderly, OneAtATime, Queues, HeldIsBound
  <2>5. Accounted'
    BY <2>1, <2>2, <2>3 DEF Orderly, OneAtATime, Accounted, Typed
  <2>6. UnrefKept'
    BY <2>1, <2>2, <2>3 DEF Orderly, OneAtATime, UnrefKept, UnrefRespected, Typed
  <2>. QED
    BY <2>4, <2>5, <2>6 DEF Orderly
<1>3. CASE Ref
  <2>1. /\ UNCHANGED <<internalServer, listener, listenResults, closeResults, closes, mailbox>>
        /\ ~unreffed' /\ holders' = holders \cup ({internalServer} \ {None})
    BY <1>3 DEF Ref, setup, jsVars, queueVars
  <2>2. \A l \in Listeners : Pending(l)' <=> Pending(l)
    BY <2>1, PendingChanges
  <2>3. OneAtATime'
    BY <2>1, <2>2 DEF Orderly, OneAtATime, Queues, HeldIsBound
  <2>4. Accounted'
    BY <2>1, <2>2 DEF Orderly, OneAtATime, Accounted, Typed
  <2>5. UnrefKept'
    BY <2>1, <2>2 DEF Orderly, OneAtATime, UnrefKept, UnrefRespected, Typed
  <2>. QED
    BY <2>3, <2>4, <2>5 DEF Orderly
<1>4. CASE Unref
  <2>1. /\ UNCHANGED <<internalServer, listener, listenResults, closeResults, closes, mailbox>>
        /\ holders' = holders \ {internalServer}
        /\ unrefNext' = (unrefNext \/ internalServer = None)
    BY <1>4 DEF Unref, setup, jsVars, queueVars, UnrefNextAfterUnref
  <2>2. \A l \in Listeners : Pending(l)' <=> Pending(l)
    BY <2>1, PendingChanges
  <2>3. OneAtATime'
    BY <2>1, <2>2 DEF Orderly, OneAtATime, Queues, HeldIsBound
  <2>4. Accounted'
    BY <2>1, <2>2 DEF Orderly, OneAtATime, Accounted, Typed
  <2>5. UnrefKept'
    BY <2>1, <2>2 DEF Orderly, OneAtATime, UnrefKept, UnrefRespected, Typed
  <2>. QED
    BY <2>3, <2>4, <2>5 DEF Orderly
<1>5. CASE Close
  <2>1. internalServer # None /\ closes' = closes + 1 /\ internalServer' = None
    BY <1>5 DEF Close, HandleAfterClose
  <2>2. /\ UNCHANGED <<listener, listenResults, closeResults, holders, unreffed, unrefNext>>
        /\ Asked(mailbox', "close") = Asked(mailbox, "close") \cup {internalServer}
    BY <1>5, <2>1, Posts DEF Close, lwipVars
  <2>3. \A l \in Listeners : ~Pending(l) /\ ~Pending(l)'
    BY <1>5, <2>2, PendingIs, PendingChanges DEF Close
  <2>4. closes' > 0
    BY <2>1 DEF Typed
  <2>5. OneAtATime'
    BY <2>1, <2>2, <2>3, <2>4 DEF Orderly, OneAtATime, Queues, HeldIsBound
  <2>6. Accounted'
    BY <2>1, <2>2, <2>3, <2>4 DEF Orderly, OneAtATime, Accounted, Typed
  <2>7. UnrefKept'
    BY <2>1, <2>2, <2>3, <2>4 DEF Orderly, OneAtATime, UnrefKept, UnrefRespected,
       Typed
  <2>. QED
    BY <2>5, <2>6, <2>7 DEF Orderly
<1>6. CASE OnCloseResult
  <2>1. /\ UNCHANGED <<internalServer, listener, listenResults, holders, closes, unreffed,
                      unrefNext, mailbox>>
        /\ closeResults # {} /\ closeResults' \subseteq closeResults
    BY <1>6 DEF OnCloseResult, lwipVars
  <2>2. \A l \in Listeners : Pending(l)' <=> Pending(l)
    BY <2>1, PendingChanges
  <2>3. OneAtATime'
    BY <2>1, <2>2 DEF Orderly, OneAtATime, Queues, HeldIsBound
  <2>4. Accounted'
    BY <2>1, <2>2 DEF Orderly, OneAtATime, Accounted, Typed
  <2>5. UnrefKept'
    BY <2>1, <2>2 DEF Orderly, OneAtATime, UnrefKept, UnrefRespected, Typed
  <2>. QED
    BY <2>3, <2>4, <2>5 DEF Orderly
<1>7. CASE OnConnection
  <2>1. /\ UNCHANGED <<internalServer, listener, listenResults, closeResults, holders,
                      closes, unreffed, unrefNext>>
        /\ Asked(mailbox', "close") = Asked(mailbox, "close")
    BY <1>7, Posts DEF OnConnection, lwipVars, countVars
  <2>2. \A l \in Listeners : Pending(l)' <=> Pending(l)
    BY <1>7, <2>1, PendingChanges
  <2>3. OneAtATime'
    BY <2>1, <2>2 DEF Orderly, OneAtATime, Queues, HeldIsBound
  <2>4. Accounted'
    BY <2>1, <2>2 DEF Orderly, OneAtATime, Accounted, Typed
  <2>5. UnrefKept'
    BY <2>1, <2>2 DEF Orderly, OneAtATime, UnrefKept, UnrefRespected, Typed
  <2>. QED
    BY <2>3, <2>4, <2>5 DEF Orderly
<1>8. CASE \E c \in Conns : OnSocketClose(c)
  <2>1. PICK c \in Conns : OnSocketClose(c)
    BY <1>8
  <2>2. /\ UNCHANGED <<internalServer, listener, listenResults, closeResults, holders,
                      closes, unreffed, unrefNext>>
        /\ Asked(mailbox', "close") = Asked(mailbox, "close")
    BY <2>1 DEF OnSocketClose, lwipVars, queueVars
  <2>3. \A l \in Listeners : Pending(l)' <=> Pending(l)
    BY <2>1, <2>2, PendingChanges
  <2>4. OneAtATime'
    BY <2>2, <2>3 DEF Orderly, OneAtATime, Queues, HeldIsBound
  <2>5. Accounted'
    BY <2>2, <2>3 DEF Orderly, OneAtATime, Accounted, Typed
  <2>6. UnrefKept'
    BY <2>2, <2>3 DEF Orderly, OneAtATime, UnrefKept, UnrefRespected, Typed
  <2>. QED
    BY <2>4, <2>5, <2>6 DEF Orderly
<1>9. CASE RunListen
  <2>1. PICK k \in Listeners, ok \in BOOLEAN :
          /\ k = Head(mailbox).l
          /\ listener' = [listener EXCEPT ![k] = IF ok THEN "bound" ELSE "failed"]
          /\ holders' = IF ok THEN holders ELSE holders \ {k}
    BY <1>9, Serves DEF RunListen, Tcpip, Asked
  <2>2. /\ UNCHANGED <<internalServer, closeResults, closes, unreffed, unrefNext>>
        /\ Asked(mailbox', "close") = Asked(mailbox, "close")
    BY <1>9, Serves DEF RunListen, Tcpip, setup, jsVars, countVars
  <2>3. \A l \in Listeners : Pending(l)' <=> Pending(l)
    BY <1>9, PendingChanges
  <2>4. Pending(k)
    BY <1>9, <2>1, Serves DEF Tcpip, Queues, MailAgrees, Pending
  <2>5. OneAtATime'
    BY <2>1, <2>2, <2>3, <2>4 DEF Orderly, OneAtATime, Queues, HeldIsBound
  <2>6. Accounted'
    BY <2>1, <2>2, <2>3, <2>4 DEF Orderly, OneAtATime, Accounted, Typed
  <2>7. UnrefKept'
    BY <2>1, <2>2, <2>3, <2>4 DEF Orderly, OneAtATime, UnrefKept, UnrefRespected,
       Typed
  <2>. QED
    BY <2>5, <2>6, <2>7 DEF Orderly
<1>10. CASE RunClose
  <2>1. /\ Head(mailbox).l \in Listeners /\ Asked(mailbox, "close") # {}
        /\ listener' = [listener EXCEPT ![Head(mailbox).l] = "closed"]
        /\ holders' = holders \ {Head(mailbox).l}
        /\ Asked(mailbox', "close") = Asked(mailbox, "close") \ {Head(mailbox).l}
        /\ UNCHANGED <<internalServer, closes, unreffed, unrefNext>>
    BY <1>10, Serves DEF RunClose, Tcpip, Asked, setup, jsVars, countVars
  <2>2. \A l \in Listeners : Pending(l)' <=> Pending(l)
    BY <1>10, PendingChanges
  <2>3. OneAtATime'
    BY <2>1, <2>2 DEF Orderly, OneAtATime, Queues, HeldIsBound
  <2>4. Accounted'
    BY <2>1, <2>2 DEF Orderly, OneAtATime, Accounted, Typed
  <2>5. UnrefKept'
    BY <2>1, <2>2 DEF Orderly, OneAtATime, UnrefKept, UnrefRespected, Typed
  <2>. QED
    BY <2>3, <2>4, <2>5 DEF Orderly
<1>11. CASE RunAccepted
  <2>1. /\ UNCHANGED <<internalServer, listener, listenResults, closeResults, holders,
                      closes, unreffed, unrefNext>>
        /\ Asked(mailbox', "close") = Asked(mailbox, "close")
    BY <1>11, Serves DEF RunAccepted, Tcpip, setup, jsVars, countVars
  <2>2. \A l \in Listeners : Pending(l)' <=> Pending(l)
    BY <1>11, <2>1, PendingChanges
  <2>3. OneAtATime'
    BY <2>1, <2>2 DEF Orderly, OneAtATime, Queues, HeldIsBound
  <2>4. Accounted'
    BY <2>1, <2>2 DEF Orderly, OneAtATime, Accounted, Typed
  <2>5. UnrefKept'
    BY <2>1, <2>2 DEF Orderly, OneAtATime, UnrefKept, UnrefRespected, Typed
  <2>. QED
    BY <2>3, <2>4, <2>5 DEF Orderly
<1>12. CASE \E c \in Conns : Accept(c)
  <2>1. PICK c \in Conns : Accept(c)
    BY <1>12
  <2>2. /\ UNCHANGED <<internalServer, listener, listenResults, closeResults, holders,
                      closes, unreffed, unrefNext>>
        /\ Asked(mailbox', "close") = Asked(mailbox, "close")
    BY <2>1 DEF Accept, setup, jsVars, countVars
  <2>3. \A l \in Listeners : Pending(l)' <=> Pending(l)
    BY <2>1, <2>2, PendingChanges
  <2>4. OneAtATime'
    BY <2>2, <2>3 DEF Orderly, OneAtATime, Queues, HeldIsBound
  <2>5. Accounted'
    BY <2>2, <2>3 DEF Orderly, OneAtATime, Accounted, Typed
  <2>6. UnrefKept'
    BY <2>2, <2>3 DEF Orderly, OneAtATime, UnrefKept, UnrefRespected, Typed
  <2>. QED
    BY <2>4, <2>5, <2>6 DEF Orderly
<1>13. CASE UNCHANGED vars
  <2>1. /\ UNCHANGED <<internalServer, listener, listenResults, closeResults, holders,
                      closes, unreffed, unrefNext>>
        /\ Asked(mailbox', "close") = Asked(mailbox, "close")
    BY <1>13 DEF vars, lwipVars, queueVars, setup, jsVars, countVars
  <2>2. \A l \in Listeners : Pending(l)' <=> Pending(l)
    BY <1>13, <2>1, PendingChanges
  <2>3. OneAtATime'
    BY <2>1, <2>2 DEF Orderly, OneAtATime, Queues, HeldIsBound
  <2>4. Accounted'
    BY <2>1, <2>2 DEF Orderly, OneAtATime, Accounted, Typed
  <2>5. UnrefKept'
    BY <2>1, <2>2 DEF Orderly, OneAtATime, UnrefKept, UnrefRespected, Typed
  <2>. QED
    BY <2>3, <2>4, <2>5 DEF Orderly
<1>. QED
  BY <1>1, <1>2, <1>3, <1>4, <1>5, <1>6, <1>7, <1>8, <1>9, <1>10, <1>11, <1>12,
     <1>13 DEF Next, JavaScript, Tcpip, Quiescent

\* Strays explain the rest.
LEMMA ExplainedStep ==
  ASSUME Typed, Accepts, Counting, Patient, Orderly, Explained, [Next]_vars
  PROVE  Explained'
<1>. USE ListenerNumbers
<1>1. ASSUME UNCHANGED <<internalServer, closes, announced, stray, connAmount>>,
             Open' = Open
      PROVE  Explained'
  BY <1>1 DEF Explained
<1>2. CASE OnListenResult
  <2>1. /\ internalServer' = internalServer \/ internalServer' # None
        /\ UNCHANGED <<conn, closes, announced, stray, connAmount>>
    BY <1>2 DEF OnListenResult, countVars, Typed
  <2>. QED
    BY <2>1, OpenChanges DEF Explained
<1>3. CASE Close
  <2>1. internalServer # None /\ closes' = closes + 1 /\ UNCHANGED <<conn, stray>>
    BY <1>3 DEF Close
  <2>2. UNCHANGED <<announced, connAmount>>
    BY <1>3, <2>1 DEF Close
  <2>3. closes' > 0
    BY <2>1 DEF Typed
  <2>. QED
    BY <2>1, <2>2, <2>3, OpenChanges DEF Explained
<1>4. CASE OnCloseResult
  <2>1. /\ closes > 0 /\ UNCHANGED <<internalServer, conn, closes, stray>>
        /\ EmitCloseIf(connAmount = 0, connAmount)
    BY <1>4 DEF OnCloseResult, Orderly, OneAtATime, DrainedAtClose
  <2>2. Open' = Open
    BY <2>1, OpenChanges
  <2>3. ASSUME announced' > 0, stray' = {}
        PROVE  announced' = 1 /\ Open' = {} /\ connAmount' # 0
    <3>1. CASE announced > 0
      BY <2>1, <2>2, <2>3, <3>1 DEF Explained, EmitCloseIf
    <3>2. CASE announced = 0
      <4>0. resetOnClose
        BY <3>2, Zenon DEF Counting
      <4>1. /\ connAmount = 0 /\ announced' = announced + 1
            /\ connAmount' = AfterClose(connAmount)
        BY <2>1, <2>3, <3>2 DEF EmitCloseIf
      <4>2. Open = {}
        BY <3>2, <4>1, Finite DEF Counting, ConnAmountIsOpen
      <4>. QED
        BY <2>2, <3>2, <4>0, <4>1, <4>2 DEF AfterClose
    <3>. QED
      BY <3>1, <3>2 DEF Typed
  <2>. QED
    BY <2>1, <2>3 DEF Explained
<1>5. CASE OnConnection
  <2>1. /\ stray' = stray \cup Stray
        /\ UNCHANGED <<internalServer, closes, announced>>
    BY <1>5 DEF OnConnection
  <2>2. announced > 0 => "late" \in stray'
    BY <2>1 DEF Stray
  <2>3. internalServer = None /\ closes = 0 => "early" \in stray'
    BY <2>1 DEF Stray
  <2>. QED
    BY <2>1, <2>2, <2>3 DEF Explained
<1>6. CASE \E c \in Conns : OnSocketClose(c)
  <2>1. PICK c \in Conns : OnSocketClose(c)
    BY <1>6
  <2>2. /\ c \in Open /\ Open' = Open \ {c}
        /\ EmitCloseIf(DrainedAtEnd(connAmount - 1), connAmount - 1)
        /\ UNCHANGED <<internalServer, closes, stray>>
    BY <2>1, OpenChanges DEF OnSocketClose, CountAfterEnd
  <2>3. announced' > 0 => closes > 0 \/ "early" \in stray
    BY <2>2 DEF EmitCloseIf, DrainedAtEnd, Explained, Typed
  <2>4. ASSUME announced' > 0, stray = {}
        PROVE  announced' = 1 /\ Open' = {} /\ connAmount' # 0
    <3>1. announced = 0
      BY <2>2, <2>4 DEF Explained, Typed
    <3>2. resetOnClose
      BY <3>1, Zenon DEF Counting
    <3>3. announced' = 1 /\ connAmount' = -1 /\ connAmount - 1 = 0
      <4>1. DrainedAtEnd(connAmount - 1)
        BY <2>2, <2>4, <3>1 DEF EmitCloseIf
      <4>2. /\ announced' = announced + 1 /\ connAmount' = AfterClose(connAmount - 1)
        BY <2>2, <4>1 DEF EmitCloseIf
      <4>. QED
        BY <3>1, <3>2, <4>1, <4>2 DEF DrainedAtEnd, AfterClose
    <3>4. Cardinality(Open') = 0
      BY <2>2, <3>1, <3>3, Finite DEF Counting, ConnAmountIsOpen
    <3>. QED
      BY <2>1, <3>3, <3>4, Finite, OpenChanges
  <2>. QED
    BY <2>2, <2>3, <2>4 DEF Explained
<1>7. CASE \/ Listen \/ Ref \/ Unref \/ RunListen \/ RunClose \/ RunAccepted
           \/ UNCHANGED vars
  <2>1. UNCHANGED <<internalServer, closes, announced, stray, connAmount, conn>>
    BY <1>7 DEF Listen, Ref, Unref, RunListen, RunClose, RunAccepted, vars, setup,
       jsVars, countVars
  <2>. QED
    BY <1>1, <2>1, OpenChanges
<1>8. CASE \E c \in Conns : Accept(c)
  <2>1. /\ UNCHANGED <<internalServer, closes, announced, stray, connAmount>>
        /\ Open' = Open
    BY <1>8, OpenChanges DEF Accept, setup, jsVars, countVars
  <2>. QED
    BY <1>1, <2>1
<1>. QED
  BY <1>2, <1>3, <1>4, <1>5, <1>6, <1>7, <1>8
     DEF Next, JavaScript, Tcpip, Quiescent

\* Every step keeps the invariant.
LEMMA ServerStep == ASSUME ServerInv, [Next]_vars PROVE ServerInv'
<1>1. UNCHANGED use
  BY DEF Next, JavaScript, Tcpip, Quiescent, vars, setup, jsVars, Listen, OnListenResult,
     Ref, Unref, Close, OnCloseResult, OnConnection, OnSocketClose, RunListen, RunClose,
     RunAccepted, Accept
<1>2. Typed' /\ Flags' /\ Queues' /\ Accepts' /\ Counting'
  BY TypesStep, FlagsStep, QueuesStep, AcceptsStep, CountingStep DEF ServerInv
<1>3. Patient' => Orderly' /\ Explained'
  BY <1>1, OrderlyStep, ExplainedStep DEF ServerInv, Patient
<1>. QED
  BY <1>2, <1>3 DEF ServerInv

-----------------------------------------------------------------------------
(* What follows *)

\* The invariant holds of every behaviour.
THEOREM ServerInvariant == Spec => []ServerInv
<1>. QED
  BY InitialServer, ServerStep, PTL DEF Spec

\* Every state the server reaches has its type.
THEOREM ServerTypes == Spec => []TypeOK
<1>1. ASSUME ServerInv PROVE TypeOK
  <2>1. {resetOnClose, unrefNext, unreffed} \subseteq BOOLEAN
    BY <1>1 DEF ServerInv, Flags
  <2>2. /\ connAmount \in -(1 + Cardinality(Conns))..Cardinality(Conns)
        /\ owed \in 0..MaxCloses
    BY <1>1, Finite, ListenerNumbers DEF ServerInv, Counting, Typed
  <2>. QED
    BY <1>1, <2>1, <2>2 DEF ServerInv, Typed, Flags, TypeOK
<1>. QED
  BY <1>1, ServerInvariant, PTL

\* The server and lwIP agree: the native server that JavaScript holds is live,
\* and a patient application loses none and unrefs the one it has.
THEOREM ServerAgreesWithLwip == Spec => []HandlesAgree
<1>1. ASSUME ServerInv PROVE HandlesAgree
  <2>1. \A l \in Listeners : BeingClosed(l) <=> l \in Asked(mailbox, "close")
    BY DEF BeingClosed, Asked
  <2>2. HandleIsLive
    BY <1>1, <2>1 DEF ServerInv, Typed, Queues, MailAgrees, HeldIsBound, HandleIsLive
  <2>3. ASSUME Patient PROVE NoOrphan
    BY <1>1, <2>1, <2>3 DEF ServerInv, Orderly, Accounted, Pending, NoOrphan
  <2>4. ASSUME Patient PROVE UnrefRespected
    BY <1>1, <2>4 DEF ServerInv, Orderly, UnrefKept
  <2>. QED
    BY <2>2, <2>3, <2>4 DEF HandlesAgree
<1>. QED
  BY <1>1, ServerInvariant, PTL

\* Until the first "close" the count is the number of open connections.
THEOREM CountIsRight == Spec => []ConnAmountIsOpen
<1>1. ServerInv => ConnAmountIsOpen
  BY DEF ServerInv, Counting
<1>. QED
  BY <1>1, ServerInvariant, PTL

\* For a patient application a "close" that is the first is emitted by a step
\* that leaves no connection open, and explained.
LEMMA FirstClose ==
  ASSUME ServerInv, [Next]_vars, Patient, announced = 0, announced' = 1
  PROVE  Open' = {} /\ (closes' > 0 \/ "early" \in stray)
<1>1. connAmount = Cardinality(Open)
  BY DEF ServerInv, Counting, ConnAmountIsOpen
<1>2. ASSUME OnCloseResult PROVE Open' = {}
  <2>1. EmitCloseIf(connAmount = 0, connAmount) /\ UNCHANGED conn
    BY <1>2 DEF OnCloseResult, DrainedAtClose
  <2>2. connAmount = 0
    BY <2>1 DEF EmitCloseIf
  <2>. QED
    BY <1>1, <2>1, <2>2, Finite DEF Open
<1>3. ASSUME NEW c \in Conns, OnSocketClose(c) PROVE Open' = {}
  <2>1. c \in Open /\ Open' = Open \ {c}
    BY <1>3, OpenChanges DEF ServerInv
  <2>2. EmitCloseIf(DrainedAtEnd(connAmount - 1), connAmount - 1)
    BY <1>3 DEF OnSocketClose, CountAfterEnd
  <2>3. connAmount - 1 = 0
    BY <2>2 DEF EmitCloseIf, DrainedAtEnd
  <2>. QED
    BY <1>1, <2>1, <2>3, Finite, OpenChanges DEF ServerInv
<1>4. announced' # announced
  OBVIOUS
<1>5. OnCloseResult \/ \E c \in Conns : OnSocketClose(c)
  BY <1>4 DEF Next, JavaScript, Tcpip, Quiescent, vars, setup, jsVars, countVars,
     Listen, OnListenResult, Ref, Unref, Close, OnConnection, RunListen, RunClose, RunAccepted,
     Accept
<1>6. Open' = {}
  BY <1>2, <1>3, <1>5
<1>7. closes' > 0 \/ "early" \in stray
  <2>1. Patient' => Explained'
    BY ServerStep DEF ServerInv
  <2>2. OnCloseResult \/ (\E c \in Conns : OnSocketClose(c)) => UNCHANGED stray
    BY DEF OnCloseResult, OnSocketClose
  <2>3. Patient'
    BY <1>5 DEF OnCloseResult, OnSocketClose, setup, Patient
  <2>. QED
    BY <1>5, <2>1, <2>2, <2>3 DEF Explained
<1>. QED
  BY <1>6, <1>7

\* So the first "close" comes when no connection is open, and after a close unless
\* a connection was delivered before the result of its listen.
THEOREM FirstCloseComesLast == Spec => FirstCloseDrained
<1>1. ServerInv /\ [Next]_vars
        => [Patient /\ announced = 0 /\ announced' = 1 =>
              Open' = {} /\ (closes' > 0 \/ "early" \in stray)]_vars
  BY FirstClose
<1>. QED
  BY <1>1, ServerInvariant, PTL DEF Spec, FirstCloseDrained

-----------------------------------------------------------------------------
(* The lifecycle *)

\* What the lifecycle sees of a step.
Sees(state, connections, reported) ==
  /\ UNCHANGED setup
  /\ Phase' = state
  /\ Open' = connections
  /\ announced' = reported

\* Used patiently, a server steps as the lifecycle does, or not at all for it,
\* until a connection is delivered too early or too late.
LEMMA LifeStep ==
  ASSUME ServerInv, [Next]_vars, Patient, stray' = {}
  PROVE  \/ Sees(Phase, Open, announced)
         \/ Phase = "new" /\ Sees("up", Open, announced)
         \/ /\ Phase # "new" /\ announced = 0
            /\ \E c \in Conns \ Open : Sees(Phase, Open \cup {c}, announced)
            /\ Cardinality(Open') <= maxConnections
         \/ /\ announced = 0
            /\ \E c \in Open :
                 Sees(Phase, Open \ {c},
                      IF Phase = "stopped" /\ Open \ {c} = {} THEN 1 ELSE 0)
         \/ Phase = "up" /\ Sees("stopped", Open, announced)
         \/ Phase = "stopped" /\ Open = {} /\ announced = 0 /\ Sees(Phase, Open, 1)
<1>. USE ListenerNumbers DEF Sees
<1>1. Typed /\ Flags /\ Queues /\ Accepts /\ Counting /\ Patient /\ Orderly /\ Explained
  BY DEF ServerInv, Patient
<1>2. UNCHANGED setup /\ stray = {}
  BY DEF Next, JavaScript, Tcpip, Quiescent, vars, jsVars, countVars, Listen,
     OnListenResult, Ref, Unref, Close, OnCloseResult, OnConnection, OnSocketClose,
     RunListen, RunClose, RunAccepted, Accept
<1>3. CASE OnListenResult
  <2>1. PICK r \in listenResults :
          /\ \/ r.ok /\ internalServer' = r.l
             \/ UNCHANGED internalServer
          /\ UNCHANGED <<conn, announced, closes>>
    BY <1>3 DEF OnListenResult, countVars
  <2>2. r.l \in Listeners /\ Pending(r.l)
    BY <1>1 DEF Typed, Pending
  <2>3. r.l # None /\ internalServer = None /\ closes = 0
    BY <1>1, <2>2 DEF Orderly, OneAtATime
  <2>. QED
    BY <1>2, <2>1, <2>3 DEF Open, Phase
<1>4. CASE Close
  <2>1. /\ internalServer # None /\ closes = 0 /\ closes' > 0
        /\ UNCHANGED <<conn, announced>>
    <3>1. internalServer # None /\ closes' = closes + 1 /\ UNCHANGED conn
      BY <1>1, <1>4 DEF Close
    <3>2. UNCHANGED announced
      BY <1>4, <3>1 DEF Close
    <3>. QED
      BY <1>1, <3>1, <3>2 DEF Orderly, OneAtATime, Typed
  <2>. QED
    BY <1>2, <2>1 DEF Open, Phase
<1>5. CASE OnCloseResult
  <2>1. /\ EmitCloseIf(connAmount = 0, connAmount)
        /\ UNCHANGED <<internalServer, conn, closes>> /\ closes > 0
    BY <1>1, <1>5 DEF OnCloseResult, DrainedAtClose, Orderly, OneAtATime
  <2>2. Phase = "stopped" /\ Phase' = Phase /\ Open' = Open
    BY <2>1 DEF Phase, Open
  <2>3. CASE connAmount = 0
    <3>1. announced = 0 /\ announced' = 1
      BY <1>1, <1>2, <2>1, <2>3 DEF EmitCloseIf, Explained, Typed
    <3>2. Open = {}
      BY <1>1, <2>3, <3>1, Finite DEF Counting, ConnAmountIsOpen
    <3>. QED
      BY <1>2, <2>2, <3>1, <3>2
  <2>4. CASE connAmount # 0
    BY <1>2, <2>1, <2>2, <2>4 DEF EmitCloseIf
  <2>. QED
    BY <2>3, <2>4
<1>6. CASE OnConnection
  <2>1. /\ UNCHANGED <<internalServer, announced, closes>>
        /\ Stray = {}
    BY <1>6 DEF OnConnection
  <2>2. Phase' = Phase /\ Phase # "new" /\ announced = 0
    <3>1. "early" \notin Stray /\ "late" \notin Stray
      BY <2>1
    <3>2. ~(internalServer = None /\ closes = 0) /\ ~(announced > 0)
      BY <3>1 DEF Stray
    <3>. QED
      BY <1>1, <2>1, <3>2 DEF Phase, Typed
  <2>3. CASE Open' = Open
    BY <1>2, <2>1, <2>2, <2>3
  <2>4. CASE Open' # Open
    <3>1. ~Full
      BY <1>1, <1>6, <2>4, OpenChanges
    <3>2. PICK c \in Conns \ Open : Open' = Open \cup {c}
      BY <1>1, <1>6, <2>4, OpenChanges
    <3>3. Cardinality(Open') = connAmount + 1
      BY <1>1, <2>2, <3>2, Finite DEF Counting, ConnAmountIsOpen
    <3>4. Cardinality(Open') <= maxConnections
      BY <1>1, <3>1, <3>3, ServerAssumption DEF Full, Counting, Typed
    <3>. QED
      BY <1>2, <2>1, <2>2, <3>2, <3>4
  <2>. QED
    BY <2>3, <2>4
<1>7. ASSUME NEW c \in Conns, OnSocketClose(c)
      PROVE  /\ announced = 0 /\ c \in Open
             /\ Sees(Phase, Open \ {c},
                     IF Phase = "stopped" /\ Open \ {c} = {} THEN 1 ELSE 0)
  <2>1. c \in Open /\ Open' = Open \ {c}
    BY <1>1, <1>7, OpenChanges
  <2>2. /\ EmitCloseIf(DrainedAtEnd(connAmount - 1), connAmount - 1)
        /\ UNCHANGED <<internalServer, closes>>
    BY <1>7 DEF OnSocketClose, CountAfterEnd
  <2>3. announced = 0
    BY <1>1, <1>2, <2>1 DEF Explained, Typed
  <2>4. Cardinality(Open') = Cardinality(Open) - 1
    BY <2>1, Finite
  <2>5. Open' = {} <=> Cardinality(Open') = 0
    BY <1>1, Finite, OpenChanges, FS_EmptySet
  <2>6. connAmount - 1 = 0 <=> Open' = {}
    BY <1>1, <2>3, <2>4, <2>5, Finite DEF Counting, ConnAmountIsOpen
  <2>7. Phase = "stopped" <=> internalServer = None
    <3>1. closes = 0 => internalServer # None
      BY <1>1, <1>2, <2>1 DEF Explained
    <3>. QED
      BY <1>1, <3>1 DEF Orderly, OneAtATime, Phase, Typed
  <2>8. announced' = IF Phase = "stopped" /\ Open \ {c} = {} THEN 1 ELSE 0
    BY <2>1, <2>2, <2>3, <2>6, <2>7 DEF EmitCloseIf, DrainedAtEnd
  <2>. QED
    BY <1>2, <2>1, <2>2, <2>3, <2>8 DEF Phase
<1>8. CASE \E c \in Conns : Accept(c)
  <2>1. UNCHANGED <<internalServer, announced, closes>> /\ Open' = Open
    BY <1>1, <1>8, OpenChanges DEF Accept, setup, jsVars, countVars
  <2>. QED
    BY <1>2, <2>1 DEF Phase
<1>9. CASE \/ Listen \/ Ref \/ Unref \/ RunListen \/ RunClose \/ RunAccepted
           \/ UNCHANGED vars
  <2>1. UNCHANGED <<internalServer, conn, announced, closes>>
    BY <1>9 DEF Listen, Ref, Unref, RunListen, RunClose, RunAccepted, vars, setup,
       jsVars, countVars
  <2>. QED
    BY <1>2, <2>1 DEF Open, Phase
<1>10. CASE \E c \in Conns : OnSocketClose(c)
  BY <1>7, <1>10
<1>. HIDE DEF Sees
<1>. QED
  BY <1>3, <1>4, <1>5, <1>6, <1>8, <1>9, <1>10 DEF Next, JavaScript, Tcpip, Quiescent

\* Used patiently the server implements the lifecycle until a connection is
\* delivered too early or too late: connections are opened within the limit and
\* before the end is announced, "close" exactly once, after a close and the last
\* of them.
THEOREM LifecycleImplemented == Spec => ImplementsLifecycle
<1>1. Init => Life!LifeInit
  BY ServerAssumption DEF Init, Life!LifeInit, Open, Phase
<1>2. ASSUME ServerInv, [Next]_vars
      PROVE  [Life!LifeNext \/ stray' # {}]_(Life!lifeVars)
  <2>1. UNCHANGED setup
    BY <1>2 DEF Next, JavaScript, Tcpip, Quiescent, vars, jsVars, Listen,
       OnListenResult, Ref, Unref, Close, OnCloseResult, OnConnection, OnSocketClose,
       RunListen, RunClose, RunAccepted, Accept
  <2>2. CASE ~Patient
    <3>1. ~Patient' /\ UNCHANGED maxConnections
      BY <2>1, <2>2 DEF Patient, setup
    <3>. QED
      BY <2>2, <3>1 DEF Life!lifeVars
  <2>3. CASE Patient /\ stray' = {}
    <3> DEFINE phase1 == IF Patient THEN Phase ELSE "new"
               open1 == IF Patient THEN Open ELSE {}
               told1 == IF Patient THEN announced ELSE 0
    <3>1. Patient' /\ UNCHANGED maxConnections
      BY <2>1, <2>3 DEF Patient, setup
    <3>2. /\ phase1 = Phase /\ open1 = Open /\ told1 = announced
          /\ phase1' = Phase' /\ open1' = Open' /\ told1' = announced'
      BY <2>3, <3>1
    <3>3. CASE Sees(Phase, Open, announced)
      BY <3>1, <3>2, <3>3 DEF Sees, Life!lifeVars
    <3>4. CASE Phase = "new" /\ Sees("up", Open, announced)
      BY <3>1, <3>2, <3>4 DEF Sees, Life!LifeNext, Life!Start
    <3>5. CASE /\ Phase # "new" /\ announced = 0
               /\ \E c \in Conns \ Open : Sees(Phase, Open \cup {c}, announced)
               /\ Cardinality(Open') <= maxConnections
      <4>1. PICK c \in Conns \ Open : Sees(Phase, Open \cup {c}, announced)
        BY <3>5
      <4>2. /\ phase1 # "new" /\ told1 = 0 /\ phase1' = phase1 /\ told1' = told1
            /\ c \in Conns \ open1 /\ open1' = open1 \cup {c}
            /\ Cardinality(open1') <= maxConnections
        BY <3>2, <3>5, <4>1 DEF Sees
      <4>3. \A S : Life!Cardinality(S) = Cardinality(S)
        BY DEF Life!Cardinality, Cardinality
      <4>. QED
        BY <3>1, <4>2, <4>3 DEF Life!LifeNext, Life!Open
    <3>6. CASE /\ announced = 0
               /\ \E c \in Open :
                    Sees(Phase, Open \ {c},
                         IF Phase = "stopped" /\ Open \ {c} = {} THEN 1 ELSE 0)
      <4>1. PICK c \in Open : Sees(Phase, Open \ {c},
                                  IF Phase = "stopped" /\ Open \ {c} = {} THEN 1 ELSE 0)
        BY <3>6
      <4>2. /\ told1 = 0 /\ c \in open1 /\ open1' = open1 \ {c} /\ phase1' = phase1
            /\ told1' = IF phase1 = "stopped" /\ open1' = {} THEN 1 ELSE 0
        BY <3>2, <3>6, <4>1 DEF Sees
      <4>. QED
        BY <3>1, <4>2 DEF Life!LifeNext, Life!End
    <3>7. CASE Phase = "up" /\ Sees("stopped", Open, announced)
      BY <3>1, <3>2, <3>7 DEF Sees, Life!LifeNext, Life!Stop
    <3>8. CASE Phase = "stopped" /\ Open = {} /\ announced = 0 /\ Sees(Phase, Open, 1)
      BY <3>1, <3>2, <3>8 DEF Sees, Life!LifeNext, Life!Announce
    <3>. QED
      BY <1>2, <2>3, <3>3, <3>4, <3>5, <3>6, <3>7, <3>8, LifeStep
  <2>. QED
    BY <2>2, <2>3
<1>. QED
  BY <1>1, <1>2, ServerInvariant, PTL DEF Spec, ImplementsLifecycle
-----------------------------------------------------------------------------
(* The arguments of listen and createConnection *)

\* What is known of an option that may be left out.
LEMMA MaybeFacts ==
  ASSUME NEW t \in Types, NEW s \in Maybe(t)
  PROVE  /\ s \in Seq(Argument) /\ Len(s) \in 0..1
         /\ Len(s) = 0 => s = <<>>
         /\ Len(s) = 1 => s = <<s[1]>> /\ s[1].type = t
<1>1. CASE s = <<>>
  BY <1>1
<1>2. CASE \E a \in [type : {t}, value : Value] : s = <<a>>
  <2>1. PICK a \in [type : {t}, value : Value] : s = <<a>>
    BY <1>2
  <2>2. a \in Argument /\ a.type = t
    BY DEF Argument
  <2> QED
    BY <2>1, <2>2
<1> QED
  BY <1>1, <1>2 DEF Maybe

\* Where the elements of two sequences are in their concatenation.
LEMMA Places ==
  ASSUME NEW s \in Seq(Argument), NEW t \in Seq(Argument), NEW r, r = s \o t
  PROVE  /\ r \in Seq(Argument) /\ Len(r) = Len(s) + Len(t)
         /\ \A i \in 1..Len(s) : r[i] = s[i]
         /\ \A i \in 1..Len(t) : r[Len(s) + i] = t[i]
OBVIOUS

\* extractListenArgs finds each option where the ones before it leave off.
LEMMA OptionsRead ==
  ASSUME NEW o \in Options
  PROVE  extractListenArgs(Passed(o)) = o
<1> SUFFICES ASSUME NEW p \in Maybe("number"), NEW h \in Maybe("string"),
                    NEW b \in Maybe("number"), NEW c \in Maybe("function"),
                    b # <<>> => p # <<>> \/ h # <<>>
             PROVE  extractListenArgs(((p \o h) \o b) \o c)
                      = [port |-> p, host |-> h, backlog |-> b, callback |-> c]
  BY DEF Options, Passed
<1> DEFINE np == Len(p)  nh == Len(h)
           nb == Len(b)  nc == Len(c)
           ph == p \o h
           phb == ph \o b
           args == phb \o c
<1>2. /\ {"number", "string", "function"} \subseteq Types
      /\ np \in 0..1 /\ nh \in 0..1 /\ nb \in 0..1 /\ nc \in 0..1
  BY MaybeFacts DEF Types
<1>3. /\ np = 1 => p = <<p[1]>> /\ p[1].type = "number"
      /\ nh = 1 => h = <<h[1]>> /\ h[1].type = "string"
      /\ nb = 1 => b = <<b[1]>> /\ b[1].type = "number"
      /\ nc = 1 => c = <<c[1]>> /\ c[1].type = "function"
  BY <1>2, MaybeFacts
<1>4. /\ np = 0 => p = <<>>
      /\ nh = 0 => h = <<>>
      /\ nb = 0 => b = <<>>
      /\ nc = 0 => c = <<>>
  BY <1>2, MaybeFacts
<1>5. nb = 1 => np = 1 \/ nh = 1
  <2>1. nb = 1 => b # <<>>
    OBVIOUS
  <2> QED
    BY <2>1, <1>2, <1>4
<1>6. /\ p \in Seq(Argument) /\ h \in Seq(Argument)
      /\ b \in Seq(Argument) /\ c \in Seq(Argument)
  BY <1>2, MaybeFacts
<1>7. ph \in Seq(Argument) /\ Len(ph) = np + nh
  BY <1>6
<1>8. /\ \A i \in 1..np : ph[i] = p[i]
      /\ \A i \in 1..nh : ph[np + i] = h[i]
  BY <1>6, Places
<1> HIDE DEF ph
<1>9. phb \in Seq(Argument) /\ Len(phb) = Len(ph) + nb
  BY <1>6, <1>7, Places
<1>10. /\ \A i \in 1..Len(ph) : phb[i] = ph[i]
       /\ \A i \in 1..nb : phb[Len(ph) + i] = b[i]
  BY <1>6, <1>7, Places, SMTT(30)
<1> HIDE DEF phb
<1>11. args \in Seq(Argument) /\ Len(args) = Len(phb) + nc
  BY <1>6, <1>9, Places
<1>12. /\ \A i \in 1..Len(phb) : args[i] = phb[i]
       /\ \A i \in 1..nc : args[Len(phb) + i] = c[i]
  BY <1>6, <1>9, Places, SMTT(30)
<1> HIDE DEF args
<1> HIDE DEF np, nh, nb, nc
<1>13. /\ np = 1 => args[1] = p[1]
       /\ nh = 1 => args[1 + np] = h[1]
       /\ nb = 1 => args[1 + np + nh] = b[1]
       /\ nc = 1 => args[1 + np + nh + nb] = c[1]
  <2>1. np = 1 => args[1] = p[1]
    BY <1>2, <1>7, <1>8, <1>9, <1>10, <1>11, <1>12
  <2>2. ASSUME nh = 1 PROVE args[1 + np] = h[1]
    <3>1. /\ np + 1 \in 1..(np + nh) /\ np + 1 \in 1..((np + nh) + nb)
          /\ 1 \in 1..nh /\ 1 + np = np + 1
      BY <2>2, <1>2
    <3> QED
      BY <3>1, <1>7, <1>8, <1>9, <1>10, <1>11, <1>12
  <2>3. ASSUME nb = 1 PROVE args[1 + np + nh] = b[1]
    <3>1. /\ (np + nh) + 1 \in 1..((np + nh) + nb)
          /\ 1 \in 1..nb /\ 1 + np + nh = (np + nh) + 1
      BY <2>3, <1>2
    <3> QED
      BY <3>1, <1>2, <1>7, <1>8, <1>9, <1>10, <1>11, <1>12
  <2>4. ASSUME nc = 1 PROVE args[1 + np + nh + nb] = c[1]
    <3>1. 1 \in 1..nc /\ 1 + np + nh + nb = ((np + nh) + nb) + 1
      BY <2>4, <1>2
    <3> QED
      BY <3>1, <1>2, <1>7, <1>8, <1>9, <1>10, <1>11, <1>12
  <2> QED
    BY <2>1, <2>2, <2>3, <2>4
<1>14. /\ IsA(args, 1, "number") <=> np = 1
       /\ IsA(args, 1 + np, "string") <=> nh = 1
       /\ IsA(args, 1 + np + nh, "number") <=> nb = 1
       /\ IsA(args, 1 + np + nh + nb, "function") <=> nc = 1
  <2>1. Len(args) = np + nh + nb + nc
    BY <1>2, <1>7, <1>8, <1>9, <1>10, <1>11, <1>12
  <2>2. /\ np = 1 => args[1].type = "number"
        /\ nh = 1 => args[1 + np].type = "string"
        /\ nb = 1 => args[1 + np + nh].type = "number"
        /\ nc = 1 => args[1 + np + nh + nb].type = "function"
    BY <1>3, <1>13
  <2> QED
    BY <2>1, <2>2, <1>2, <1>5 DEF IsA
<1>15. /\ After(args, 1, "number") = 1 + np
       /\ After(args, 1 + np, "string") = 1 + np + nh
       /\ After(args, 1 + np + nh, "number") = 1 + np + nh + nb
  BY <1>2, <1>14 DEF After
<1>16. /\ Option(args, 1, "number") = p
       /\ Option(args, 1 + np, "string") = h
       /\ Option(args, 1 + np + nh, "number") = b
       /\ Option(args, 1 + np + nh + nb, "function") = c
  <2>1. Option(args, 1, "number") = p
    BY <1>2, <1>3, <1>4, <1>13, <1>14 DEF Option
  <2>2. Option(args, 1 + np, "string") = h
    BY <1>2, <1>3, <1>4, <1>13, <1>14 DEF Option
  <2>3. Option(args, 1 + np + nh, "number") = b
    BY <1>2, <1>3, <1>4, <1>13, <1>14 DEF Option
  <2>4. Option(args, 1 + np + nh + nb, "function") = c
    BY <1>2, <1>3, <1>4, <1>13, <1>14 DEF Option
  <2> QED
    BY <2>1, <2>2, <2>3, <2>4
<1>17. extractListenArgs(args)
         = [port |-> p, host |-> h, backlog |-> b, callback |-> c]
  BY <1>15, <1>16 DEF extractListenArgs
<1> QED
  BY <1>17 DEF args, phb, ph

\* Passed options begin with a number, a string or a function, if with anything.
LEMMA NoObjectFirst ==
  ASSUME NEW o \in Options
  PROVE  ~IsA(Passed(o), 1, "object")
<1>. SUFFICES ASSUME IsA(Passed(o), 1, "object") PROVE FALSE
  OBVIOUS
<1>1. extractListenArgs(Passed(o))
        = [port |-> <<>>, host |-> <<>>, backlog |-> <<>>, callback |-> <<>>]
  BY DEF extractListenArgs, Option, After, IsA
<1>2. o = [port |-> <<>>, host |-> <<>>, backlog |-> <<>>, callback |-> <<>>]
  BY <1>1, OptionsRead
<1>3. Passed(o) = <<>>
  BY <1>2 DEF Passed
<1>. QED
  BY <1>3 DEF IsA

\* Passed options are read as they are meant: whichever of them are left out, no
\* argument is taken for another option or dropped (net.ts:115-124 and 462-482).
THEOREM OverloadsRead ==
  ASSUME NEW o \in Options
  PROVE  listen(Passed(o)) = o
BY OptionsRead, NoObjectFirst DEF listen

\* The listener of createConnection(port, host, listener) is dropped if, and only
\* if, the host is passed as undefined, which its declaration allows
\* (net.ts:416-420 and 431-434).
THEOREM ListenerDropped ==
  ASSUME NEW port \in [type : {"number"}, value : Value],
         NEW host \in [type : {"string", "undefined"}, value : Value],
         NEW f \in [type : {"function"}, value : Value]
  PROVE  createConnection(port, host, f).listener # f <=> host.type = "undefined"
BY DEF createConnection
=============================================================================
